---------------------------- MODULE MongoStore ----------------------------
(***************************************************************************)
(* The fourth homework: Database over MongoDB.  A creation is several      *)
(* commands: a new login and email are looked for before the insert, a new *)
(* folder or message is read back after it, and a message carries a copy   *)
(* of its sender, who is looked up first.  The unique indexes of           *)
(* init-mongo.js are in force; there are no foreign keys.                  *)
(*                                                                         *)
(* A command may throw, also when it has done its work: the operation then *)
(* returns "nothing".  The server is one host, so a command sees all that  *)
(* were acknowledged before it.                                            *)
(***************************************************************************)
EXTENDS MailStore

\* The document is stored, and the operation, which goes on with GoOn, may not
\* hear of it.
Insert(r, GoOn) ==
  /\ Unique(r)
  /\ Put(r)
  /\ rowId' = [rowId EXCEPT ![r] = New(r).id]
  /\ GoOn \/ Refuse(r)

\* Variant: the email is not looked for, and nothing indexes users.
InsertUser_NoIndex(r) ==
  /\ pc[r] = "insert" /\ task[r].table = "users"
  /\ Put(r)
  /\ rowId' = [rowId EXCEPT ![r] = New(r).id]
  /\ Answer(r, 201, {New(r)}) \/ Refuse(r)

CheckLogin(r) ==
  /\ pc[r] = "create" /\ task[r].table = "users"
  /\ \A u \in rows["users"] : u.says.login # Says(r).login
  /\ Proceed(r, "email")
  /\ UNCHANGED <<rows, rowId>>

CheckEmail(r) ==
  /\ pc[r] = "email"
  /\ \A u \in rows["users"] : u.says.email # Says(r).email
  /\ Proceed(r, "insert")
  /\ UNCHANGED <<rows, rowId>>

\* The answer is put together from the form and the new id.
InsertUser(r) ==
  /\ pc[r] = "insert" /\ task[r].table = "users"
  /\ Insert(r, Answer(r, 201, {New(r)}))

InsertFolder(r) ==
  /\ pc[r] = "create" /\ task[r].table = "folders"
  /\ Insert(r, Proceed(r, "fetch"))

FindSender(r) ==
  /\ pc[r] = "create" /\ task[r].table = "messages"
  /\ With("users", Says(r).sender) # {}
  /\ Proceed(r, "insert")
  /\ UNCHANGED <<rows, rowId>>

InsertMessage(r) ==
  /\ pc[r] = "insert" /\ task[r].table = "messages"
  /\ Insert(r, Proceed(r, "fetch"))

\* The new folder or message is read back under its id.
Fetch(r) ==
  /\ pc[r] = "fetch"
  /\ \E row \in With(task[r].table, rowId[r]) : Answer(r, 201, {row})
  /\ UNCHANGED <<rows, rowId>>

\* Something is found that must not be, is not found that must be, or throws.
CreateFails(r) ==
  /\ pc[r] \in {"create", "email", "insert", "fetch"}
  /\ Refuse(r)
  /\ UNCHANGED <<rows, rowId>>

Create(r) ==
  /\ \/ CheckLogin(r) \/ CheckEmail(r) \/ InsertUser(r)
     \/ InsertFolder(r)
     \/ FindSender(r) \/ InsertMessage(r)
     \/ Fetch(r) \/ CreateFails(r)
  /\ UNCHANGED <<lastRow, overtaken>>

---------------------------------------------------------------------------
\* The results a query may have: all of it, or nothing, also when the cursor
\* throws half-way.

FindUserByLogin(login) ==
  OrNothing({u \in rows["users"] : u.says.login = login})

\* A pattern for either name; who matches is left open.
SearchUsersByNameMask == SUBSET rows["users"]

AuthenticateUser(form) ==
  OrNothing({u \in rows["users"] :
    u.says.login = form.login /\ u.says.password = form.password})

ListFolders(u) == OrNothing({f \in rows["folders"] : f.says.owner = u})

GetFolderById(i) == OrNothing(With("folders", i))

\* Variant: only a folder that is found and is another's is refused.
FolderBelongsToUser_OrAbsent(i, u) ==
  {\A f \in found : f.says.owner = u : found \in GetFolderById(i)}

FolderBelongsToUser(i, u) ==
  {\E f \in found : f.says.owner = u : found \in GetFolderById(i)}

ListMessagesInFolder(i) == OrNothing({m \in rows["messages"] : m.says.folder = i})

GetMessageById(i) == OrNothing(With("messages", i))

\* GetMessageById again, then FolderBelongsToUser: neither the message nor its
\* folder ever changes or disappears, so the two queries are one step.
MessageBelongsToUser(i, u) ==
  {\E m \in found : Owned(m.says.folder, u) : found \in GetMessageById(i)} \cup {FALSE}
=============================================================================
