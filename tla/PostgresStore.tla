--------------------------- MODULE PostgresStore ---------------------------
(***************************************************************************)
(* The third homework: Database over PostgreSQL.  A creation is one        *)
(* INSERT ... RETURNING statement, and the constraints of init-db.sql are  *)
(* in force.  Whatever goes wrong is an exception, which every operation   *)
(* turns into "nothing": a duplicate, a foreign key, a lost connection,    *)
(* and a commit whose result did not come back.                            *)
(*                                                                         *)
(* The cluster is one host, so that reading from kSlave is reading from    *)
(* the master, and a SELECT is a snapshot of whole statements.             *)
(***************************************************************************)
EXTENDS MailStore

\* The UNIQUE and FOREIGN KEY constraints.
Fits(r) ==
  /\ Unique(r)
  /\ CASE task[r].table = "users"    -> TRUE
       [] task[r].table = "folders"  -> With("users", Says(r).owner) # {}
       [] task[r].table = "messages" ->
            With("folders", Says(r).folder) # {} /\ With("users", Says(r).sender) # {}

\* The statement commits, and its row comes back or the connection is lost.
InsertReturning(r, table) ==
  /\ pc[r] = "create"
  /\ task[r].table = table
  /\ Fits(r)
  /\ Put(r)
  /\ Answer(r, 201, {New(r)}) \/ Refuse(r)

CreateUser(r)    == InsertReturning(r, "users")
CreateFolder(r)  == InsertReturning(r, "folders")
CreateMessage(r) == InsertReturning(r, "messages")

\* UniqueViolation or any other exception before the commit.
InsertThrows(r) ==
  /\ pc[r] = "create"
  /\ Refuse(r)
  /\ UNCHANGED rows

Create(r) ==
  /\ CreateUser(r) \/ CreateFolder(r) \/ CreateMessage(r) \/ InsertThrows(r)
  /\ UNCHANGED <<lastRow, rowId, overtaken>>

---------------------------------------------------------------------------
\* The results a query may have: all of it, or nothing.

FindUserByLogin(login) ==
  OrNothing({u \in rows["users"] : u.says.login = login})

\* LIKE on both names; who matches is left open.
SearchUsersByNameMask == SUBSET rows["users"]

AuthenticateUser(form) ==
  OrNothing({u \in rows["users"] :
    u.says.login = form.login /\ u.says.password = form.password})

ListFolders(u) == OrNothing({f \in rows["folders"] : f.says.owner = u})

\* Variant: the query asks for the id only.
FolderBelongsToUser_Exists(i, u) == {FALSE, With("folders", i) # {}}

FolderBelongsToUser(i, u) == {FALSE, Owned(i, u)}

ListMessagesInFolder(i) == OrNothing({m \in rows["messages"] : m.says.folder = i})

GetMessageById(i) == OrNothing(With("messages", i))

\* One query: the join of messages and folders.
MessageBelongsToUser(i, u) ==
  {FALSE, \E m \in With("messages", i) : Owned(m.says.folder, u)}
=============================================================================
