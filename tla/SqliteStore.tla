---------------------------- MODULE SqliteStore ----------------------------
(***************************************************************************)
(* The second homework: Database over one SQLite file.  Every handler has  *)
(* a connection of its own and shares it among the threads its requests    *)
(* run on.  A creation is an INSERT, a SELECT of last_insert_rowid(),      *)
(* which belongs to the connection and not to the request, and a SELECT of *)
(* the row with that number.                                               *)
(*                                                                         *)
(* SQLite serialises the calls on a connection and the writes to the file; *)
(* a call may fail without effect, for instance when the file stays locked *)
(* for longer than the busy timeout.  The FOREIGN KEY clauses are not in   *)
(* force: nothing sets PRAGMA foreign_keys.                                *)
(***************************************************************************)
EXTENDS MailStore

\* The connection that inserts into t: that of its one creating handler.
Connection(t) == t

\* Those of r's connection that have inserted and not yet asked for their number.
Waiting(r) == {q \in Request : pc[q] = "rowId" /\ task[q].table = task[r].table}

Store(r) ==
  /\ Unique(r)
  /\ Put(r)
  /\ lastRow' = [lastRow EXCEPT ![Connection(task[r].table)] = New(r).id]
  /\ overtaken' = overtaken \cup Waiting(r)

\* Variant: the row number is asked for before the statement is executed.
Insert_RowIdFirst(r) ==
  /\ pc[r] = "create"
  /\ Store(r)
  /\ Proceed(r, "fetch")
  /\ rowId' = [rowId EXCEPT ![r] = lastRow[Connection(task[r].table)]]

Insert(r) ==
  /\ pc[r] = "create"
  /\ Store(r)
  /\ Proceed(r, "rowId")
  /\ UNCHANGED rowId

GetLastInsertId(r) ==
  /\ pc[r] = "rowId"
  /\ Proceed(r, "fetch")
  /\ rowId' = [rowId EXCEPT ![r] = lastRow[Connection(task[r].table)]]
  /\ UNCHANGED <<rows, lastRow, overtaken>>

\* FindUserById, GetFolderById or GetMessageById of the number.
Fetch(r) ==
  /\ pc[r] = "fetch"
  /\ \E row \in With(task[r].table, rowId[r]) : Answer(r, 201, {row})
  /\ UNCHANGED <<rows, lastRow, rowId, overtaken>>

\* Variant: the conflict is reported as a malformed request.
CreateFails_BadRequest(r) ==
  /\ pc[r] \in {"create", "rowId", "fetch"}
  /\ Answer(r, 400, {})
  /\ UNCHANGED <<rows, lastRow, rowId, overtaken>>

\* The insert meets a UNIQUE clause, or any of the three calls fails.  The row
\* may be stored by then; the handler does not know.
CreateFails(r) ==
  /\ pc[r] \in {"create", "rowId", "fetch"}
  /\ Refuse(r)
  /\ UNCHANGED <<rows, lastRow, rowId, overtaken>>

Create(r) == Insert(r) \/ GetLastInsertId(r) \/ Fetch(r) \/ CreateFails(r)

---------------------------------------------------------------------------
\* The results a query may have.  One for a single row gives it or nothing; one
\* for many stops at the first step that is not SQLITE_ROW, an error included,
\* and gives what it has read so far.

FindUserByLogin(login) ==
  OrNothing({u \in rows["users"] : u.says.login = login})

\* LIKE on the two names; who matches is left open.
SearchUsersByNameMask == SUBSET rows["users"]

AuthenticateUser(form) ==
  {{u \in found : u.says.password = form.password} : found \in FindUserByLogin(form.login)}

ListFolders(u) == SUBSET {f \in rows["folders"] : f.says.owner = u}

GetFolderById(i) == OrNothing(With("folders", i))

FolderBelongsToUser(i, u) ==
  {\E f \in found : f.says.owner = u : found \in GetFolderById(i)}

ListMessagesInFolder(i) == SUBSET {m \in rows["messages"] : m.says.folder = i}

GetMessageById(i) == OrNothing(With("messages", i))

\* One query: the join of messages and folders.
MessageBelongsToUser(i, u) ==
  {FALSE, \E m \in With("messages", i) : Owned(m.says.folder, u)}
=============================================================================
