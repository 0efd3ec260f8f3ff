---------------------------- MODULE MailServices ----------------------------
(***************************************************************************)
(* The handlers of the user, folder and message services in the second,    *)
(* third and fourth homework, over the storage that homework has.  Between *)
(* the three only the Database they construct and the type of an id        *)
(* differ, so the handlers are modelled once.  The services share nothing  *)
(* but the store, the secret that signs tokens, and in the second homework *)
(* the database file.                                                      *)
(*                                                                         *)
(* A token is checked without the store: it is good from the login that    *)
(* issued it until it expires, which is left open, so any may be refused.  *)
(* Requests with a malformed body or id are refused with 400 before they   *)
(* touch anything and are left out.                                        *)
(***************************************************************************)
EXTENDS MailStore

Sqlite   == INSTANCE SqliteStore
Postgres == INSTANCE PostgresStore
Mongo    == INSTANCE MongoStore

\* One of the three, by the storage of this homework.
Which(s, p, m) ==
  CASE storage = "sqlite" -> s [] storage = "postgres" -> p [] storage = "mongo" -> m

Creating == [does : {"create"}, table : Table, says : Form \cup Folder \cup Message]
Reading  == [does : {"list", "get"}, table : {"folders", "messages"}, user : 1..MaxId,
             id : 0..MaxId]
Looking  == [does : {"find", "login"}, table : {"users"}, says : AnyForm]
              \cup [does : {"search"}, table : {"users"}]
Nothing  == [does |-> "nothing", table |-> "users"]

NoAnswer == [status |-> 0, rows |-> {}]

TypeOK ==
  /\ storage \in Storage
  /\ rows \in [Table -> SUBSET Row]
  /\ tokens \subseteq 1..MaxId
  /\ lastRow \in [Table -> 0..MaxId]
  /\ pc \in [Request -> {"new", "check", "create", "email", "insert", "rowId", "fetch",
                         "list", "get", "join", "done"}]
  /\ task \in [Request -> Creating \cup Reading \cup Looking \cup {Nothing}]
  /\ rowId \in [Request -> 0..MaxId]
  /\ answer \in [Request -> [status : {0, 200, 201, 400, 401, 403, 404, 409, 500},
                             rows : SUBSET Row]]
  /\ \A r \in Request : answer[r].status = 400 => task[r] = Nothing
  /\ overtaken \subseteq Request

\* Users who registered before, each with a token and a folder, and what the seed
\* data of PostgreSQL and MongoDB put into these folders: also mail of others.
Seeded(What(_)) == {[id |-> u, by |-> "seed", says |-> What(u)] : u \in Seeds}

Init ==
  /\ storage \in Storage
  /\ LET User(u) == SeedForm[u]
         Box(u) == [owner |-> u, name |-> SeedName]
         Post(u) == SeedMail[u]
     IN rows = [t \in Table |-> CASE t = "users" -> Seeded(User)
                                  [] t = "folders" -> Seeded(Box)
                                  [] t = "messages" -> IF storage = "sqlite" THEN {}
                                                        ELSE Seeded(Post)]
  /\ tokens = Seeds
  /\ lastRow = [t \in Table |-> 0]
  /\ pc = [r \in Request |-> "new"]
  /\ task = [r \in Request |-> Nothing]
  /\ rowId = [r \in Request |-> 0]
  /\ answer = [r \in Request |-> NoAnswer]
  /\ overtaken = {}

Begin(r, what) ==
  /\ pc[r] = "new"
  /\ task' = [task EXCEPT ![r] = what]
  /\ UNCHANGED <<storage, rows, tokens, lastRow, rowId, overtaken>>

Step(r, from) ==
  /\ pc[r] = from
  /\ UNCHANGED <<storage, rows, tokens, lastRow, task, rowId, overtaken>>

---------------------------------------------------------------------------
\* JwtChecker::CheckAuth, before the handlers of folders and messages.

Authenticated(u) == u \in tokens

\* The checker's status is mapped to HTTP by the framework, and the services'
\* tests say how: 400 without the header, 401 for a token that is not good, 403
\* for one that cannot be decoded.  The documents say 401 of all three.
Unauthorised(r) ==
  /\ Begin(r, Nothing)
  /\ \E status \in {400, 401, 403} : Answer(r, status, {})

---------------------------------------------------------------------------
\* The user service.

Register(r, form) ==
  /\ Begin(r, [does |-> "create", table |-> "users", says |-> form])
  /\ Proceed(r, "create")

\* One query and its answer: 200 and the user, or 404.
FindUserByLogin(r, form) ==
  /\ Begin(r, [does |-> "find", table |-> "users", says |-> form])
  /\ \E found \in Which(Sqlite!FindUserByLogin(form.login),
                        Postgres!FindUserByLogin(form.login),
                        Mongo!FindUserByLogin(form.login)) :
       Answer(r, IF found = {} THEN 404 ELSE 200, found)

SearchUsersByName(r) ==
  /\ Begin(r, [does |-> "search", table |-> "users"])
  /\ \E found \in Which(Sqlite!SearchUsersByNameMask, Postgres!SearchUsersByNameMask,
                        Mongo!SearchUsersByNameMask) : Answer(r, 200, found)

\* The token says nothing but whose it is.
GenerateToken(found) == tokens' = tokens \cup {u.id : u \in found}

\* A token for the user that was found, or 401.
Login(r, form) ==
  /\ pc[r] = "new"
  /\ task' = [task EXCEPT ![r] = [does |-> "login", table |-> "users", says |-> form]]
  /\ \E found \in Which(Sqlite!AuthenticateUser(form), Postgres!AuthenticateUser(form),
                        Mongo!AuthenticateUser(form)) :
       /\ Answer(r, IF found = {} THEN 401 ELSE 200, found)
       /\ GenerateToken(found)
  /\ UNCHANGED <<storage, rows, lastRow, rowId, overtaken>>

---------------------------------------------------------------------------
\* The folder service.

CreateFolder(r, u, name) ==
  /\ Authenticated(u)
  /\ Begin(r, [does |-> "create", table |-> "folders", says |-> [owner |-> u, name |-> name]])
  /\ Proceed(r, "create")

ListFolders(r, u) ==
  /\ Authenticated(u)
  /\ Begin(r, [does |-> "list", table |-> "folders", user |-> u, id |-> 0])
  /\ \E found \in Which(Sqlite!ListFolders(u), Postgres!ListFolders(u),
                        Mongo!ListFolders(u)) : Answer(r, 200, found)

---------------------------------------------------------------------------
\* The message service.

CreateMessage(r, u, i) ==
  /\ Authenticated(u)
  /\ Begin(r, [does |-> "create", table |-> "messages", says |-> [folder |-> i, sender |-> u]])
  /\ Proceed(r, "check")

BeginRead(r, what) ==
  /\ Authenticated(what.user)
  /\ Begin(r, what)
  /\ Proceed(r, IF what.does = "list" THEN "check" ELSE "get")

\* Whose folder it is decides about a new message and about a list of messages;
\* 403 if it is not there, not the user's, or could not be read.
CheckFolder(r) ==
  LET i == IF task[r].does = "create" THEN Says(r).folder ELSE task[r].id
      u == IF task[r].does = "create" THEN Says(r).sender ELSE task[r].user
  IN /\ Step(r, "check")
     /\ \E mine \in Which(Sqlite!FolderBelongsToUser(i, u), Postgres!FolderBelongsToUser(i, u),
                          Mongo!FolderBelongsToUser(i, u)) :
          IF mine THEN Proceed(r, task[r].does) ELSE Answer(r, 403, {})

ListMessages(r) ==
  /\ Step(r, "list")
  /\ \E found \in Which(Sqlite!ListMessagesInFolder(task[r].id),
                        Postgres!ListMessagesInFolder(task[r].id),
                        Mongo!ListMessagesInFolder(task[r].id)) : Answer(r, 200, found)

GetMessage(r) ==
  /\ Step(r, "get")
  /\ \E found \in Which(Sqlite!GetMessageById(task[r].id), Postgres!GetMessageById(task[r].id),
                        Mongo!GetMessageById(task[r].id)) :
       IF found = {} THEN Answer(r, 404, {}) ELSE Proceed(r, "join")

\* The message that was found is shown if it is in a folder of the user's.
ShowMessage(r) ==
  /\ Step(r, "join")
  /\ \E mine \in Which(Sqlite!MessageBelongsToUser(task[r].id, task[r].user),
                       Postgres!MessageBelongsToUser(task[r].id, task[r].user),
                       Mongo!MessageBelongsToUser(task[r].id, task[r].user)) :
       IF mine THEN Answer(r, 200, With("messages", task[r].id)) ELSE Answer(r, 403, {})

---------------------------------------------------------------------------
Create(r) ==
  /\ \/ storage = "sqlite" /\ Sqlite!Create(r)
     \/ storage = "postgres" /\ Postgres!Create(r)
     \/ storage = "mongo" /\ Mongo!Create(r)
  /\ UNCHANGED <<storage, tokens, task>>

\* The service of table t stops, and connects anew.
Restart(t) ==
  LET here == {r \in Request : pc[r] \notin {"new", "done"} /\ task[r].table = t} IN
  /\ here # {} \/ lastRow[t] # 0
  /\ pc' = [r \in Request |-> IF r \in here THEN "done" ELSE pc[r]]
  /\ lastRow' = [lastRow EXCEPT ![t] = 0]
  /\ UNCHANGED <<storage, rows, tokens, task, rowId, answer, overtaken>>

\* The messages a client may ask for: those of a folder, or one.
Messages == [does : {"list", "get"}, table : {"messages"}, user : tokens, id : Asked]

Next ==
  \/ \E r \in Request :
       \/ Unauthorised(r)
       \/ \E form \in Form : Register(r, form)
       \/ \E form \in AnyForm : FindUserByLogin(r, form) \/ Login(r, form)
       \/ SearchUsersByName(r)
       \/ \E u \in tokens, name \in Name : CreateFolder(r, u, name)
       \/ \E u \in tokens : ListFolders(r, u)
       \/ \E u \in tokens, i \in Asked : CreateMessage(r, u, i)
       \/ \E what \in Messages : BeginRead(r, what)
       \/ CheckFolder(r) \/ ListMessages(r) \/ GetMessage(r) \/ ShowMessage(r)
       \/ Create(r)
  \/ \E t \in Table : Restart(t)

Spec == Init /\ [][Next]_vars

---------------------------------------------------------------------------
Created == {r \in Request : answer[r].status = 201}
Own(r) == {row \in rows[task[r].table] : row.by = r}

\* ToldOwnUnlessOvertaken.  A 201 means that the row was stored, whatever restarts
\* and fails afterwards, and answers that row.  Only an insert through the same
\* SQLite connection, between the request's own and its reading of the row number,
\* makes it answer another row, and then one that was inserted later; other
\* tables, readers, failures and restarts never do.
ToldOwnUnlessOvertaken ==
  \A r \in Created : \E own \in Own(r) : \A row \in answer[r].rows :
    \/ row = own
    \/ r \in overtaken /\ row \in rows[task[r].table] /\ own.id < row.id

\* OwnMailOnly.  Although a 201 may name somebody else's folder, nobody puts a
\* message into a folder of another, where the seed data has some, or is shown a
\* folder of another or a message in one.
OwnMailOnly ==
  /\ \A m \in rows["messages"] : m.by \in Request => Owned(m.says.folder, m.says.sender)
  /\ \A r \in Request : answer[r].status = 200 /\ task[r].does \in {"list", "get"} =>
       \A row \in answer[r].rows :
         IF task[r].table = "folders" THEN row.says.owner = task[r].user
                                      ELSE Owned(row.says.folder, task[r].user)

\* NoOrphans.  Whoever may act is a stored user, every folder has a stored owner
\* and every message a stored folder and sender, although only PostgreSQL enforces
\* foreign keys: the handlers and the tokens see to it in the other two.
NoOrphans ==
  /\ \A u \in tokens : With("users", u) # {}
  /\ \A f \in rows["folders"] : With("users", f.says.owner) # {}
  /\ \A m \in rows["messages"] :
       With("folders", m.says.folder) # {} /\ With("users", m.says.sender) # {}

\* Two users with one login or email, or two folders of one user with one name.
SameKey(x, y) ==
  LET Both(field) == field \in DOMAIN x.says \cap DOMAIN y.says IN
  \/ Both("login") /\ (x.says.login = y.says.login \/ x.says.email = y.says.email)
  \/ Both("owner") /\ x.says = y.says

\* What was stored for a request, and what it was told on success.
made == [r \in Request |-> UNION {{row \in rows[t] : row.by = r} : t \in Table}]
told == [r \in Request |-> IF answer[r].status = 201 THEN answer[r].rows ELSE {}]

Abstract == INSTANCE Creation WITH Clash <- SameKey

\* KeepsPromise.  Over PostgreSQL and MongoDB a creation keeps what module Creation
\* promises, with the statements, read-backs, races, failures and restarts in it.
KeepsPromise ==
  Abstract!Init /\ [][storage = "sqlite" \/ Abstract!Next]_<<made, told>>

\* What the tests of the user service expect of a 201: the login is the one that
\* was asked for (test_user_service.py of the second homework).
CreatedAsAsked ==
  \A r \in Created : \A row \in answer[r].rows : row.says = task[r].says
=============================================================================
