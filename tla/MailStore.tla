----------------------------- MODULE MailStore -----------------------------
(***************************************************************************)
(* What the second, third and fourth homework have in common: three        *)
(* services over one store of users, folders and messages.  The store is   *)
(* SQLite, PostgreSQL or MongoDB; SqliteStore, PostgresStore and           *)
(* MongoStore model its calls, MailServices the handlers that make them.   *)
(*                                                                         *)
(* A request is used for one HTTP call.  The calls on a database are the   *)
(* steps: each is atomic there, and other requests come between two.       *)
(*                                                                         *)
(* Bounds: Request is how many calls there are; Asked, the ids a client    *)
(* may name, stored or not.                                                *)
(***************************************************************************)
EXTENDS Integers, FiniteSets

CONSTANTS
  Request,    \* the calls
  Storage,    \* the storages to look at
  Form,       \* what a registration may say: login, email, password
  Name,       \* what a new folder may be called
  SeedForm,   \* user number -> the form of a user the store starts with
  SeedName,   \* what their folders are called
  SeedMail,   \* user number -> the message the store starts with beside them
  Asked       \* the numbers of folders and messages that clients ask for

ASSUME StoreAssumption ==
  /\ IsFiniteSet(Request) /\ IsFiniteSet(DOMAIN SeedForm)
  /\ "seed" \notin Request
  /\ SeedMail \in [DOMAIN SeedForm -> [folder : DOMAIN SeedForm, sender : DOMAIN SeedForm]]
  /\ Storage \subseteq {"sqlite", "postgres", "mongo"}
  /\ DOMAIN SeedForm = 1..Cardinality(DOMAIN SeedForm)
  /\ Asked \subseteq 1..(Cardinality(DOMAIN SeedForm) + Cardinality(Request))
  /\ \A f \in Form \cup {SeedForm[u] : u \in DOMAIN SeedForm} :
       f = [login |-> f.login, email |-> f.email, password |-> f.password]

VARIABLES
  storage,    \* which storage it is; never changes
  rows,       \* table -> its rows
  tokens,     \* the users a token was issued for
  lastRow,    \* SQLite: connection -> the row it inserted last, 0 without one
  pc,         \* request -> the call it is about to make
  task,       \* request -> what it is about
  rowId,      \* request -> the row number it knows
  answer,     \* request -> status and rows of its response
  overtaken   \* history: requests whose connection inserted again before they
              \* had read their row number

vars == <<storage, rows, tokens, lastRow, pc, task, rowId, answer, overtaken>>

Table == {"users", "folders", "messages"}
Seeds == DOMAIN SeedForm
MaxId == Cardinality(Seeds) + Cardinality(Request)

\* What a row says beside its id: a user, a folder of a user, or a message that
\* somebody put into a folder.
Folder  == [owner : 1..MaxId, name : Name \cup {SeedName}]
Message == [folder : 1..MaxId, sender : 1..MaxId]
AnyForm == Form \cup {SeedForm[u] : u \in Seeds}

\* A row remembers the request that inserted it.
Row == [id : 1..MaxId, by : Request \cup {"seed"}, says : AnyForm \cup Folder \cup Message]

Answer(r, status, found) ==
  /\ pc' = [pc EXCEPT ![r] = "done"]
  /\ answer' = [answer EXCEPT ![r] = [status |-> status, rows |-> found]]

Proceed(r, to) ==
  /\ pc' = [pc EXCEPT ![r] = to]
  /\ UNCHANGED answer

\* Ids are fresh and nothing is ever deleted, so the next number stands for them.
New(r) ==
  LET t == task[r].table
  IN [id |-> Cardinality(rows[t]) + 1, by |-> r, says |-> task[r].says]

Put(r) == rows' = [rows EXCEPT ![task[r].table] = @ \cup {New(r)}]

Says(r) == task[r].says
With(t, i) == {row \in rows[t] : row.id = i}
Owned(i, u) == \E f \in With("folders", i) : f.says.owner = u

\* The UNIQUE clauses and indexes of users and folders, the same in all three.
Unique(r) ==
  CASE task[r].table = "users" ->
         \A old \in rows["users"] :
           old.says.login # Says(r).login /\ old.says.email # Says(r).email
    [] task[r].table = "folders" -> \A old \in rows["folders"] : old.says # Says(r)
    [] OTHER -> TRUE

\* A creation came to nothing as far as its handler can tell: 409 of the user
\* and the folder service, 500 of the message service.
Refuse(r) == Answer(r, IF task[r].table = "messages" THEN 500 ELSE 409, {})

\* A query that may fail and then returns nothing.
OrNothing(found) == {{}, found}
=============================================================================
