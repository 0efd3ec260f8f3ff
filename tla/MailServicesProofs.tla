------------------------- MODULE MailServicesProofs -------------------------
(* What holds of MailServices over each of its storages, for any requests, *)
(* forms, names and seeded users.                                          *)
EXTENDS MailServices, FiniteSetTheorems, TLAPS

---------------------------------------------------------------------------
\* The calls on the three storages, seen as one.

\* The answers a query may have, whichever storage is asked.
LEMMA QueryAnswers ==
  ASSUME TypeOK, NEW i, NEW u, NEW form
  PROVE  /\ \A found \in Which(Sqlite!FindUserByLogin(form.login),
                               Postgres!FindUserByLogin(form.login),
                               Mongo!FindUserByLogin(form.login)) :
              found \subseteq rows["users"]
         /\ \A found \in Which(Sqlite!SearchUsersByNameMask,
                               Postgres!SearchUsersByNameMask,
                               Mongo!SearchUsersByNameMask) : found \subseteq rows["users"]
         /\ \A found \in Which(Sqlite!AuthenticateUser(form), Postgres!AuthenticateUser(form),
                               Mongo!AuthenticateUser(form)) : found \subseteq rows["users"]
         /\ \A found \in Which(Sqlite!ListFolders(u), Postgres!ListFolders(u),
                               Mongo!ListFolders(u)) :
              found \subseteq {f \in rows["folders"] : f.says.owner = u}
         /\ \A found \in Which(Sqlite!ListMessagesInFolder(i),
                               Postgres!ListMessagesInFolder(i),
                               Mongo!ListMessagesInFolder(i)) :
              found \subseteq {m \in rows["messages"] : m.says.folder = i}
         /\ \A mine \in Which(Sqlite!FolderBelongsToUser(i, u),
                              Postgres!FolderBelongsToUser(i, u),
                              Mongo!FolderBelongsToUser(i, u)) : mine => Owned(i, u)
<1> USE DEF Which
<1>0. storage \in {"sqlite", "postgres", "mongo"}
  BY StoreAssumption DEF TypeOK
<1>1. \A found \in Which(Sqlite!FindUserByLogin(form.login),
                         Postgres!FindUserByLogin(form.login),
                         Mongo!FindUserByLogin(form.login)) :
        found \subseteq rows["users"]
  BY <1>0 DEF Sqlite!FindUserByLogin, Postgres!FindUserByLogin, Mongo!FindUserByLogin,
              Sqlite!OrNothing, Postgres!OrNothing, Mongo!OrNothing
<1>2. \A found \in Which(Sqlite!SearchUsersByNameMask, Postgres!SearchUsersByNameMask,
                         Mongo!SearchUsersByNameMask) : found \subseteq rows["users"]
  BY <1>0 DEF Sqlite!SearchUsersByNameMask, Postgres!SearchUsersByNameMask,
              Mongo!SearchUsersByNameMask
<1>3. \A found \in Which(Sqlite!AuthenticateUser(form), Postgres!AuthenticateUser(form),
                         Mongo!AuthenticateUser(form)) : found \subseteq rows["users"]
  BY <1>0 DEF Sqlite!AuthenticateUser, Postgres!AuthenticateUser, Mongo!AuthenticateUser,
              Sqlite!FindUserByLogin,
              Sqlite!OrNothing, Postgres!OrNothing, Mongo!OrNothing
<1>4. \A found \in Which(Sqlite!ListFolders(u), Postgres!ListFolders(u),
                         Mongo!ListFolders(u)) :
        found \subseteq {f \in rows["folders"] : f.says.owner = u}
  BY <1>0 DEF Sqlite!ListFolders, Postgres!ListFolders, Mongo!ListFolders,
              Postgres!OrNothing, Mongo!OrNothing
<1>5. \A found \in Which(Sqlite!ListMessagesInFolder(i), Postgres!ListMessagesInFolder(i),
                         Mongo!ListMessagesInFolder(i)) :
        found \subseteq {m \in rows["messages"] : m.says.folder = i}
  BY <1>0 DEF Sqlite!ListMessagesInFolder, Postgres!ListMessagesInFolder,
              Mongo!ListMessagesInFolder, Postgres!OrNothing, Mongo!OrNothing
<1>6. \A mine \in Which(Sqlite!FolderBelongsToUser(i, u), Postgres!FolderBelongsToUser(i, u),
                        Mongo!FolderBelongsToUser(i, u)) : mine => Owned(i, u)
  BY <1>0 DEF Sqlite!FolderBelongsToUser, Postgres!FolderBelongsToUser,
              Mongo!FolderBelongsToUser, Sqlite!GetFolderById, Mongo!GetFolderById,
              Sqlite!OrNothing, Mongo!OrNothing, Sqlite!With, Mongo!With,
              Postgres!Owned, Postgres!With, Owned, With
<1> QED BY <1>1, <1>2, <1>3, <1>4, <1>5, <1>6

\* The join of a message with its folder.
LEMMA JoinAnswers ==
  ASSUME TypeOK, NEW i, NEW u
  PROVE  \A mine \in Which(Sqlite!MessageBelongsToUser(i, u),
                           Postgres!MessageBelongsToUser(i, u),
                           Mongo!MessageBelongsToUser(i, u)) :
           mine => \E m \in With("messages", i) : Owned(m.says.folder, u)
<1>0. storage \in {"sqlite", "postgres", "mongo"}
  BY StoreAssumption DEF TypeOK
<1> QED BY <1>0 DEF Which, Sqlite!MessageBelongsToUser, Postgres!MessageBelongsToUser,
  Mongo!MessageBelongsToUser, Mongo!GetMessageById, Mongo!OrNothing, Sqlite!With, Mongo!With,
  Postgres!With, Sqlite!Owned, Postgres!Owned, Mongo!Owned, Owned, With

\* The three storages share what MailStore says of rows and of requests.
LEMMA SameStore ==
  ASSUME NEW r
  PROVE  /\ Sqlite!New(r) = New(r) /\ Postgres!New(r) = New(r) /\ Mongo!New(r) = New(r)
         /\ Sqlite!Unique(r) = Unique(r) /\ Postgres!Unique(r) = Unique(r)
         /\ Mongo!Unique(r) = Unique(r)
         /\ Sqlite!Put(r) = Put(r) /\ Postgres!Put(r) = Put(r) /\ Mongo!Put(r) = Put(r)
         /\ Sqlite!Refuse(r) = Refuse(r) /\ Postgres!Refuse(r) = Refuse(r)
         /\ Mongo!Refuse(r) = Refuse(r)
         /\ \A status, found :
              /\ Sqlite!Answer(r, status, found) = Answer(r, status, found)
              /\ Postgres!Answer(r, status, found) = Answer(r, status, found)
              /\ Mongo!Answer(r, status, found) = Answer(r, status, found)
         /\ \A to : /\ Sqlite!Proceed(r, to) = Proceed(r, to)
                    /\ Mongo!Proceed(r, to) = Proceed(r, to)
         /\ \A t, n : Sqlite!With(t, n) = With(t, n) /\ Mongo!With(t, n) = With(t, n)
<1>1. Sqlite!New(r) = New(r) /\ Postgres!New(r) = New(r) /\ Mongo!New(r) = New(r)
  BY DEF Sqlite!New, Postgres!New, Mongo!New, New, Sqlite!Cardinality, Postgres!Cardinality,
         Mongo!Cardinality, Cardinality
<1>2. /\ Sqlite!Unique(r) = Unique(r) /\ Postgres!Unique(r) = Unique(r)
      /\ Mongo!Unique(r) = Unique(r)
  BY DEF Sqlite!Unique, Postgres!Unique, Mongo!Unique, Unique,
         Sqlite!Says, Postgres!Says, Mongo!Says, Says
<1>3. Sqlite!Put(r) = Put(r) /\ Postgres!Put(r) = Put(r) /\ Mongo!Put(r) = Put(r)
  BY <1>1 DEF Sqlite!Put, Postgres!Put, Mongo!Put, Put
<1> QED BY <1>1, <1>2, <1>3 DEF Sqlite!Refuse, Postgres!Refuse, Mongo!Refuse, Refuse,
  Sqlite!Answer, Postgres!Answer, Mongo!Answer, Answer, Sqlite!Proceed, Mongo!Proceed,
  Proceed, Sqlite!With, Mongo!With, With

\* A creation comes to nothing, ...
Refused(r) ==
  /\ pc[r] \in {"create", "email", "insert", "rowId", "fetch"}
  /\ Refuse(r)
  /\ UNCHANGED <<rows, lastRow, rowId, overtaken>>

\* ... is looked into further, ...
Looked(r) ==
  /\ pc[r] \in {"create", "email"}
  /\ \E to \in {"email", "insert"} : Proceed(r, to)
  /\ UNCHANGED <<rows, lastRow, rowId, overtaken>>

\* ... has its row stored, in one of three ways, ...
StoredRow(r) ==
  /\ pc[r] \in {"create", "insert"}
  /\ Unique(r)
  /\ Put(r)
  /\ \/ /\ storage = "sqlite"
        /\ Proceed(r, "rowId")
        /\ lastRow' = [lastRow EXCEPT ![task[r].table] = New(r).id]
        /\ overtaken' = overtaken \cup
             {q \in Request : pc[q] = "rowId" /\ task[q].table = task[r].table}
        /\ rowId' = rowId
     \/ /\ storage # "sqlite"
        /\ \/ Answer(r, 201, {New(r)}) \/ Refuse(r)
           \/ Proceed(r, "fetch") /\ rowId' = [rowId EXCEPT ![r] = New(r).id]
        /\ rowId' = rowId \/ rowId' = [rowId EXCEPT ![r] = New(r).id]
        /\ UNCHANGED <<lastRow, overtaken>>

\* ... has its number taken from the connection, ...
Renumbered(r) ==
  /\ storage = "sqlite"
  /\ pc[r] = "rowId"
  /\ Proceed(r, "fetch")
  /\ rowId' = [rowId EXCEPT ![r] = lastRow[task[r].table]]
  /\ UNCHANGED <<rows, lastRow, overtaken>>

\* ... or is answered with the row of its number.
Fetched(r) ==
  /\ pc[r] = "fetch"
  /\ \E row \in With(task[r].table, rowId[r]) : Answer(r, 201, {row})
  /\ UNCHANGED <<rows, lastRow, rowId, overtaken>>

LEMMA CreateSteps ==
  ASSUME TypeOK, NEW r \in Request, Create(r)
  PROVE  /\ Refused(r) \/ Looked(r) \/ StoredRow(r) \/ Renumbered(r) \/ Fetched(r)
         /\ UNCHANGED <<storage, tokens, task>>
<1> SUFFICES Refused(r) \/ Looked(r) \/ StoredRow(r) \/ Renumbered(r) \/ Fetched(r)
  BY DEF Create
<1>1. CASE storage = "sqlite" /\ Sqlite!Create(r)
  <2>1. CASE Sqlite!Insert(r)
    BY <1>1, <2>1, SameStore DEF Sqlite!Insert, Sqlite!Store, Sqlite!Connection,
      Sqlite!Waiting, StoredRow
  <2>2. CASE Sqlite!GetLastInsertId(r)
    BY <1>1, <2>2, SameStore DEF Sqlite!GetLastInsertId, Sqlite!Connection, Renumbered
  <2>3. CASE Sqlite!Fetch(r)
    BY <2>3, SameStore DEF Sqlite!Fetch, Fetched
  <2>4. CASE Sqlite!CreateFails(r)
    BY <2>4, SameStore DEF Sqlite!CreateFails, Refused
  <2> QED BY <1>1, <2>1, <2>2, <2>3, <2>4 DEF Sqlite!Create
<1>2. CASE storage = "postgres" /\ Postgres!Create(r)
  <2>1. UNCHANGED <<lastRow, rowId, overtaken>>
    BY <1>2 DEF Postgres!Create
  <2>2. ASSUME NEW t \in Table, Postgres!InsertReturning(r, t) PROVE StoredRow(r)
    BY <1>2, <2>1, <2>2, SameStore DEF Postgres!InsertReturning, Postgres!Fits, StoredRow
  <2>3. CASE Postgres!InsertThrows(r)
    BY <2>1, <2>3, SameStore DEF Postgres!InsertThrows, Refused
  <2> QED BY <1>2, <2>2, <2>3 DEF Postgres!Create, Postgres!CreateUser,
    Postgres!CreateFolder, Postgres!CreateMessage, Table
<1>3. CASE storage = "mongo" /\ Mongo!Create(r)
  <2>0. UNCHANGED <<lastRow, overtaken>>
    BY <1>3 DEF Mongo!Create
  <2>1. CASE Mongo!CheckLogin(r) \/ Mongo!CheckEmail(r) \/ Mongo!FindSender(r)
    <3>1. CASE Mongo!CheckLogin(r)
      BY <2>0, <3>1, SameStore DEF Mongo!CheckLogin, Looked
    <3>2. CASE Mongo!CheckEmail(r)
      BY <2>0, <3>2, SameStore DEF Mongo!CheckEmail, Looked
    <3>3. CASE Mongo!FindSender(r)
      BY <2>0, <3>3, SameStore DEF Mongo!FindSender, Looked
    <3> QED BY <2>1, <3>1, <3>2, <3>3
  <2>2. CASE Mongo!InsertUser(r)
    <3>1. /\ pc[r] = "insert" /\ Unique(r) /\ Put(r)
          /\ rowId' = [rowId EXCEPT ![r] = New(r).id]
          /\ Answer(r, 201, {New(r)}) \/ Refuse(r)
      <4>1. /\ pc[r] = "insert" /\ Mongo!Unique(r) /\ Mongo!Put(r)
            /\ rowId' = [rowId EXCEPT ![r] = Mongo!New(r).id]
            /\ Mongo!Answer(r, 201, {Mongo!New(r)}) \/ Mongo!Refuse(r)
        BY <2>2 DEF Mongo!InsertUser, Mongo!Insert
      <4>2. Mongo!Answer(r, 201, {Mongo!New(r)}) = Answer(r, 201, {New(r)})
        BY SameStore DEF Mongo!Answer, Answer
      <4> QED BY <4>1, <4>2, SameStore
    <3> QED BY <1>3, <2>0, <3>1 DEF StoredRow
  <2>3. CASE Mongo!InsertFolder(r) \/ Mongo!InsertMessage(r)
    <3>1. /\ pc[r] \in {"create", "insert"} /\ Unique(r) /\ Put(r)
          /\ rowId' = [rowId EXCEPT ![r] = New(r).id]
          /\ Proceed(r, "fetch") \/ Refuse(r)
      BY <2>3, SameStore DEF Mongo!InsertFolder, Mongo!InsertMessage, Mongo!Insert
    <3> QED BY <1>3, <2>0, <3>1 DEF StoredRow
  <2>4. CASE Mongo!Fetch(r)
    BY <2>0, <2>4, SameStore DEF Mongo!Fetch, Fetched
  <2>5. CASE Mongo!CreateFails(r)
    BY <2>0, <2>5, SameStore DEF Mongo!CreateFails, Refused
  <2> QED BY <1>3, <2>1, <2>2, <2>3, <2>4, <2>5 DEF Mongo!Create
<1> QED BY <1>1, <1>2, <1>3 DEF Create

---------------------------------------------------------------------------
\* Types, the numbers of rows, and where rows come from.

\* What a row of each table says.
Content(t) == CASE t = "users" -> AnyForm [] t = "folders" -> Folder [] t = "messages" -> Message

\* What the place of a request says about its task and its answer.
Placed(r) ==
  /\ pc[r] \in {"create", "email", "insert", "rowId", "fetch"} => task[r] \in Creating
  /\ pc[r] = "check" => task[r] \in Creating \cup Reading /\ task[r].table = "messages"
  /\ pc[r] \in {"list", "get", "join"} => task[r] \in Reading /\ task[r].table = "messages"
  /\ task[r] \in Creating => task[r].says \in Content(task[r].table)
  /\ answer[r].status # 0 => pc[r] = "done"
  /\ answer[r].status = 201 => task[r] \in Creating
  /\ answer[r].status = 400 => task[r] = Nothing

\* The requests with a row in t.
Inserted(t) == {r \in Request : \E row \in rows[t] : row.by = r}

\* Rows are numbered from 1 on, and there are no more than seeds and inserts.
Numbered(t) ==
  /\ IsFiniteSet(rows[t])
  /\ \A x, y \in rows[t] : x.id = y.id => x = y
  /\ \A x \in rows[t] : x.id <= Cardinality(rows[t])
  /\ Cardinality(rows[t]) <= Cardinality(Seeds) + Cardinality(Inserted(t))

\* A row is what its request asked for, and the only one it asked for.
Sent(t, row) ==
  /\ row.says \in Content(t)
  /\ row.by \in Request =>
       /\ pc[row.by] \in {"rowId", "fetch", "done"}
       /\ task[row.by] \in Creating
       /\ task[row.by].table = t /\ task[row.by].says = row.says
       /\ \A x \in rows[t] : x.by = row.by => x = row

IInv ==
  /\ TypeOK
  /\ \A r \in Request : Placed(r)
  /\ \A t \in Table : Numbered(t)
  /\ \A t \in Table : \A row \in rows[t] : Sent(t, row)

---------------------------------------------------------------------------
\* Requests that change no row.

Place  == {"new", "check", "create", "email", "insert", "rowId", "fetch", "list", "get",
           "join", "done"}
Task   == Creating \cup Reading \cup Looking \cup {Nothing}
Reply  == [status : {0, 200, 201, 400, 401, 403, 404, 409, 500}, rows : SUBSET Row]

LEMMA TypeFacts ==
  ASSUME TypeOK
  PROVE  /\ storage \in {"sqlite", "postgres", "mongo"}
         /\ pc \in [Request -> Place] /\ task \in [Request -> Task]
         /\ answer \in [Request -> Reply] /\ rows \in [Table -> SUBSET Row]
BY StoreAssumption DEF TypeOK, Place, Task, Reply

LEMMA Counts == Cardinality(Seeds) \in Nat /\ Cardinality(Request) \in Nat /\ MaxId \in Nat
BY StoreAssumption, FS_CardinalityType DEF MaxId, Seeds

\* Nobody but r moves.
Alone(r) == \A q \in Request \ {r} :
  pc'[q] = pc[q] /\ task'[q] = task[q] /\ answer'[q] = answer[q]

LEMMA AnswerFacts ==
  ASSUME TypeOK, NEW r \in Request, NEW status, NEW found, Answer(r, status, found),
         [status |-> status, rows |-> found] \in Reply
  PROVE  /\ pc' \in [Request -> Place] /\ answer' \in [Request -> Reply]
         /\ pc'[r] = "done" /\ answer'[r] = [status |-> status, rows |-> found]
         /\ \A q \in Request \ {r} : pc'[q] = pc[q] /\ answer'[q] = answer[q]
BY TypeFacts DEF Answer, Place

LEMMA ProceedFacts ==
  ASSUME TypeOK, NEW r \in Request, NEW to \in Place, Proceed(r, to)
  PROVE  /\ pc' \in [Request -> Place] /\ answer' = answer /\ pc'[r] = to
         /\ \A q \in Request \ {r} : pc'[q] = pc[q]
BY TypeFacts DEF Proceed

LEMMA RefuseFacts ==
  ASSUME TypeOK, NEW r \in Request, Refuse(r)
  PROVE  /\ pc' \in [Request -> Place] /\ answer' \in [Request -> Reply]
         /\ pc'[r] = "done" /\ answer'[r].status \in {409, 500} /\ answer'[r].rows = {}
         /\ \A q \in Request \ {r} : pc'[q] = pc[q] /\ answer'[q] = answer[q]
<1> DEFINE s == IF task[r].table = "messages" THEN 500 ELSE 409
<1>1. Answer(r, s, {}) /\ s \in {409, 500}
  BY DEF Refuse
<1>2. [status |-> s, rows |-> {}] \in Reply
  BY <1>1 DEF Reply
<1> HIDE DEF s
<1>3. /\ pc' \in [Request -> Place] /\ answer' \in [Request -> Reply]
      /\ pc'[r] = "done" /\ answer'[r] = [status |-> s, rows |-> {}]
      /\ \A q \in Request \ {r} : pc'[q] = pc[q] /\ answer'[q] = answer[q]
  BY <1>1, <1>2, AnswerFacts
<1> QED BY <1>1, <1>3

\* What is left to check of a step that changes no row.
LEMMA QuietStep ==
  ASSUME IInv, NEW r \in Request, Alone(r), Placed(r)',
         storage' = storage, rows' = rows, tokens' \subseteq 1..MaxId,
         lastRow' \in [Table -> 0..MaxId], rowId' \in [Request -> 0..MaxId],
         overtaken' \subseteq Request,
         pc' \in [Request -> Place], task' \in [Request -> Task],
         answer' \in [Request -> Reply],
         pc[r] # "done",
         pc[r] \in {"rowId", "fetch"} => pc'[r] \in {"fetch", "done"} /\ task'[r] = task[r]
  PROVE  IInv'
<1>2. ASSUME NEW q \in Request \ {r} PROVE Placed(q)'
  <2>1. pc'[q] = pc[q] /\ task'[q] = task[q] /\ answer'[q] = answer[q] /\ Placed(q)
    BY DEF IInv, Alone
  <2> QED BY <2>1 DEF Placed
<1>1. TypeOK'
  <2>1. \A q \in Request : answer'[q].status = 400 => task'[q] = Nothing
    BY <1>2 DEF Placed
  <2> QED BY <2>1 DEF IInv, TypeOK, Place, Task, Reply
<1>3. \A t \in Table : Numbered(t)'
  BY DEF IInv, Numbered, Inserted
<1>4. \A t \in Table : \A row \in rows'[t] : Sent(t, row)'
  <2> SUFFICES ASSUME NEW t \in Table, NEW row \in rows[t] PROVE Sent(t, row)'
    OBVIOUS
  <2>1. Sent(t, row)
    BY DEF IInv
  <2>2. CASE row.by = r
    BY <2>1, <2>2 DEF Sent, Content
  <2>3. CASE row.by # r
    BY <2>1, <2>3 DEF Sent, Content, Alone
  <2> QED BY <2>2, <2>3
<1> QED BY <1>1, <1>2, <1>3, <1>4 DEF IInv

\* A request that begins has nothing stored or answered yet.
LEMMA BeginFacts ==
  ASSUME IInv, NEW r \in Request, NEW what \in Task, Begin(r, what)
  PROVE  /\ pc[r] = "new" /\ task'[r] = what /\ task' \in [Request -> Task]
         /\ \A q \in Request \ {r} : task'[q] = task[q]
         /\ storage' = storage /\ rows' = rows /\ tokens' \subseteq 1..MaxId
         /\ lastRow' \in [Table -> 0..MaxId] /\ rowId' \in [Request -> 0..MaxId]
         /\ overtaken' \subseteq Request /\ answer[r].status = 0
<1>1. pc[r] = "new" /\ answer[r].status = 0
  BY DEF Begin, IInv, Placed
<1> QED BY <1>1, TypeFacts DEF Begin, IInv, TypeOK

\* Whoever asks ...
LEMMA AskedAndAnswered ==
  ASSUME IInv, NEW r \in Request, NEW what \in Task, what \notin Creating, NEW status, NEW found,
         Begin(r, what), Answer(r, status, found),
         status \in {200, 400, 401, 403, 404}, status = 400 => what = Nothing,
         found \subseteq Row
  PROVE  IInv'
<1>1. TypeOK /\ [status |-> status, rows |-> found] \in Reply
  BY DEF IInv, Reply
<1>2. pc'[r] = "done" /\ answer'[r].status = status /\ task'[r] = what
  BY <1>1, AnswerFacts, BeginFacts
<1>3. Placed(r)'
  BY <1>2 DEF Placed
<1>4. Alone(r)
  BY <1>1, AnswerFacts, BeginFacts DEF Alone
<1> QED BY <1>1, <1>3, <1>4, AnswerFacts, BeginFacts, QuietStep

LEMMA AskedAndGoesOn ==
  ASSUME IInv, NEW r \in Request, NEW what \in Task, NEW to \in Place,
         Begin(r, what), Proceed(r, to),
         what \in Creating => what.says \in Content(what.table),
         \/ to = "create" /\ what \in Creating
         \/ to = "check" /\ what \in Creating \cup Reading /\ what.table = "messages"
         \/ to = "get" /\ what \in Reading /\ what.table = "messages"
  PROVE  IInv'
<1>1. TypeOK
  BY DEF IInv
<1>2. pc'[r] = to /\ answer' = answer /\ task'[r] = what /\ answer[r].status = 0
  BY <1>1, ProceedFacts, BeginFacts
<1>3. Placed(r)'
  BY <1>2 DEF Placed
<1>4. Alone(r)
  BY <1>1, ProceedFacts, BeginFacts DEF Alone
<1>5. answer' \in [Request -> Reply]
  BY <1>1, <1>2, TypeFacts
<1> QED BY <1>1, <1>3, <1>4, <1>5, ProceedFacts, BeginFacts, QuietStep

LEMMA AskedIds == Asked \subseteq 1..MaxId
BY StoreAssumption DEF MaxId, Seeds

LEMMA FolderReadings ==
  ASSUME TypeOK, NEW u \in tokens
  PROVE  [does |-> "list", table |-> "folders", user |-> u, id |-> 0] \in Reading
<1>1. u \in 1..MaxId
  BY DEF TypeOK
<1> QED BY <1>1, Counts DEF Reading

LEMMA MessageReadings ==
  ASSUME TypeOK, NEW what \in Messages
  PROVE  what \in Reading /\ what.table = "messages" /\ what.does \in {"list", "get"}
<1>1. tokens \subseteq 1..MaxId
  BY DEF TypeOK
<1>2. what.user \in tokens /\ what.id \in Asked
  BY DEF Messages
<1>3. \A i \in 1..MaxId : i \in 0..MaxId
  BY Counts
<1>4. what.user \in 1..MaxId /\ what.id \in 0..MaxId
  BY <1>1, <1>2, <1>3, AskedIds
<1> QED BY <1>4 DEF Messages, Reading

LEMMA Kinds ==
  /\ \A x \in Creating : x.does = "create" /\ x.table \in Table /\ x \notin Reading
  /\ \A x \in Reading : x.does \in {"list", "get"} /\ x.table \in {"folders", "messages"}
                        /\ x.user \in 1..MaxId /\ x.id \in 0..MaxId /\ x \notin Creating
  /\ \A x \in Looking : x.does \in {"find", "search", "login"} /\ x \notin Creating \cup Reading
  /\ Nothing.does = "nothing" /\ Nothing \notin Creating \cup Reading
BY DEF Creating, Reading, Looking, Nothing

\* The requests that are answered at once, and those that go on.
LEMMA Asking ==
  ASSUME IInv, NEW r \in Request,
         \/ Unauthorised(r)
         \/ \E form \in Form : Register(r, form)
         \/ \E form \in AnyForm : FindUserByLogin(r, form)
         \/ SearchUsersByName(r)
         \/ \E u \in tokens, name \in Name : CreateFolder(r, u, name)
         \/ \E u \in tokens : ListFolders(r, u)
         \/ \E u \in tokens, i \in Asked : CreateMessage(r, u, i)
         \/ \E what \in Messages : BeginRead(r, what)
  PROVE  IInv'
<1>0. TypeOK /\ rows \in [Table -> SUBSET Row]
  BY DEF IInv, TypeOK
<1>1. CASE Unauthorised(r)
  <2>1. PICK status \in {400, 401, 403} : Answer(r, status, {})
    BY <1>1 DEF Unauthorised
  <2>2. Nothing \in Task /\ Nothing \notin Creating /\ Begin(r, Nothing)
    BY <1>1, Kinds DEF Unauthorised, Task
  <2> QED BY <2>1, <2>2, AskedAndAnswered
<1>2. ASSUME NEW form \in Form, Register(r, form) PROVE IInv'
  <2> DEFINE what == [does |-> "create", table |-> "users", says |-> form]
  <2>1. what \in Creating /\ what \in Task /\ what.says \in Content(what.table)
    BY DEF Creating, Task, Content, AnyForm, Table
  <2>2. Begin(r, what) /\ Proceed(r, "create")
    BY <1>2 DEF Register
  <2> HIDE DEF what
  <2>3. "create" \in Place
    BY DEF Place
  <2> QED BY <2>1, <2>2, <2>3, AskedAndGoesOn
<1>3. ASSUME NEW form \in AnyForm, FindUserByLogin(r, form) PROVE IInv'
  <2> DEFINE what == [does |-> "find", table |-> "users", says |-> form]
  <2>1. what \in Task /\ what \notin Creating
    BY DEF Task, Looking, Creating
  <2>2. PICK found \in SUBSET rows["users"] : Answer(r, IF found = {} THEN 404 ELSE 200, found)
    BY <1>0, <1>3, QueryAnswers DEF FindUserByLogin
  <2>3. found \subseteq Row /\ Begin(r, what)
    BY <1>0, <1>3 DEF FindUserByLogin, Table
  <2> HIDE DEF what
  <2>4. PICK status \in {200, 404} : Answer(r, status, found)
    BY <2>2
  <2> QED BY <2>1, <2>3, <2>4, AskedAndAnswered
<1>4. CASE SearchUsersByName(r)
  <2> DEFINE what == [does |-> "search", table |-> "users"]
  <2>1. what \in Task /\ what \notin Creating
    BY DEF Task, Looking, Creating
  <2>2. PICK found \in SUBSET rows["users"] : Answer(r, 200, found)
    BY <1>0, <1>4, QueryAnswers DEF SearchUsersByName
  <2>3. found \subseteq Row /\ Begin(r, what)
    BY <1>0, <1>4 DEF SearchUsersByName, Table
  <2> HIDE DEF what
  <2> QED BY <2>1, <2>2, <2>3, AskedAndAnswered
<1>5. ASSUME NEW u \in tokens, NEW name \in Name, CreateFolder(r, u, name) PROVE IInv'
  <2> DEFINE what == [does |-> "create", table |-> "folders",
                      says |-> [owner |-> u, name |-> name]]
  <2>0. u \in 1..MaxId
    BY <1>0 DEF TypeOK
  <2>1. what \in Creating /\ what \in Task /\ what.says \in Content(what.table)
    BY <2>0 DEF Creating, Task, Content, Folder, Table
  <2>2. Begin(r, what) /\ Proceed(r, "create") /\ "create" \in Place
    BY <1>5 DEF CreateFolder, Place
  <2> HIDE DEF what
  <2> QED BY <2>1, <2>2, AskedAndGoesOn
<1>6. ASSUME NEW u \in tokens, ListFolders(r, u) PROVE IInv'
  <2> DEFINE what == [does |-> "list", table |-> "folders", user |-> u, id |-> 0]
  <2>1. what \in Task /\ what \notin Creating
    BY <1>0, FolderReadings, Kinds DEF Task
  <2>2. PICK found \in SUBSET rows["folders"] : Answer(r, 200, found)
    BY <1>0, <1>6, QueryAnswers DEF ListFolders
  <2>3. found \subseteq Row /\ Begin(r, what)
    BY <1>0, <1>6 DEF ListFolders, Table
  <2> HIDE DEF what
  <2> QED BY <2>1, <2>2, <2>3, AskedAndAnswered
<1>7. ASSUME NEW u \in tokens, NEW i \in Asked, CreateMessage(r, u, i) PROVE IInv'
  <2> DEFINE what == [does |-> "create", table |-> "messages",
                      says |-> [folder |-> i, sender |-> u]]
  <2>0. u \in 1..MaxId /\ i \in 1..MaxId
    BY <1>0, AskedIds DEF TypeOK
  <2>1. what \in Creating /\ what \in Task /\ what.says \in Content(what.table)
        /\ what.table = "messages"
    BY <2>0 DEF Creating, Task, Content, Message, Table
  <2>2. Begin(r, what) /\ Proceed(r, "check") /\ "check" \in Place
    BY <1>7 DEF CreateMessage, Place
  <2> HIDE DEF what
  <2> QED BY <2>1, <2>2, AskedAndGoesOn
<1>8. ASSUME NEW what \in Messages, BeginRead(r, what) PROVE IInv'
  <2>1. what.user \in tokens /\ what \in Reading /\ what.table = "messages"
    BY <1>0, <1>8, MessageReadings DEF BeginRead, Authenticated
  <2>2. Begin(r, what) /\ what \in Task /\ what \notin Creating
    BY <1>8, <2>1, Kinds DEF BeginRead, Task
  <2>3. PICK to \in {"check", "get"} : Proceed(r, to)
    BY <1>8 DEF BeginRead
  <2>4. to \in Place
    BY DEF Place
  <2> QED BY <2>1, <2>2, <2>3, <2>4, AskedAndGoesOn
<1> QED BY <1>1, <1>2, <1>3, <1>4, <1>5, <1>6, <1>7, <1>8

\* The row that is seen was stored, so a token names a number that was given out.
LEMMA LoggingIn ==
  ASSUME IInv, NEW r \in Request, NEW form \in AnyForm, Login(r, form)
  PROVE  IInv'
<1>0. TypeOK /\ rows \in [Table -> SUBSET Row]
  BY DEF IInv, TypeOK
<1>1. PICK found \in SUBSET rows["users"] :
        Answer(r, IF found = {} THEN 401 ELSE 200, found) /\ GenerateToken(found)
  BY <1>0, QueryAnswers DEF Login
<1>2. PICK status \in {200, 401} : Answer(r, status, found)
  BY <1>1
<1>3. found \subseteq Row /\ [status |-> status, rows |-> found] \in Reply
  BY <1>0 DEF Table, Reply
<1>4. tokens' \subseteq 1..MaxId
  <2>1. \A u \in found : u.id \in 1..MaxId
    BY <1>3 DEF Row
  <2>2. tokens \subseteq 1..MaxId
    BY <1>0 DEF TypeOK
  <2>3. tokens' = tokens \cup {u.id : u \in found}
    BY <1>1 DEF GenerateToken
  <2> SUFFICES ASSUME NEW w \in tokens' PROVE w \in 1..MaxId
    OBVIOUS
  <2>4. CASE w \in tokens
    BY <2>2, <2>4
  <2>5. CASE w \in {u.id : u \in found}
    <3>1. PICK u \in found : w = u.id
      BY <2>5
    <3> QED BY <2>1, <3>1, Counts
  <2> QED BY <2>3, <2>4, <2>5
<1> DEFINE what == [does |-> "login", table |-> "users", says |-> form]
<1>5. what \in Task /\ what \notin Creating
  BY DEF Task, Looking, Creating
<1>6. /\ pc[r] = "new" /\ task' = [task EXCEPT ![r] = what]
      /\ UNCHANGED <<storage, rows, lastRow, rowId, overtaken>>
  BY DEF Login
<1> HIDE DEF what
<1>7. /\ pc' \in [Request -> Place] /\ answer' \in [Request -> Reply]
      /\ pc'[r] = "done" /\ answer'[r].status = status
      /\ \A q \in Request \ {r} : pc'[q] = pc[q] /\ answer'[q] = answer[q]
  BY <1>0, <1>2, <1>3, AnswerFacts
<1>8. task' \in [Request -> Task] /\ task'[r] = what
      /\ \A q \in Request \ {r} : task'[q] = task[q]
  BY <1>0, <1>5, <1>6, TypeFacts
<1>9. Placed(r)'
  BY <1>5, <1>7, <1>8 DEF Placed
<1> QED BY <1>0, <1>4, <1>6, <1>7, <1>8, <1>9, QuietStep DEF Alone, TypeOK

\* A request that was begun is answered, or goes on.
LEMMA AnsweredLater ==
  ASSUME IInv, NEW r \in Request, NEW status, NEW found,
         pc[r] # "done", Answer(r, status, found), task' = task,
         UNCHANGED <<storage, rows, tokens, lastRow, rowId, overtaken>>,
         status \in {200, 201, 403, 404, 409, 500}, found \subseteq Row,
         status = 201 => task[r] \in Creating
  PROVE  IInv'
<1>1. TypeOK /\ Placed(r) /\ [status |-> status, rows |-> found] \in Reply
  BY DEF IInv, Reply
<1>2. /\ pc' \in [Request -> Place] /\ answer' \in [Request -> Reply]
      /\ pc'[r] = "done" /\ answer'[r].status = status
      /\ \A q \in Request \ {r} : pc'[q] = pc[q] /\ answer'[q] = answer[q]
  BY <1>1, AnswerFacts
<1>3. Placed(r)'
  BY <1>1, <1>2 DEF Placed
<1> QED BY <1>1, <1>2, <1>3, TypeFacts, QuietStep DEF Alone, TypeOK

LEMMA GoesOnLater ==
  ASSUME IInv, NEW r \in Request, NEW to \in Place,
         pc[r] # "done", Proceed(r, to), task' = task,
         UNCHANGED <<storage, rows, tokens, lastRow, overtaken>>,
         rowId' \in [Request -> 0..MaxId],
         pc[r] \in {"rowId", "fetch"} => to = "fetch",
         \/ to \in {"create", "email", "insert", "rowId", "fetch"} /\ task[r] \in Creating
         \/ to \in {"list", "get", "join"} /\ task[r] \in Reading /\ task[r].table = "messages"
  PROVE  IInv'
<1>1. TypeOK /\ Placed(r)
  BY DEF IInv
<1>2. /\ pc' \in [Request -> Place] /\ answer' = answer /\ pc'[r] = to
      /\ \A q \in Request \ {r} : pc'[q] = pc[q]
  BY <1>1, ProceedFacts
<1>3. Placed(r)'
  BY <1>1, <1>2 DEF Placed
<1> QED BY <1>1, <1>2, <1>3, TypeFacts, QuietStep DEF Alone, TypeOK

LEMMA ReadingOn ==
  ASSUME IInv, NEW r \in Request,
         CheckFolder(r) \/ ListMessages(r) \/ GetMessage(r) \/ ShowMessage(r)
  PROVE  IInv'
<1>0. TypeOK /\ Placed(r) /\ rows \in [Table -> SUBSET Row] /\ rowId \in [Request -> 0..MaxId]
  BY DEF IInv, TypeOK
<1>1. CASE CheckFolder(r)
  <2>1. /\ pc[r] = "check" /\ task' = task
        /\ UNCHANGED <<storage, rows, tokens, lastRow, rowId, overtaken>>
        /\ Proceed(r, task[r].does) \/ Answer(r, 403, {})
    BY <1>1 DEF CheckFolder, Step
  <2>2. task[r] \in Creating \cup Reading /\ task[r].table = "messages"
    BY <1>0, <2>1 DEF Placed
  <2>3. /\ task[r].does \in Place
        /\ \/ task[r].does = "create" /\ task[r] \in Creating
           \/ task[r].does \in {"list", "get"} /\ task[r] \in Reading
    BY <2>2, Kinds DEF Place
  <2>4. CASE Proceed(r, task[r].does)
    BY <1>0, <2>1, <2>2, <2>3, <2>4, GoesOnLater
  <2>5. CASE Answer(r, 403, {})
    BY <2>1, <2>5, AnsweredLater
  <2> QED BY <2>1, <2>4, <2>5
<1>2. CASE ListMessages(r)
  <2>1. PICK found \in SUBSET rows["messages"] : Answer(r, 200, found)
    BY <1>0, <1>2, QueryAnswers DEF ListMessages
  <2>2. found \subseteq Row
    BY <1>0 DEF Table
  <2> QED BY <1>2, <2>1, <2>2, AnsweredLater DEF ListMessages, Step
<1>3. CASE GetMessage(r)
  <2>1. /\ pc[r] = "get" /\ task' = task
        /\ UNCHANGED <<storage, rows, tokens, lastRow, rowId, overtaken>>
        /\ Proceed(r, "join") \/ Answer(r, 404, {})
    BY <1>3 DEF GetMessage, Step
  <2>2. task[r] \in Reading /\ task[r].table = "messages" /\ "join" \in Place
    BY <1>0, <2>1 DEF Placed, Place
  <2>3. CASE Proceed(r, "join")
    BY <1>0, <2>1, <2>2, <2>3, GoesOnLater
  <2>4. CASE Answer(r, 404, {})
    BY <2>1, <2>4, AnsweredLater
  <2> QED BY <2>1, <2>3, <2>4
<1>4. CASE ShowMessage(r)
  <2>1. /\ pc[r] = "join" /\ task' = task
        /\ UNCHANGED <<storage, rows, tokens, lastRow, rowId, overtaken>>
        /\ Answer(r, 200, With("messages", task[r].id)) \/ Answer(r, 403, {})
    BY <1>4 DEF ShowMessage, Step
  <2>2. With("messages", task[r].id) \subseteq Row
    BY <1>0 DEF With, Table
  <2> QED BY <2>1, <2>2, AnsweredLater
<1> QED BY <1>1, <1>2, <1>3, <1>4

---------------------------------------------------------------------------
\* The steps of a creation.

LEMMA QuietCreations ==
  ASSUME IInv, NEW r \in Request, Refused(r) \/ Looked(r) \/ Renumbered(r) \/ Fetched(r),
         UNCHANGED <<storage, tokens, task>>
  PROVE  IInv'
<1>0. /\ TypeOK /\ rows \in [Table -> SUBSET Row] /\ rowId \in [Request -> 0..MaxId]
      /\ lastRow \in [Table -> 0..MaxId]
  BY DEF IInv, TypeOK
<1>1. pc[r] \in {"create", "email", "insert", "rowId", "fetch"} /\ task[r] \in Creating
  BY DEF Refused, Looked, Renumbered, Fetched, IInv, Placed
<1>2. task[r].table \in Table
  BY <1>1, Kinds
<1>3. CASE Refused(r)
  <2>1. PICK status \in {409, 500} : Answer(r, status, {})
    BY <1>3 DEF Refused, Refuse
  <2> QED BY <1>1, <1>3, <2>1, AnsweredLater DEF Refused
<1>4. CASE Looked(r)
  <2>1. PICK to \in {"email", "insert"} : Proceed(r, to)
    BY <1>4 DEF Looked
  <2>2. to \in Place
    BY DEF Place
  <2> QED BY <1>0, <1>1, <1>4, <2>1, <2>2, GoesOnLater DEF Looked
<1>5. CASE Renumbered(r)
  <2>1. rowId' \in [Request -> 0..MaxId] /\ "fetch" \in Place
    BY <1>0, <1>2, <1>5 DEF Renumbered, Place
  <2> QED BY <1>1, <1>5, <2>1, GoesOnLater DEF Renumbered
<1>6. CASE Fetched(r)
  <2>1. PICK row \in With(task[r].table, rowId[r]) : Answer(r, 201, {row})
    BY <1>6 DEF Fetched
  <2>2. {row} \subseteq Row
    BY <1>0, <1>2 DEF With
  <2> QED BY <1>1, <1>6, <2>1, <2>2, AnsweredLater DEF Fetched
<1> QED BY <1>3, <1>4, <1>5, <1>6

\* The table that r writes to, and the number that it gives.
Into(r) == task[r].table

LEMMA Fresh ==
  ASSUME IInv, NEW r \in Request, pc[r] \in {"create", "insert"}
  PROVE  /\ task[r] \in Creating /\ Into(r) \in Table /\ Says(r) \in Content(Into(r))
         /\ \A t \in Table : \A x \in rows[t] : x.by # r
         /\ Own(r) = {}
         /\ IsFiniteSet(rows[Into(r)]) /\ Cardinality(rows[Into(r)]) \in Nat
         /\ New(r) \in Row /\ New(r).by = r /\ New(r).says = Says(r)
         /\ New(r).id = Cardinality(rows[Into(r)]) + 1
         /\ \A x \in rows[Into(r)] : x.id < New(r).id
<1>1. task[r] \in Creating /\ Into(r) \in Table /\ Says(r) \in Content(Into(r))
  BY Kinds DEF IInv, Placed, Into, Says
<1>2. \A t \in Table : \A x \in rows[t] : x.by # r
  BY DEF IInv, Sent
<1>3. Own(r) = {}
  BY <1>1, <1>2 DEF Own, Into
<1>4. /\ IsFiniteSet(rows[Into(r)]) /\ Cardinality(rows[Into(r)]) \in Nat
      /\ \A x \in rows[Into(r)] : x.id <= Cardinality(rows[Into(r)])
      /\ Cardinality(rows[Into(r)]) <= Cardinality(Seeds) + Cardinality(Inserted(Into(r)))
  BY <1>1, FS_CardinalityType DEF IInv, Numbered
<1>5. /\ New(r).by = r /\ New(r).says = Says(r)
      /\ New(r).id = Cardinality(rows[Into(r)]) + 1
      /\ New(r) = [id |-> New(r).id, by |-> r, says |-> Says(r)]
  BY DEF New, Into, Says
<1>6. Cardinality(Inserted(Into(r))) + 1 <= Cardinality(Request)
        /\ Cardinality(Inserted(Into(r))) \in Nat
  <2>1. Inserted(Into(r)) \subseteq Request \ {r}
    BY <1>1, <1>2 DEF Inserted
  <2>2. IsFiniteSet(Request \ {r}) /\ Cardinality(Request \ {r}) = Cardinality(Request) - 1
    BY StoreAssumption, FS_RemoveElement
  <2>3. Cardinality(Inserted(Into(r))) <= Cardinality(Request \ {r})
        /\ IsFiniteSet(Inserted(Into(r)))
    BY <2>1, <2>2, FS_Subset
  <2> QED BY <2>2, <2>3, Counts, FS_CardinalityType
<1>7. New(r).id \in 1..MaxId
  BY <1>4, <1>5, <1>6, Counts DEF MaxId
<1>8. Says(r) \in AnyForm \cup Folder \cup Message
  BY <1>1 DEF Content, Table
<1>9. New(r) \in Row
  BY <1>5, <1>7, <1>8 DEF Row
<1>10. ASSUME NEW x \in rows[Into(r)] PROVE x.id < New(r).id
  <2>1. rows[Into(r)] \subseteq Row
    BY <1>1 DEF IInv, TypeOK
  <2>2. x.id \in Int
    BY <2>1, Counts DEF Row
  <2> QED BY <1>4, <1>5, <2>2
<1> QED BY <1>1, <1>2, <1>3, <1>4, <1>5, <1>9, <1>10

\* What storing a row does to the state.
LEMMA Storing ==
  ASSUME IInv, NEW r \in Request, StoredRow(r), UNCHANGED <<storage, tokens, task>>
  PROVE  /\ rows' \in [Table -> SUBSET Row]
         /\ rows'[Into(r)] = rows[Into(r)] \cup {New(r)}
         /\ \A t \in Table \ {Into(r)} : rows'[t] = rows[t]
         /\ pc[r] \in {"create", "insert"}
         /\ pc'[r] \in {"rowId", "fetch", "done"}
         /\ pc' \in [Request -> Place] /\ answer' \in [Request -> Reply]
         /\ rowId' \in [Request -> 0..MaxId] /\ lastRow' \in [Table -> 0..MaxId]
         /\ overtaken' \subseteq Request /\ Alone(r)
         /\ answer'[r].status # 0 => pc'[r] = "done"
         /\ answer'[r].status # 400
<1>0. /\ TypeOK /\ rows \in [Table -> SUBSET Row] /\ overtaken \subseteq Request
      /\ rowId \in [Request -> 0..MaxId] /\ lastRow \in [Table -> 0..MaxId]
      /\ answer[r].status = 0
  BY DEF IInv, TypeOK, StoredRow, Placed
<1>1. /\ pc[r] \in {"create", "insert"} /\ Into(r) \in Table /\ New(r) \in Row
      /\ New(r).id \in 0..MaxId
  <2>1. pc[r] \in {"create", "insert"}
    BY DEF StoredRow
  <2>2. Into(r) \in Table /\ New(r) \in Row
    BY <2>1, Fresh
  <2>3. New(r).id \in 1..MaxId
    BY <2>2 DEF Row
  <2> QED BY <2>1, <2>2, <2>3, Counts
<1>2. rows' = [rows EXCEPT ![Into(r)] = @ \cup {New(r)}]
  BY DEF StoredRow, Put, Into
<1>3. /\ rows' \in [Table -> SUBSET Row] /\ rows'[Into(r)] = rows[Into(r)] \cup {New(r)}
      /\ \A t \in Table \ {Into(r)} : rows'[t] = rows[t]
  BY <1>0, <1>1, <1>2
<1>4. /\ rowId' \in [Request -> 0..MaxId] /\ lastRow' \in [Table -> 0..MaxId]
      /\ overtaken' \subseteq Request
  <2>1. /\ rowId' = rowId \/ rowId' = [rowId EXCEPT ![r] = New(r).id]
        /\ lastRow' = lastRow \/ lastRow' = [lastRow EXCEPT ![Into(r)] = New(r).id]
        /\ overtaken' \subseteq overtaken \cup Request
    BY DEF StoredRow, Into
  <2> QED BY <1>0, <1>1, <2>1
<1>5. /\ pc'[r] \in {"rowId", "fetch", "done"}
      /\ pc' \in [Request -> Place] /\ answer' \in [Request -> Reply]
      /\ answer'[r].status # 0 => pc'[r] = "done"
      /\ answer'[r].status # 400
      /\ \A q \in Request \ {r} : pc'[q] = pc[q] /\ answer'[q] = answer[q]
  <2>1. \/ \E to \in {"rowId", "fetch"} : Proceed(r, to)
        \/ Refuse(r) \/ Answer(r, 201, {New(r)})
    BY DEF StoredRow
  <2>2. CASE \E to \in {"rowId", "fetch"} : Proceed(r, to)
    <3>1. PICK to \in {"rowId", "fetch"} : Proceed(r, to)
      BY <2>2
    <3>2. to \in Place
      BY DEF Place
    <3> QED BY <1>0, <3>1, <3>2, ProceedFacts, TypeFacts
  <2>3. CASE Refuse(r)
    BY <1>0, <2>3, RefuseFacts
  <2>4. CASE Answer(r, 201, {New(r)})
    <3>1. [status |-> 201, rows |-> {New(r)}] \in Reply
      BY <1>1 DEF Reply
    <3>2. /\ pc' \in [Request -> Place] /\ answer' \in [Request -> Reply]
          /\ pc'[r] = "done" /\ answer'[r] = [status |-> 201, rows |-> {New(r)}]
          /\ \A q \in Request \ {r} : pc'[q] = pc[q] /\ answer'[q] = answer[q]
      BY <1>0, <2>4, <3>1, AnswerFacts
    <3>3. answer'[r].status = 201
      BY ONLY <3>2
    <3> QED BY ONLY <3>2, <3>3
  <2> QED BY <2>1, <2>2, <2>3, <2>4
<1>6. Alone(r)
  BY <1>5 DEF Alone
<1> QED BY <1>1, <1>3, <1>4, <1>5, <1>6

\* The number of the new row is still free, because a request inserts at most once.
LEMMA StoringKeeps ==
  ASSUME IInv, NEW r \in Request, StoredRow(r), UNCHANGED <<storage, tokens, task>>
  PROVE  IInv'
<1> USE Storing, Fresh
<1>1. TypeOK'
  <2>1. storage' = storage /\ tokens' = tokens /\ task' = task /\ TypeOK
    BY DEF IInv
  <2>2. \A q \in Request : answer'[q].status = 400 => task'[q] = Nothing
    BY <2>1 DEF Alone, TypeOK
  <2> QED BY <2>1, <2>2 DEF TypeOK, Place, Reply
<1>2. ASSUME NEW q \in Request PROVE Placed(q)'
  <2>1. Placed(q) /\ task' = task
    BY DEF IInv
  <2>2. CASE q = r
    BY <2>1, <2>2 DEF Placed
  <2>3. CASE q # r
    <3>1. pc'[q] = pc[q] /\ task'[q] = task[q] /\ answer'[q] = answer[q]
      BY <2>3 DEF Alone
    <3> QED BY <2>1, <3>1 DEF Placed
  <2> QED BY <2>2, <2>3
<1>3. ASSUME NEW t \in Table PROVE Numbered(t)'
  <2>1. CASE t # Into(r)
    <3>1. rows'[t] = rows[t] /\ Numbered(t)
      BY <2>1 DEF IInv
    <3> QED BY <3>1 DEF Numbered, Inserted
  <2>2. CASE t = Into(r)
    <3> DEFINE old == rows[t]
    <3>0. /\ IsFiniteSet(old) /\ Cardinality(old) \in Nat
          /\ \A x, y \in old : x.id = y.id => x = y
          /\ \A x \in old : x.id <= Cardinality(old)
          /\ Cardinality(old) <= Cardinality(Seeds) + Cardinality(Inserted(t))
      BY FS_CardinalityType DEF IInv, Numbered
    <3>1. /\ rows'[t] = old \cup {New(r)} /\ New(r) \notin old
          /\ \A x \in old : x.id < New(r).id
          /\ New(r).id = Cardinality(old) + 1
      BY <2>2
    <3>2. \A x \in old : x.id \in Int
      <4>1. old \subseteq Row
        BY DEF IInv, TypeOK
      <4> QED BY <4>1, Counts DEF Row
    <3>3. IsFiniteSet(rows'[t]) /\ Cardinality(rows'[t]) = Cardinality(old) + 1
      <4>1. /\ IsFiniteSet(old \cup {New(r)})
            /\ Cardinality(old \cup {New(r)})
                 = IF New(r) \in old THEN Cardinality(old) ELSE Cardinality(old) + 1
        BY ONLY <3>0, FS_AddElement
      <4> QED BY ONLY <3>1, <4>1
    <3>4. Cardinality(Inserted(t)') = Cardinality(Inserted(t)) + 1
      <4>1. Inserted(t)' = Inserted(t) \cup {r}
        BY <3>1 DEF Inserted
      <4>2. r \notin Inserted(t)
        BY DEF Inserted
      <4>3. IsFiniteSet(Inserted(t))
        BY StoreAssumption, FS_Subset DEF Inserted
      <4>4. Cardinality(Inserted(t) \cup {r})
              = IF r \in Inserted(t) THEN Cardinality(Inserted(t))
                                     ELSE Cardinality(Inserted(t)) + 1
        BY ONLY <4>3, FS_AddElement
      <4> QED BY ONLY <4>1, <4>2, <4>4
    <3>5. Cardinality(Inserted(t)) \in Nat
      <4>1. IsFiniteSet(Inserted(t))
        BY StoreAssumption, FS_Subset DEF Inserted
      <4> QED BY <4>1, FS_CardinalityType
    <3>6. Cardinality(rows'[t]) <= Cardinality(Seeds) + Cardinality(Inserted(t)')
      BY <3>0, <3>3, <3>4, <3>5, Counts
    <3>7. \A x \in rows'[t] : x.id <= Cardinality(rows'[t])
      BY <3>0, <3>1, <3>2, <3>3
    <3>8. \A x, y \in rows'[t] : x.id = y.id => x = y
      BY <3>0, <3>1, <3>2
    <3> QED BY <3>3, <3>6, <3>7, <3>8 DEF Numbered
  <2> QED BY <2>1, <2>2
<1>4. ASSUME NEW t \in Table, NEW row \in rows'[t] PROVE Sent(t, row)'
  <2>0. task' = task /\ \A q \in Request \ {r} : pc'[q] = pc[q]
    BY DEF Alone
  <2>1. CASE t = Into(r) /\ row = New(r)
    <3>1. \A x \in rows'[t] : x.by = r => x = row
      BY <2>1
    <3> QED BY <2>0, <2>1, <3>1 DEF Sent, Into, Says
  <2>2. CASE ~(t = Into(r) /\ row = New(r))
    <3>1. row \in rows[t] /\ row.by # r
      BY <2>2
    <3>2. Sent(t, row)
      BY <3>1 DEF IInv
    <3>3. \A x \in rows'[t] : x \in rows[t] \/ x.by = r
      OBVIOUS
    <3> QED BY <2>0, <3>1, <3>2, <3>3 DEF Sent
  <2> QED BY <2>1, <2>2
<1> QED BY <1>1, <1>2, <1>3, <1>4 DEF IInv

LEMMA RestartKeeps ==
  ASSUME IInv, NEW t \in Table, Restart(t)
  PROVE  IInv'
<1> DEFINE here == {r \in Request : pc[r] \notin {"new", "done"} /\ task[r].table = t}
<1>1. /\ pc' = [r \in Request |-> IF r \in here THEN "done" ELSE pc[r]]
      /\ lastRow' = [lastRow EXCEPT ![t] = 0]
      /\ UNCHANGED <<storage, rows, tokens, task, rowId, answer, overtaken>>
  BY DEF Restart
<1> HIDE DEF here
<1>2. \A r \in Request : pc'[r] = "done" \/ pc'[r] = pc[r]
  BY <1>1
<1>3. TypeOK'
  <2>1. lastRow' \in [Table -> 0..MaxId]
    BY <1>1, Counts DEF IInv, TypeOK
  <2>2. pc' \in [Request -> Place]
    BY <1>1, TypeFacts DEF IInv, Place
  <2> QED BY <1>1, <2>1, <2>2 DEF IInv, TypeOK, Place
<1>4. ASSUME NEW r \in Request PROVE Placed(r)'
  <2>1. Placed(r) /\ task' = task /\ answer' = answer
    BY <1>1 DEF IInv
  <2> QED BY <1>2, <2>1 DEF Placed
<1>5. \A s \in Table : Numbered(s)'
  BY <1>1 DEF IInv, Numbered, Inserted
<1>6. ASSUME NEW s \in Table, NEW row \in rows'[s] PROVE Sent(s, row)'
  <2>1. Sent(s, row) /\ rows' = rows /\ task' = task
    BY <1>1 DEF IInv
  <2> QED BY <1>2, <2>1 DEF Sent
<1> QED BY <1>3, <1>4, <1>5, <1>6 DEF IInv

LEMMA Seeding ==
  ASSUME NEW F, NEW S, S = {[id |-> u, by |-> "seed", says |-> F[u]] : u \in Seeds}
  PROVE  /\ IsFiniteSet(S) /\ Cardinality(S) = Cardinality(Seeds)
         /\ \A x \in S : x.id \in Seeds /\ x.by = "seed" /\ x.says = F[x.id]
                         /\ x = [id |-> x.id, by |-> "seed", says |-> x.says]
<1> DEFINE row == [u \in Seeds |-> [id |-> u, by |-> "seed", says |-> F[u]]]
<1>1. row \in Bijection(Seeds, S)
  BY DEF Bijection, Injection, Surjection, IsInjective
<1>2. IsFiniteSet(Seeds)
  BY StoreAssumption DEF Seeds
<1>3. IsFiniteSet(S) /\ Cardinality(S) = Cardinality(Seeds)
  BY <1>1, <1>2, FS_Bijection DEF ExistsBijection
<1> QED BY <1>3

LEMMA InitIInv == Init => IInv
<1> SUFFICES ASSUME Init PROVE IInv
  OBVIOUS
<1> DEFINE form == [u \in Seeds |-> SeedForm[u]]
           box  == [u \in Seeds |-> [owner |-> u, name |-> SeedName]]
           post == [u \in Seeds |-> SeedMail[u]]
<1>0. /\ rows = [t \in Table |-> rows[t]]
      /\ rows["users"] = {[id |-> u, by |-> "seed", says |-> SeedForm[u]] : u \in Seeds}
      /\ rows["folders"] = {[id |-> u, by |-> "seed",
                             says |-> [owner |-> u, name |-> SeedName]] : u \in Seeds}
      /\ \/ rows["messages"] = {}
         \/ rows["messages"] = {[id |-> u, by |-> "seed", says |-> SeedMail[u]] : u \in Seeds}
  BY DEF Init, Seeded, Table
<1>1. /\ rows["users"] = {[id |-> u, by |-> "seed", says |-> form[u]] : u \in Seeds}
      /\ rows["folders"] = {[id |-> u, by |-> "seed", says |-> box[u]] : u \in Seeds}
      /\ \/ rows["messages"] = {}
         \/ rows["messages"] = {[id |-> u, by |-> "seed", says |-> post[u]] : u \in Seeds}
  BY <1>0
<1>2. Seeds = 1..Cardinality(Seeds) /\ Seeds \subseteq 1..MaxId
  BY StoreAssumption, Counts DEF Seeds, MaxId
<1> HIDE DEF form, box, post
<1>3. ASSUME NEW t \in Table, NEW F,
             rows[t] = {[id |-> u, by |-> "seed", says |-> F[u]] : u \in Seeds},
             \A u \in Seeds : F[u] \in Content(t)
      PROVE  rows[t] \subseteq Row /\ Numbered(t) /\ \A row \in rows[t] : Sent(t, row)
  <2>1. /\ IsFiniteSet(rows[t]) /\ Cardinality(rows[t]) = Cardinality(Seeds)
        /\ \A x \in rows[t] : x.id \in Seeds /\ x.by = "seed" /\ x.says = F[x.id]
                              /\ x = [id |-> x.id, by |-> "seed", says |-> x.says]
    BY <1>3, Seeding
  <2>2. Inserted(t) = {}
    BY <2>1, StoreAssumption DEF Inserted
  <2>3. Numbered(t)
    BY <1>2, <2>1, <2>2, Counts, FS_EmptySet DEF Numbered
  <2>4. Content(t) \subseteq AnyForm \cup Folder \cup Message
    BY DEF Content, Table
  <2>5. rows[t] \subseteq Row
    BY <1>2, <1>3, <2>1, <2>4 DEF Row
  <2>6. \A row \in rows[t] : Sent(t, row)
    BY <1>3, <2>1, StoreAssumption DEF Sent
  <2> QED BY <2>3, <2>5, <2>6
<1>4. rows["users"] \subseteq Row /\ Numbered("users")
        /\ \A row \in rows["users"] : Sent("users", row)
  <2>1. \A u \in Seeds : form[u] \in Content("users")
    BY DEF form, Content, AnyForm
  <2> QED BY <1>1, <1>3, <2>1 DEF Table
<1>5. rows["folders"] \subseteq Row /\ Numbered("folders")
        /\ \A row \in rows["folders"] : Sent("folders", row)
  <2>1. \A u \in Seeds : box[u] \in Content("folders")
    BY <1>2 DEF box, Content, Folder
  <2> QED BY <1>1, <1>3, <2>1 DEF Table
<1>6. rows["messages"] \subseteq Row /\ Numbered("messages")
        /\ \A row \in rows["messages"] : Sent("messages", row)
  <2>1. CASE rows["messages"] = {}
    <3>1. Inserted("messages") = {}
      BY <2>1 DEF Inserted
    <3>2. Cardinality({}) = 0 /\ IsFiniteSet({})
      BY FS_EmptySet
    <3>3. /\ Cardinality(rows["messages"]) = 0 /\ IsFiniteSet(rows["messages"])
          /\ Cardinality(Inserted("messages")) = 0
      BY ONLY <2>1, <3>1, <3>2
    <3>4. Cardinality(rows["messages"])
            <= Cardinality(Seeds) + Cardinality(Inserted("messages"))
      BY <3>3, Counts
    <3>5. Numbered("messages")
      BY <2>1, <3>3, <3>4 DEF Numbered
    <3> QED BY <2>1, <3>5
  <2>2. CASE rows["messages"] = {[id |-> u, by |-> "seed", says |-> post[u]] : u \in Seeds}
    <3>1. \A u \in Seeds : SeedMail[u] \in [folder : Seeds, sender : Seeds]
      BY StoreAssumption DEF Seeds
    <3>2. \A u \in Seeds : post[u] \in Content("messages")
      BY <1>2, <3>1 DEF post, Content, Message
    <3> QED BY <1>3, <2>2, <3>2 DEF Table
  <2> QED BY <1>1, <2>1, <2>2
<1>7. TypeOK
  <2>1. rows \in [Table -> SUBSET Row]
    BY <1>0, <1>4, <1>5, <1>6 DEF Table
  <2>2. NoAnswer \in Reply
    BY DEF NoAnswer, Reply
  <2>3. tokens \subseteq 1..MaxId /\ storage \in Storage /\ overtaken \subseteq Request
    BY <1>2 DEF Init
  <2>4. lastRow \in [Table -> 0..MaxId] /\ rowId \in [Request -> 0..MaxId]
    <3>1. lastRow = [t \in Table |-> 0] /\ rowId = [r \in Request |-> 0]
      BY DEF Init
    <3>2. 0 \in 0..MaxId
      BY Counts
    <3> QED BY ONLY <3>1, <3>2
  <2>5. pc \in [Request -> Place] /\ task \in [Request -> Task] /\ answer \in [Request -> Reply]
    <3>1. pc \in [Request -> Place]
      BY DEF Init, Place
    <3>2. task \in [Request -> Task]
      BY DEF Init, Task
    <3>3. answer \in [Request -> Reply]
      BY <2>2 DEF Init
    <3> QED BY <3>1, <3>2, <3>3
  <2>6. \A r \in Request : answer[r].status = 400 => task[r] = Nothing
    BY DEF Init
  <2> QED BY <2>1, <2>3, <2>4, <2>5, <2>6 DEF TypeOK, Place, Task, Reply
<1>8. ASSUME NEW r \in Request PROVE Placed(r)
  <2>1. pc[r] = "new" /\ task[r] = Nothing /\ answer[r].status = 0
    BY DEF Init, NoAnswer
  <2> QED BY <2>1, Kinds DEF Placed
<1> QED BY <1>4, <1>5, <1>6, <1>7, <1>8 DEF IInv, Table

LEMMA NextIInv == IInv /\ [Next]_vars => IInv'
<1> SUFFICES ASSUME IInv, [Next]_vars PROVE IInv'
  OBVIOUS
<1>1. CASE UNCHANGED vars
  <2>1. TypeOK'
    BY <1>1 DEF vars, IInv, TypeOK
  <2>2. \A r \in Request : Placed(r)'
    BY <1>1 DEF vars, IInv, Placed
  <2>3. \A t \in Table : Numbered(t)'
    BY <1>1 DEF vars, IInv, Numbered, Inserted
  <2>4. \A t \in Table : \A row \in rows'[t] : Sent(t, row)'
    BY <1>1 DEF vars, IInv, Sent
  <2> QED BY <2>1, <2>2, <2>3, <2>4 DEF IInv
<1>2. ASSUME NEW r \in Request, Create(r) PROVE IInv'
  BY <1>2, CreateSteps, QuietCreations, StoringKeeps DEF IInv
<1>3. ASSUME NEW t \in Table, Restart(t) PROVE IInv'
  BY <1>3, RestartKeeps
<1> QED BY <1>1, <1>2, <1>3, Asking, LoggingIn, ReadingOn DEF Next

\* Type correctness: whatever the storages answer and whenever the services
\* restart, requests stay on their way and no number passes MaxId, because every
\* request inserts at most one row.
THEOREM TypeCorrect == Spec => []TypeOK
<1>1. Spec => []IInv
  BY InitIInv, NextIInv, PTL DEF Spec
<1>2. IInv => TypeOK
  BY DEF IInv
<1> QED BY <1>1, <1>2, PTL

---------------------------------------------------------------------------
\* What every step has in common.

\* The steps of one request.
Moves(r) ==
  \/ Unauthorised(r)
  \/ \E form \in Form : Register(r, form)
  \/ \E form \in AnyForm : FindUserByLogin(r, form) \/ Login(r, form)
  \/ SearchUsersByName(r)
  \/ \E u \in tokens, name \in Name : CreateFolder(r, u, name)
  \/ \E u \in tokens : ListFolders(r, u)
  \/ \E u \in tokens, i \in Asked : CreateMessage(r, u, i)
  \/ \E what \in Messages : BeginRead(r, what)
  \/ CheckFolder(r) \/ ListMessages(r) \/ GetMessage(r) \/ ShowMessage(r)
  \/ Create(r)

LEMMA NextMoves == Next => (\E r \in Request : Moves(r)) \/ \E t \in Table : Restart(t)
BY DEF Next, Moves

\* A request moves alone, and takes no row away.
LEMMA Moving ==
  ASSUME IInv, NEW r \in Request, Moves(r)
  PROVE  /\ Alone(r) /\ storage' = storage
         /\ \A t \in Table : rows[t] \subseteq rows'[t]
<1>0. TypeOK
  BY DEF IInv
<1>1. ASSUME NEW status, NEW found, Answer(r, status, found), NEW what,
             task' = task \/ task' = [task EXCEPT ![r] = what]
      PROVE  Alone(r)
  BY <1>0, <1>1, TypeFacts DEF Answer, Alone
<1>2. ASSUME NEW to, Proceed(r, to), NEW what,
             task' = task \/ task' = [task EXCEPT ![r] = what]
      PROVE  Alone(r)
  BY <1>0, <1>2, TypeFacts DEF Proceed, Alone
<1>3. CASE Unauthorised(r)
  BY <1>1, <1>3 DEF Unauthorised, Begin
<1>4. ASSUME NEW form \in Form, Register(r, form)
      PROVE  Alone(r) /\ storage' = storage /\ rows' = rows
  BY <1>2, <1>4 DEF Register, Begin
<1>5. ASSUME NEW form \in AnyForm, FindUserByLogin(r, form)
      PROVE  Alone(r) /\ storage' = storage /\ rows' = rows
  BY <1>1, <1>5 DEF FindUserByLogin, Begin
<1>6. ASSUME NEW form \in AnyForm, Login(r, form)
      PROVE  Alone(r) /\ storage' = storage /\ rows' = rows
  BY <1>1, <1>6 DEF Login
<1>7. CASE SearchUsersByName(r)
  BY <1>1, <1>7 DEF SearchUsersByName, Begin
<1>8. ASSUME NEW u \in tokens, NEW name \in Name, CreateFolder(r, u, name)
      PROVE  Alone(r) /\ storage' = storage /\ rows' = rows
  BY <1>2, <1>8 DEF CreateFolder, Begin
<1>9. ASSUME NEW u \in tokens, ListFolders(r, u)
      PROVE  Alone(r) /\ storage' = storage /\ rows' = rows
  BY <1>1, <1>9 DEF ListFolders, Begin
<1>10. ASSUME NEW u \in tokens, NEW i \in Asked, CreateMessage(r, u, i)
       PROVE  Alone(r) /\ storage' = storage /\ rows' = rows
  BY <1>2, <1>10 DEF CreateMessage, Begin
<1>11. ASSUME NEW what \in Messages, BeginRead(r, what)
       PROVE  Alone(r) /\ storage' = storage /\ rows' = rows
  BY <1>2, <1>11 DEF BeginRead, Begin
<1>12. CASE CheckFolder(r)
  BY <1>1, <1>2, <1>12 DEF CheckFolder, Step
<1>13. CASE ListMessages(r)
  BY <1>1, <1>13 DEF ListMessages, Step
<1>14. CASE GetMessage(r)
  BY <1>1, <1>2, <1>14 DEF GetMessage, Step
<1>15. CASE ShowMessage(r)
  BY <1>1, <1>15 DEF ShowMessage, Step
<1>16. CASE Create(r)
  <2>1. UNCHANGED <<storage, tokens, task>>
    BY <1>0, <1>16, CreateSteps
  <2>2. CASE StoredRow(r)
    <3>1. Alone(r) /\ pc[r] \in {"create", "insert"}
      BY <2>1, <2>2, Storing
    <3>2. /\ rows'[Into(r)] = rows[Into(r)] \cup {New(r)}
          /\ \A t \in Table \ {Into(r)} : rows'[t] = rows[t]
      BY <2>1, <2>2, Storing
    <3> QED BY <2>1, <3>1, <3>2
  <2>3. CASE Refused(r) \/ Looked(r) \/ Renumbered(r) \/ Fetched(r)
    <3>1. Alone(r)
      BY <1>1, <1>2, <2>1, <2>3 DEF Refused, Refuse, Looked, Renumbered, Fetched
    <3> QED BY <2>1, <2>3, <3>1 DEF Refused, Looked, Renumbered, Fetched
  <2> QED BY <1>0, <1>16, <2>2, <2>3, CreateSteps
<1> QED BY <1>3, <1>4, <1>5, <1>6, <1>7, <1>8, <1>9, <1>10, <1>11, <1>12, <1>13, <1>14,
           <1>15, <1>16 DEF Moves, Unauthorised, SearchUsersByName, Begin, CheckFolder,
           ListMessages, GetMessage, ShowMessage, Step

---------------------------------------------------------------------------
\* Who may do what.

\* A creation names a stored user, and has its folder checked before it is made.
Allowed(r) ==
  /\ task[r] \in Creating /\ task[r].table = "folders" => With("users", Says(r).owner) # {}
  /\ task[r] \in Creating /\ task[r].table = "messages" =>
       /\ With("users", Says(r).sender) # {}
       /\ pc[r] \in {"create", "email", "insert"} => Owned(Says(r).folder, Says(r).sender)
  /\ pc[r] = "list" => Owned(task[r].id, task[r].user)
  /\ answer[r].status = 200 /\ task[r] \in Reading =>
       \A row \in answer[r].rows :
         IF task[r].table = "folders" THEN row.says.owner = task[r].user
                                      ELSE Owned(row.says.folder, task[r].user)

AccessInv ==
  /\ IInv
  /\ NoOrphans
  /\ \A m \in rows["messages"] : m.by \in Request => Owned(m.says.folder, m.says.sender)
  /\ \A r \in Request : Allowed(r)

\* Whatever was there stays.
Grows == \A t \in Table : rows[t] \subseteq rows'[t]

LEMMA Stable ==
  ASSUME Grows
  PROVE  /\ \A t \in Table : \A i : With(t, i) # {} => With(t, i)' # {}
         /\ \A i, u : Owned(i, u) => Owned(i, u)'
<1>1. ASSUME NEW t \in Table, NEW i PROVE With(t, i) \subseteq With(t, i)'
  BY DEF Grows, With
<1>2. ASSUME NEW i, NEW u, Owned(i, u) PROVE Owned(i, u)'
  <2>1. With("folders", i) \subseteq With("folders", i)'
    BY <1>1 DEF Table
  <2> QED BY <1>2, <2>1 DEF Owned
<1> QED BY <1>1, <1>2

LEMMA AllowedKept ==
  ASSUME Grows, NEW q, Allowed(q), task'[q] = task[q], answer'[q] = answer[q],
         pc'[q] \in {pc[q], "done"}
  PROVE  Allowed(q)'
<1>1. Says(q)' = Says(q)
  BY DEF Says
<1>2. task[q] \in Creating /\ task[q].table = "folders" => With("users", Says(q).owner)' # {}
  BY Stable DEF Allowed, Table, With, Owned, Says
<1>3. task[q] \in Creating /\ task[q].table = "messages" =>
        /\ With("users", Says(q).sender)' # {}
        /\ pc'[q] \in {"create", "email", "insert"} => Owned(Says(q).folder, Says(q).sender)'
  BY Stable DEF Allowed, Table, With, Owned, Says
<1>4. pc'[q] = "list" => Owned(task[q].id, task[q].user)'
  BY Stable DEF Allowed
<1>5. answer[q].status = 200 /\ task[q] \in Reading =>
        \A row \in answer[q].rows :
          IF task[q].table = "folders" THEN row.says.owner = task[q].user
                                       ELSE Owned(row.says.folder, task[q].user)'
  BY Stable DEF Allowed
<1> QED BY <1>1, <1>2, <1>3, <1>4, <1>5 DEF Allowed

\* What the request itself is allowed, when it was just begun, ...
LEMMA BegunAllowed ==
  ASSUME NEW r \in Request, rows' = rows,
         task'[r] \in Creating =>
           /\ task'[r].table = "folders" => With("users", task'[r].says.owner) # {}
           /\ task'[r].table = "messages" =>
                With("users", task'[r].says.sender) # {} /\ pc'[r] = "check",
         pc'[r] # "list",
         answer'[r].status = 200 /\ task'[r] \in Reading =>
           /\ task'[r].table = "folders"
           /\ \A row \in answer'[r].rows : row.says.owner = task'[r].user
  PROVE  Allowed(r)'
<1>1. Says(r)' = task'[r].says
  BY DEF Says
<1>2. \A i : With("users", i)' = With("users", i)
  BY DEF With
<1> QED BY <1>1, <1>2 DEF Allowed

LEMMA AskingAllowed ==
  ASSUME AccessInv, NEW r \in Request,
         \/ Unauthorised(r)
         \/ \E form \in Form : Register(r, form)
         \/ \E form \in AnyForm : FindUserByLogin(r, form) \/ Login(r, form)
         \/ SearchUsersByName(r)
         \/ \E u \in tokens, name \in Name : CreateFolder(r, u, name)
         \/ \E u \in tokens : ListFolders(r, u)
         \/ \E u \in tokens, i \in Asked : CreateMessage(r, u, i)
         \/ \E what \in Messages : BeginRead(r, what)
  PROVE  Allowed(r)'
<1>0. TypeOK /\ answer[r].status \in {0, 200, 201, 400, 401, 403, 404, 409, 500}
      /\ (pc[r] = "new" => answer[r].status = 0)
  BY TypeFacts DEF AccessInv, IInv, Reply, Placed
<1>1. \A status, found : Answer(r, status, found) =>
        pc'[r] = "done" /\ answer'[r] = [status |-> status, rows |-> found]
  BY <1>0, TypeFacts DEF Answer
<1>2. \A to : Proceed(r, to) => pc'[r] = to /\ answer' = answer
  BY <1>0, TypeFacts DEF Proceed
<1>3. \A what : Begin(r, what) => pc[r] = "new" /\ task'[r] = what /\ rows' = rows
  BY <1>0, TypeFacts DEF Begin
<1>4. \A u \in tokens : With("users", u) # {}
  BY DEF AccessInv, NoOrphans
<1>5. CASE Unauthorised(r)
  <2>1. PICK status \in {400, 401, 403} : Answer(r, status, {})
    BY <1>5 DEF Unauthorised
  <2>2. pc'[r] = "done"
    BY <1>0, <2>1, TypeFacts DEF Answer
  <2>3. Begin(r, Nothing)
    BY <1>5 DEF Unauthorised
  <2> QED BY <1>3, <2>2, <2>3, BegunAllowed, Kinds
<1>6. ASSUME NEW form \in Form, Register(r, form) PROVE Allowed(r)'
  <2> DEFINE what == [does |-> "create", table |-> "users", says |-> form]
  <2>1. Begin(r, what) /\ pc'[r] = "create" /\ answer' = answer
    BY <1>2, <1>6 DEF Register
  <2>2. pc[r] = "new" /\ task'[r] = what /\ rows' = rows
    BY <1>3, <2>1
  <2>3. what.table = "users" /\ answer'[r].status = 0
    BY <1>0, <2>1, <2>2
  <2> HIDE DEF what
  <2> QED BY <2>1, <2>2, <2>3, BegunAllowed
<1>7. ASSUME NEW form \in AnyForm, FindUserByLogin(r, form) \/ Login(r, form)
      PROVE  Allowed(r)'
  <2>1. PICK does \in {"find", "login"} :
          rows' = rows /\ task'[r] = [does |-> does, table |-> "users", says |-> form]
    BY <1>0, <1>3, <1>7, TypeFacts DEF FindUserByLogin, Login
  <2>2. pc'[r] = "done"
    BY <1>1, <1>7 DEF FindUserByLogin, Login
  <2>3. [does |-> does, table |-> "users", says |-> form] \in Looking
    BY DEF Looking
  <2> QED BY <2>1, <2>2, <2>3, BegunAllowed, Kinds
<1>8. CASE SearchUsersByName(r)
  <2>1. pc'[r] = "done" /\ Begin(r, [does |-> "search", table |-> "users"])
    BY <1>1, <1>8 DEF SearchUsersByName
  <2>2. [does |-> "search", table |-> "users"] \in Looking
    BY DEF Looking
  <2> QED BY <1>3, <2>1, <2>2, BegunAllowed, Kinds
<1>9. ASSUME NEW u \in tokens, NEW name \in Name, CreateFolder(r, u, name)
      PROVE  Allowed(r)'
  <2> DEFINE what == [does |-> "create", table |-> "folders",
                      says |-> [owner |-> u, name |-> name]]
  <2>1. Begin(r, what) /\ pc'[r] = "create" /\ answer' = answer
    BY <1>2, <1>9 DEF CreateFolder
  <2>2. pc[r] = "new" /\ task'[r] = what /\ rows' = rows
    BY <1>3, <2>1
  <2>3. what.table = "folders" /\ what.says.owner = u /\ answer'[r].status = 0
    BY <1>0, <2>1, <2>2
  <2> HIDE DEF what
  <2> QED BY <1>4, <2>1, <2>2, <2>3, BegunAllowed
<1>10. ASSUME NEW u \in tokens, ListFolders(r, u) PROVE Allowed(r)'
  <2> DEFINE what == [does |-> "list", table |-> "folders", user |-> u, id |-> 0]
  <2>1. PICK found \in SUBSET {f \in rows["folders"] : f.says.owner = u} :
          Answer(r, 200, found)
    BY <1>0, <1>10, QueryAnswers DEF ListFolders
  <2>2. pc[r] = "new" /\ task'[r] = what /\ rows' = rows
    BY <1>3, <1>10 DEF ListFolders
  <2>3. pc'[r] = "done" /\ answer'[r] = [status |-> 200, rows |-> found]
    BY <1>1, <2>1
  <2>4. /\ what \notin Creating /\ what.table = "folders"
        /\ \A row \in found : row.says.owner = what.user
    BY <1>0, FolderReadings, Kinds
  <2> HIDE DEF what
  <2> QED BY <2>2, <2>3, <2>4, BegunAllowed
<1>11. ASSUME NEW u \in tokens, NEW i \in Asked, CreateMessage(r, u, i)
       PROVE  Allowed(r)'
  <2> DEFINE what == [does |-> "create", table |-> "messages",
                      says |-> [folder |-> i, sender |-> u]]
  <2>1. Begin(r, what) /\ pc'[r] = "check" /\ answer' = answer
    BY <1>2, <1>11 DEF CreateMessage
  <2>2. pc[r] = "new" /\ task'[r] = what /\ rows' = rows
    BY <1>3, <2>1
  <2>3. what.table = "messages" /\ what.says.sender = u /\ answer'[r].status = 0
    BY <1>0, <2>1, <2>2
  <2> HIDE DEF what
  <2> QED BY <1>4, <2>1, <2>2, <2>3, BegunAllowed
<1>12. ASSUME NEW what \in Messages, BeginRead(r, what) PROVE Allowed(r)'
  <2>1. what.user \in tokens /\ Begin(r, what) /\ pc'[r] \in {"check", "get"}
        /\ answer' = answer
    BY <1>2, <1>12 DEF BeginRead, Authenticated
  <2>2. pc[r] = "new" /\ task'[r] = what /\ rows' = rows
    BY <1>3, <2>1
  <2>3. what \in Reading
    BY <1>0, MessageReadings
  <2>4. what \notin Creating /\ answer'[r].status = 0
    BY <1>0, <2>1, <2>2, <2>3, Kinds
  <2> QED BY <2>1, <2>2, <2>4, BegunAllowed
<1> QED BY <1>5, <1>6, <1>7, <1>8, <1>9, <1>10, <1>11, <1>12

\* ... when a query has answered, ...
LEMMA ReadingAllowed ==
  ASSUME AccessInv, NEW r \in Request,
         CheckFolder(r) \/ ListMessages(r) \/ GetMessage(r) \/ ShowMessage(r)
  PROVE  Allowed(r)'
<1>0. TypeOK /\ Allowed(r) /\ Placed(r)
  BY DEF AccessInv, IInv
<1>1. \A status, found : Answer(r, status, found) =>
        pc'[r] = "done" /\ answer'[r] = [status |-> status, rows |-> found]
  BY <1>0, TypeFacts DEF Answer
<1>2. \A to : Proceed(r, to) => pc'[r] = to /\ answer' = answer
  BY <1>0, TypeFacts DEF Proceed
<1>3. task' = task /\ rows' = rows
  BY DEF CheckFolder, ListMessages, GetMessage, ShowMessage, Step
<1>4. pc[r] # "done" /\ answer[r].status = 0
  BY <1>0 DEF CheckFolder, ListMessages, GetMessage, ShowMessage, Step, Placed
<1>5. \A i, u : Owned(i, u)' = Owned(i, u)
  BY <1>3 DEF Owned, With
<1>6. /\ task[r] \in Creating /\ task[r].table = "folders" => With("users", Says(r).owner)' # {}
      /\ task[r] \in Creating /\ task[r].table = "messages" =>
           With("users", Says(r).sender)' # {}
  BY <1>0, <1>3 DEF Allowed, With, Says
<1>7. Says(r)' = Says(r)
  BY <1>3 DEF Says
<1>8. CASE CheckFolder(r)
  <2>1. task[r] \in Creating \cup Reading /\ task[r].table = "messages"
    BY <1>0, <1>8 DEF CheckFolder, Step, Placed
  <2>2. CASE pc'[r] = "done" /\ answer'[r].status = 403
    BY <1>3, <1>6, <1>7, <2>2 DEF Allowed
  <2>3. CASE /\ pc'[r] = task[r].does /\ answer' = answer
             /\ LET i == IF task[r].does = "create" THEN Says(r).folder ELSE task[r].id
                    u == IF task[r].does = "create" THEN Says(r).sender ELSE task[r].user
                IN Owned(i, u)
    <3>1. CASE task[r] \in Creating
      <4>1. task[r].does = "create" /\ Owned(Says(r).folder, Says(r).sender)
        BY <2>3, <3>1, Kinds
      <4> QED BY <1>3, <1>4, <1>5, <1>6, <1>7, <2>3, <4>1 DEF Allowed
    <3>2. CASE task[r] \in Reading
      <4>1. task[r] \notin Creating /\ Owned(task[r].id, task[r].user)
        BY <2>3, <3>2, Kinds
      <4> QED BY <1>3, <1>4, <1>5, <2>3, <4>1 DEF Allowed
    <3> QED BY <2>1, <3>1, <3>2
  <2> DEFINE i == IF task[r].does = "create" THEN Says(r).folder ELSE task[r].id
             u == IF task[r].does = "create" THEN Says(r).sender ELSE task[r].user
  <2>4. PICK mine : /\ mine => Owned(i, u)
                    /\ IF mine THEN Proceed(r, task[r].does) ELSE Answer(r, 403, {})
    BY <1>0, <1>8, QueryAnswers DEF CheckFolder
  <2>5. CASE mine
    BY <1>2, <2>3, <2>4, <2>5
  <2>6. CASE ~mine
    <3>1. Answer(r, 403, {})
      BY <2>4, <2>6
    <3>2. pc'[r] = "done" /\ answer'[r].status = 403
      BY <1>0, <3>1, TypeFacts DEF Answer
    <3> QED BY <2>2, <3>2
  <2> QED BY <2>5, <2>6
<1>9. CASE ListMessages(r)
  <2>1. PICK found \in SUBSET {m \in rows["messages"] : m.says.folder = task[r].id} :
          Answer(r, 200, found)
    BY <1>0, <1>9, QueryAnswers DEF ListMessages
  <2>2. pc[r] = "list" /\ task[r] \in Reading /\ task[r] \notin Creating
    BY <1>0, <1>9, Kinds DEF ListMessages, Step, Placed
  <2>3. \A row \in found : Owned(row.says.folder, task[r].user)'
    <3>1. \A row \in found : Owned(row.says.folder, task[r].user)
      BY <1>0, <2>2 DEF Allowed
    <3> QED BY <1>3, <3>1 DEF Owned, With
  <2>4. pc'[r] = "done" /\ answer'[r] = [status |-> 200, rows |-> found]
    BY <1>1, <2>1
  <2>5. task[r].table = "messages"
    BY <1>0, <2>2 DEF Placed
  <2> QED BY <1>3, <2>2, <2>3, <2>4, <2>5 DEF Allowed
<1>10. CASE GetMessage(r)
  <2>1. pc'[r] \in {"join", "done"} /\ answer'[r].status \in {0, 404}
    <3>1. Answer(r, 404, {}) \/ Proceed(r, "join")
      BY <1>10 DEF GetMessage
    <3>2. CASE Answer(r, 404, {})
      BY <1>0, <3>2, TypeFacts DEF Answer
    <3>3. CASE Proceed(r, "join")
      BY <1>2, <1>4, <3>3
    <3> QED BY <3>1, <3>2, <3>3
  <2>2. task[r] \notin Creating
    BY <1>0, <1>10, Kinds DEF GetMessage, Step, Placed
  <2> QED BY <1>3, <2>1, <2>2 DEF Allowed
<1>11. CASE ShowMessage(r)
  <2>1. task[r] \in Reading /\ task[r] \notin Creating /\ task[r].table = "messages"
    BY <1>0, <1>11, Kinds DEF ShowMessage, Step, Placed
  <2>2. CASE pc'[r] = "done" /\ answer'[r].status = 403
    BY <1>3, <2>1, <2>2 DEF Allowed
  <2>3. CASE /\ pc'[r] = "done"
             /\ answer'[r] = [status |-> 200, rows |-> With("messages", task[r].id)]
             /\ \E m \in With("messages", task[r].id) : Owned(m.says.folder, task[r].user)
    <3>1. PICK m \in With("messages", task[r].id) : Owned(m.says.folder, task[r].user)
      BY <2>3
    <3>2. \A x \in With("messages", task[r].id) : x = m
      BY DEF AccessInv, IInv, Numbered, With, Table
    <3> QED BY <1>3, <1>5, <2>1, <2>3, <3>1, <3>2 DEF Allowed
  <2>4. PICK mine :
          /\ mine => \E m \in With("messages", task[r].id) : Owned(m.says.folder, task[r].user)
          /\ IF mine THEN Answer(r, 200, With("messages", task[r].id)) ELSE Answer(r, 403, {})
    BY <1>0, <1>11, JoinAnswers DEF ShowMessage
  <2>5. CASE mine
    <3>1. Answer(r, 200, With("messages", task[r].id))
      BY <2>4, <2>5
    <3> QED BY <1>1, <2>3, <2>4, <2>5, <3>1
  <2>6. CASE ~mine
    <3>1. Answer(r, 403, {})
      BY <2>4, <2>6
    <3>2. pc'[r] = "done" /\ answer'[r].status = 403
      BY <1>0, <3>1, TypeFacts DEF Answer
    <3> QED BY <2>2, <3>2
  <2> QED BY <2>5, <2>6
<1> QED BY <1>8, <1>9, <1>10, <1>11

\* ... or a storage has done its part of a creation.
LEMMA CreatingAllowed ==
  ASSUME AccessInv, NEW r \in Request, Create(r)
  PROVE  Allowed(r)'
<1>0. TypeOK /\ Allowed(r) /\ Placed(r) /\ IInv
  BY DEF AccessInv, IInv
<1>1. Grows
  BY <1>0, Moving DEF Moves, Grows
<1>2. /\ Refused(r) \/ Looked(r) \/ StoredRow(r) \/ Renumbered(r) \/ Fetched(r)
      /\ task' = task
  BY <1>0, CreateSteps
<1>3. \A status, found : Answer(r, status, found) =>
        pc'[r] = "done" /\ answer'[r] = [status |-> status, rows |-> found]
  BY <1>0, TypeFacts DEF Answer
<1>4. \A to : Proceed(r, to) => pc'[r] = to /\ answer' = answer
  BY <1>0, TypeFacts DEF Proceed
<1>5. /\ pc[r] \in {"create", "email", "insert", "rowId", "fetch"}
      /\ task[r] \in Creating /\ task[r] \notin Reading
  <2>1. pc[r] \in {"create", "email", "insert", "rowId", "fetch"}
    BY <1>2 DEF Refused, Looked, StoredRow, Renumbered, Fetched
  <2>2. task[r] \in Creating
    BY <1>0, <2>1 DEF Placed
  <2> QED BY <2>1, <2>2, Kinds
<1>6. /\ pc'[r] # "list"
      /\ pc'[r] \in {"create", "email", "insert"} => pc[r] \in {"create", "email", "insert"}
  <2>1. CASE Refuse(r)
    BY <1>0, <2>1, RefuseFacts
  <2>2. CASE Looked(r)
    BY <1>4, <2>2 DEF Looked
  <2>3. CASE StoredRow(r) /\ ~Refuse(r)
    <3>1. \/ \E to \in {"rowId", "fetch"} : Proceed(r, to)
          \/ Answer(r, 201, {New(r)})
      BY <2>3 DEF StoredRow
    <3> QED BY <1>3, <1>4, <3>1
  <2>4. CASE Renumbered(r)
    BY <1>4, <2>4 DEF Renumbered
  <2>5. CASE Fetched(r)
    BY <1>3, <2>5 DEF Fetched
  <2> QED BY <1>2, <2>1, <2>2, <2>3, <2>4, <2>5 DEF Refused
<1>7. task[r].table = "folders" => With("users", Says(r).owner)' # {}
  BY <1>0, <1>1, <1>2, <1>5, Stable DEF Allowed, Table, With, Owned, Says
<1>8. task[r].table = "messages" =>
        /\ With("users", Says(r).sender)' # {}
        /\ pc'[r] \in {"create", "email", "insert"} => Owned(Says(r).folder, Says(r).sender)'
  BY <1>0, <1>1, <1>2, <1>5, <1>6, Stable DEF Allowed, Table, With, Owned, Says
<1>9. Says(r)' = Says(r)
  BY <1>2 DEF Says
<1> QED BY <1>2, <1>5, <1>6, <1>7, <1>8, <1>9 DEF Allowed

\* A row that a creation adds was allowed, and tokens go to stored users.
LEMMA Additions ==
  ASSUME IInv, NEW r \in Request, Moves(r)
  PROVE  /\ rows' = rows \/ (StoredRow(r) /\ UNCHANGED <<storage, tokens, task>>)
         /\ \A u \in tokens' : u \in tokens \/ With("users", u) # {}
<1>0. TypeOK
  BY DEF IInv
<1>1. CASE \E form \in AnyForm : Login(r, form)
  <2>1. PICK form \in AnyForm : Login(r, form)
    BY <1>1
  <2>2. PICK found \in SUBSET rows["users"] : GenerateToken(found)
    BY <1>0, <2>1, QueryAnswers DEF Login
  <2>3. \A u \in tokens' : u \in tokens \/ \E x \in found : u = x.id
    BY <2>2 DEF GenerateToken
  <2> QED BY <2>1, <2>3 DEF Login, With
<1>2. CASE Create(r)
  <2>1. UNCHANGED <<storage, tokens, task>>
    BY <1>0, <1>2, CreateSteps
  <2>2. Refused(r) \/ Looked(r) \/ Renumbered(r) \/ Fetched(r) => rows' = rows
    BY DEF Refused, Looked, Renumbered, Fetched
  <2> QED BY <1>0, <1>2, <2>1, <2>2, CreateSteps
<1>3. CASE ~Create(r) /\ ~\E form \in AnyForm : Login(r, form)
  BY <1>3 DEF Moves, Unauthorised, Register, FindUserByLogin, SearchUsersByName, CreateFolder,
    ListFolders, CreateMessage, BeginRead, Begin, CheckFolder, ListMessages, GetMessage,
    ShowMessage, Step
<1> QED BY <1>1, <1>2, <1>3

LEMMA AccessKept ==
  ASSUME AccessInv, Grows,
         \A u \in tokens' : u \in tokens \/ With("users", u) # {},
         \A f \in rows'["folders"] : f \in rows["folders"] \/ With("users", f.says.owner) # {},
         \A m \in rows'["messages"] :
           \/ m \in rows["messages"]
           \/ Owned(m.says.folder, m.says.sender) /\ With("users", m.says.sender) # {}
  PROVE  /\ NoOrphans'
         /\ \A m \in rows'["messages"] :
              m.by \in Request => Owned(m.says.folder, m.says.sender)'
<1> USE DEF With, Owned
<1>0. rows["users"] \subseteq rows'["users"] /\ NoOrphans
  BY DEF Grows, Table, AccessInv
<1>1. ASSUME NEW u \in tokens' PROVE With("users", u)' # {}
  <2>1. With("users", u) # {}
    BY <1>0 DEF NoOrphans
  <2> QED BY <1>0, <2>1
<1>2. ASSUME NEW f \in rows'["folders"] PROVE With("users", f.says.owner)' # {}
  <2>1. With("users", f.says.owner) # {}
    BY <1>0 DEF NoOrphans
  <2> QED BY <1>0, <2>1
<1>3. ASSUME NEW m \in rows'["messages"]
      PROVE  With("folders", m.says.folder) # {} /\ With("users", m.says.sender) # {}
  <2>1. CASE m \in rows["messages"]
    BY <1>0, <2>1 DEF NoOrphans
  <2>2. CASE Owned(m.says.folder, m.says.sender) /\ With("users", m.says.sender) # {}
    BY <2>2
  <2> QED BY <2>1, <2>2
<1>4. ASSUME NEW m \in rows'["messages"], m.by \in Request
      PROVE  Owned(m.says.folder, m.says.sender)'
  <2>1. Owned(m.says.folder, m.says.sender)
    BY <1>4 DEF AccessInv
  <2> QED BY <2>1, Stable
<1>5. ASSUME NEW m \in rows'["messages"] PROVE With("folders", m.says.folder)' # {}
  <2>1. With("folders", m.says.folder) # {} /\ rows["folders"] \subseteq rows'["folders"]
    BY <1>3 DEF Grows, Table
  <2> QED BY <2>1
<1>6. ASSUME NEW m \in rows'["messages"] PROVE With("users", m.says.sender)' # {}
  <2>1. With("users", m.says.sender) # {}
    BY <1>3
  <2> QED BY <1>0, <2>1
<1> QED BY <1>1, <1>2, <1>4, <1>5, <1>6 DEF NoOrphans

LEMMA InitAccess == Init => AccessInv
<1> SUFFICES ASSUME Init PROVE AccessInv
  OBVIOUS
<1>1. IInv
  BY InitIInv
<1>2. /\ rows["users"] = {[id |-> u, by |-> "seed", says |-> SeedForm[u]] : u \in Seeds}
      /\ rows["folders"] = {[id |-> u, by |-> "seed",
                             says |-> [owner |-> u, name |-> SeedName]] : u \in Seeds}
      /\ \/ rows["messages"] = {}
         \/ rows["messages"] = {[id |-> u, by |-> "seed", says |-> SeedMail[u]] : u \in Seeds}
  BY DEF Init, Seeded, Table
<1>3. ASSUME NEW u \in Seeds PROVE With("users", u) # {}
  <2>1. [id |-> u, by |-> "seed", says |-> SeedForm[u]] \in With("users", u)
    BY <1>2 DEF With
  <2> QED BY <2>1
<1>4. tokens = Seeds /\ \A f \in rows["folders"] : f.says.owner \in Seeds
  <2>1. tokens = Seeds
    BY DEF Init
  <2>2. ASSUME NEW f \in rows["folders"] PROVE f.says.owner \in Seeds
    <3>1. PICK u \in Seeds : f = [id |-> u, by |-> "seed",
                                   says |-> [owner |-> u, name |-> SeedName]]
      BY <1>2
    <3> QED BY <3>1
  <2> QED BY <2>1, <2>2
<1>5. NoOrphans
  <2>1. ASSUME NEW u \in Seeds PROVE With("folders", u) # {}
    <3>1. [id |-> u, by |-> "seed", says |-> [owner |-> u, name |-> SeedName]]
            \in With("folders", u)
      BY <1>2 DEF With
    <3> QED BY <3>1
  <2>2. ASSUME NEW m \in rows["messages"]
        PROVE  m.by = "seed" /\ m.says.folder \in Seeds /\ m.says.sender \in Seeds
    <3>1. PICK u \in Seeds : m = [id |-> u, by |-> "seed", says |-> SeedMail[u]]
      BY <1>2
    <3>2. SeedMail[u] \in [folder : Seeds, sender : Seeds]
      BY StoreAssumption DEF Seeds
    <3> QED BY <3>1, <3>2
  <2> QED BY <1>3, <1>4, <2>1, <2>2 DEF NoOrphans
<1>7. \A m \in rows["messages"] : m.by \notin Request
  BY <1>2, StoreAssumption
<1>6. ASSUME NEW r \in Request PROVE Allowed(r)
  <2>1. pc[r] = "new" /\ task[r] = Nothing /\ answer[r].status = 0
    BY DEF Init, NoAnswer
  <2> QED BY <2>1, Kinds DEF Allowed
<1> QED BY <1>1, <1>5, <1>6, <1>7 DEF AccessInv

LEMMA NextAccess == AccessInv /\ [Next]_vars => AccessInv'
<1> SUFFICES ASSUME AccessInv, [Next]_vars PROVE AccessInv'
  OBVIOUS
<1>0. IInv /\ IInv'
  BY NextIInv DEF AccessInv
<1>1. CASE UNCHANGED vars \/ \E t \in Table : Restart(t)
  <2>1. rows' = rows /\ tokens' = tokens /\ task' = task /\ answer' = answer
    BY <1>1 DEF vars, Restart
  <2>2. \A q \in Request : pc'[q] \in {pc[q], "done"}
    <3>1. CASE UNCHANGED vars
      BY <3>1 DEF vars
    <3>2. CASE \E t \in Table : Restart(t)
      BY <3>2 DEF Restart
    <3> QED BY <1>1, <3>1, <3>2
  <2>3. Grows
    BY <2>1 DEF Grows
  <2>4. \A q \in Request : Allowed(q)'
    BY <2>1, <2>2, <2>3, AllowedKept DEF AccessInv
  <2> QED BY <1>0, <2>1, <2>3, <2>4, AccessKept DEF AccessInv
<1>2. ASSUME NEW r \in Request, Moves(r) PROVE AccessInv'
  <2>1. Alone(r) /\ Grows
    BY <1>0, <1>2, Moving DEF Grows
  <2>2. Allowed(r)'
    BY <1>2, AskingAllowed, ReadingAllowed, CreatingAllowed DEF Moves
  <2>3. ASSUME NEW q \in Request \ {r} PROVE Allowed(q)'
    BY <2>1, AllowedKept DEF AccessInv, Alone
  <2>4. \A u \in tokens' : u \in tokens \/ With("users", u) # {}
    BY <1>0, <1>2, Additions
  <2>5. /\ \A f \in rows'["folders"] :
             f \in rows["folders"] \/ With("users", f.says.owner) # {}
        /\ \A m \in rows'["messages"] :
             \/ m \in rows["messages"]
             \/ Owned(m.says.folder, m.says.sender) /\ With("users", m.says.sender) # {}
    <3>1. CASE rows' = rows
      BY <3>1
    <3>2. CASE StoredRow(r) /\ UNCHANGED <<storage, tokens, task>>
      <4>1. /\ pc[r] \in {"create", "insert"}
            /\ rows'[Into(r)] = rows[Into(r)] \cup {New(r)}
            /\ \A t \in Table \ {Into(r)} : rows'[t] = rows[t]
        BY <1>0, <3>2, Storing
      <4>2. task[r] \in Creating /\ New(r).says = Says(r) /\ Allowed(r)
        BY <1>0, <4>1, Fresh DEF AccessInv
      <4>3. CASE Into(r) = "folders"
        BY <4>1, <4>2, <4>3 DEF Allowed, Into, Table
      <4>4. CASE Into(r) = "messages"
        BY <4>1, <4>2, <4>4 DEF Allowed, Into, Table
      <4>5. CASE Into(r) \notin {"folders", "messages"}
        BY <4>1, <4>5 DEF Table
      <4> QED BY <4>3, <4>4, <4>5
    <3> QED BY <1>0, <1>2, <3>1, <3>2, Additions
  <2>6. /\ NoOrphans'
        /\ \A m \in rows'["messages"] :
             m.by \in Request => Owned(m.says.folder, m.says.sender)'
    BY <2>1, <2>4, <2>5, AccessKept
  <2> QED BY <1>0, <2>2, <2>3, <2>6 DEF AccessInv
<1> QED BY <1>1, <1>2, NextMoves

LEMMA AlwaysAccess == Spec => []AccessInv
BY InitAccess, NextAccess, PTL DEF Spec

\* No foreign key is needed: a token is only ever issued to a stored user, a folder
\* is created with a token and a message after a look at the folder, and no row
\* is ever taken away in between.
THEOREM Orphans == Spec => []NoOrphans
BY AlwaysAccess, PTL DEF AccessInv

\* Whoever lists or gets folders or messages is shown nothing but their own, and
\* every message that came with a request lies in a folder of its sender, over each
\* storage.
THEOREM OwnMail == Spec => []OwnMailOnly
<1>1. AccessInv => OwnMailOnly
  <2> SUFFICES ASSUME AccessInv PROVE OwnMailOnly
    OBVIOUS
  <2>1. ASSUME NEW r \in Request, task[r].does \in {"list", "get"}
        PROVE  task[r] \in Reading
    <3>1. task[r] \in Task
      BY TypeFacts DEF AccessInv, IInv
    <3> QED BY <2>1, <3>1, Kinds DEF Task
  <2> QED BY <2>1 DEF AccessInv, Allowed, OwnMailOnly
<1> QED BY <1>1, AlwaysAccess, PTL

---------------------------------------------------------------------------
\* What a creation has of its row.

\* The number is that of the row, or over SQLite of a later one.
Reached(r, n) ==
  \E own \in Own(r) :
    n = own.id \/ (storage = "sqlite" /\ r \in overtaken /\ own.id < n)

Told(r) ==
  \E own \in Own(r) : \A row \in answer[r].rows :
    \/ row = own
    \/ r \in overtaken /\ row \in rows[task[r].table] /\ own.id < row.id

Knows(r) ==
  /\ pc[r] = "rowId" => Reached(r, lastRow[task[r].table])
  /\ pc[r] = "fetch" => Reached(r, rowId[r])
  /\ answer[r].status = 201 => Told(r)

TellInv == IInv /\ \A r \in Request : Knows(r)

\* Outside a creation nothing is stored, and nobody is told that anything was.
LEMMA Elsewhere ==
  ASSUME IInv, NEW r \in Request, Moves(r), ~Create(r)
  PROVE  /\ UNCHANGED <<rows, lastRow, rowId, overtaken>>
         /\ pc[r] # "done" /\ answer[r].status = 0
         /\ pc'[r] \notin {"rowId", "fetch"} /\ answer'[r].status # 201
<1>0. TypeOK /\ Placed(r)
  BY DEF IInv
<1>1. /\ UNCHANGED <<rows, lastRow, rowId, overtaken>>
      /\ pc[r] \in {"new", "check", "list", "get", "join"}
  BY DEF Moves, Unauthorised, Register, FindUserByLogin, Login, SearchUsersByName,
    CreateFolder, ListFolders, CreateMessage, BeginRead, Begin, CheckFolder, ListMessages,
    GetMessage, ShowMessage, Step
<1>2. answer[r].status = 0
  BY <1>0, <1>1 DEF Placed
<1>3. \/ \E status \in {200, 400, 401, 403, 404} : \E found : Answer(r, status, found)
      \/ \E to \in {"create", "check", "list", "get", "join"} : Proceed(r, to)
  <2>1. CASE CheckFolder(r)
    <3>1. task[r].does \in {"create", "list", "get"}
      BY <1>0, <2>1, Kinds DEF CheckFolder, Step, Placed
    <3>2. Proceed(r, task[r].does) \/ Answer(r, 403, {})
      BY <2>1 DEF CheckFolder
    <3> QED BY <3>1, <3>2
  <2>2. CASE \E form \in Form : Register(r, form)
    BY <2>2 DEF Register
  <2>8. CASE Unauthorised(r)
    <3>1. PICK status \in {400, 401, 403} : Answer(r, status, {})
      BY <2>8 DEF Unauthorised
    <3> QED BY <3>1
  <2>3. CASE \E form \in AnyForm : FindUserByLogin(r, form)
    BY <2>3 DEF FindUserByLogin
  <2>4. CASE \E form \in AnyForm : Login(r, form)
    <3>1. PICK form \in AnyForm : Login(r, form)
      BY <2>4
    <3>2. PICK found : Answer(r, IF found = {} THEN 401 ELSE 200, found)
      BY <3>1 DEF Login
    <3> QED BY <3>2
  <2>5. CASE SearchUsersByName(r) \/ \E u \in tokens : ListFolders(r, u)
    <3>1. PICK found : Answer(r, 200, found)
      BY <2>5 DEF SearchUsersByName, ListFolders
    <3> QED BY <3>1
  <2>6. CASE \/ \E u \in tokens, name \in Name : CreateFolder(r, u, name)
             \/ \E u \in tokens, i \in Asked : CreateMessage(r, u, i)
             \/ \E what \in Messages : BeginRead(r, what)
    BY <2>6 DEF CreateFolder, CreateMessage, BeginRead
  <2>7. CASE ListMessages(r) \/ GetMessage(r) \/ ShowMessage(r)
    BY <2>7 DEF ListMessages, GetMessage, ShowMessage
  <2> QED BY <2>1, <2>2, <2>3, <2>4, <2>5, <2>6, <2>7, <2>8 DEF Moves
<1>4. CASE \E status \in {200, 400, 401, 403, 404} : \E found : Answer(r, status, found)
  <2>1. PICK status \in {200, 400, 401, 403, 404} : \E found : Answer(r, status, found)
    BY <1>4
  <2>2. pc'[r] = "done" /\ answer'[r].status = status
    BY <1>0, <2>1, TypeFacts DEF Answer
  <2> QED BY <1>1, <1>2, <2>2
<1>5. CASE \E to \in {"create", "check", "list", "get", "join"} : Proceed(r, to)
  <2>1. PICK to \in {"create", "check", "list", "get", "join"} : Proceed(r, to)
    BY <1>5
  <2>2. pc'[r] = to /\ answer' = answer
    BY <1>0, <2>1, TypeFacts DEF Proceed
  <2> QED BY <1>1, <1>2, <2>2
<1> QED BY <1>3, <1>4, <1>5

LEMMA KnowsKept ==
  ASSUME IInv, Grows, storage' = storage, NEW q \in Request, Knows(q),
         task'[q] = task[q], answer'[q] = answer[q], pc'[q] \in {pc[q], "done"},
         overtaken \subseteq overtaken', rowId'[q] = rowId[q],
         pc'[q] = "rowId" =>
           \/ lastRow'[Into(q)] = lastRow[Into(q)]
           \/ /\ storage = "sqlite" /\ q \in overtaken'
              /\ \A own \in Own(q) : own.id < lastRow'[Into(q)]
  PROVE  Knows(q)'
<1>1. ASSUME task[q] \in Creating
      PROVE  Own(q) \subseteq Own(q)' /\ rows[Into(q)] \subseteq rows'[Into(q)]
  BY <1>1, Kinds DEF Own, Grows, Into
<1>2. pc[q] \in {"rowId", "fetch"} \/ answer[q].status = 201 => task[q] \in Creating
  BY DEF IInv, Placed
<1>3. CASE pc'[q] = "rowId"
  <2>1. PICK own \in Own(q) : \/ lastRow[Into(q)] = own.id
                              \/ storage = "sqlite" /\ q \in overtaken
                                   /\ own.id < lastRow[Into(q)]
    BY <1>3 DEF Knows, Reached, Into
  <2>2. own \in Own(q)'
    BY <1>1, <1>2, <1>3
  <2>3. \/ lastRow'[Into(q)] = own.id
        \/ storage = "sqlite" /\ q \in overtaken' /\ own.id < lastRow'[Into(q)]
    BY <1>3, <2>1
  <2>4. Reached(q, lastRow[task[q].table])'
    BY <2>2, <2>3 DEF Reached, Into
  <2>5. answer'[q].status # 201
    BY <1>3 DEF IInv, Placed
  <2> QED BY <1>3, <2>4, <2>5 DEF Knows
<1>4. CASE pc'[q] = "fetch"
  <2>1. PICK own \in Own(q) : \/ rowId[q] = own.id
                              \/ storage = "sqlite" /\ q \in overtaken /\ own.id < rowId[q]
    BY <1>4 DEF Knows, Reached
  <2>2. own \in Own(q)'
    BY <1>1, <1>2, <1>4
  <2>3. Reached(q, rowId[q])'
    BY <2>1, <2>2 DEF Reached
  <2>4. answer'[q].status # 201
    BY <1>4 DEF IInv, Placed
  <2> QED BY <1>4, <2>3, <2>4 DEF Knows
<1>5. CASE pc'[q] \notin {"rowId", "fetch"} /\ answer[q].status = 201
  <2>1. PICK own \in Own(q) : \A row \in answer[q].rows :
          \/ row = own
          \/ q \in overtaken /\ row \in rows[Into(q)] /\ own.id < row.id
    BY <1>5 DEF Knows, Told, Into
  <2>2. own \in Own(q)' /\ rows[Into(q)] \subseteq rows'[Into(q)]
    BY <1>1, <1>2, <1>5
  <2>3. Told(q)'
    BY <2>1, <2>2 DEF Told, Into
  <2> QED BY <1>5, <2>3 DEF Knows
<1>6. CASE pc'[q] \notin {"rowId", "fetch"} /\ answer[q].status # 201
  BY <1>6 DEF Knows
<1> QED BY <1>3, <1>4, <1>5, <1>6

\* A creation goes on with the number of its own row, or a later one.
LEMMA KnowsMore ==
  ASSUME TellInv, NEW r \in Request,
         Refused(r) \/ Looked(r) \/ Renumbered(r) \/ Fetched(r),
         UNCHANGED <<storage, tokens, task>>
  PROVE  Knows(r)'
<1>0. TypeOK /\ IInv /\ Placed(r) /\ Knows(r) /\ task' = task
  BY DEF TellInv, IInv
<1>1. task[r] \in Creating /\ Into(r) \in Table /\ answer[r].status = 0
  <2>1. pc[r] \in {"create", "email", "insert", "rowId", "fetch"}
    BY DEF Refused, Looked, Renumbered, Fetched
  <2> QED BY <1>0, <2>1, Kinds DEF Placed, Into
<1>2. CASE Refused(r)
  <2>1. pc'[r] = "done" /\ answer'[r].status \in {409, 500}
    BY <1>0, <1>2, RefuseFacts DEF Refused
  <2> QED BY <2>1 DEF Knows
<1>3. CASE Looked(r)
  <2>1. pc'[r] \in {"email", "insert"} /\ answer' = answer
    BY <1>0, <1>3, TypeFacts DEF Looked, Proceed
  <2> QED BY <1>1, <2>1 DEF Knows
<1>4. CASE Renumbered(r)
  <2>1. pc[r] = "rowId" /\ pc'[r] = "fetch" /\ answer' = answer /\ rows' = rows
        /\ rowId'[r] = lastRow[Into(r)] /\ overtaken' = overtaken
    BY <1>0, <1>4, TypeFacts DEF Renumbered, Proceed, Into, TypeOK
  <2>2. Own(r)' = Own(r)
    BY <1>0, <2>1 DEF Own
  <2>3. Reached(r, lastRow[Into(r)])
    BY <1>0, <2>1 DEF Knows, Into
  <2>4. Reached(r, rowId[r])'
    BY <2>1, <2>2, <2>3 DEF Reached
  <2> QED BY <1>1, <2>1, <2>4 DEF Knows
<1>5. CASE Fetched(r)
  <2>1. PICK row \in With(Into(r), rowId[r]) : Answer(r, 201, {row})
    BY <1>5 DEF Fetched, Into
  <2>2. pc[r] = "fetch" /\ rows' = rows /\ overtaken' = overtaken
        /\ pc'[r] = "done" /\ answer'[r].rows = {row}
    BY <1>0, <1>5, <2>1, TypeFacts DEF Fetched, Answer
  <2>3. PICK own \in Own(r) : \/ rowId[r] = own.id
                              \/ storage = "sqlite" /\ r \in overtaken /\ own.id < rowId[r]
    BY <1>0, <2>2 DEF Knows, Reached
  <2>4. row \in rows[Into(r)] /\ row.id = rowId[r] /\ own \in rows[Into(r)]
    BY DEF With, Own, Into
  <2>5. row = own \/ (r \in overtaken /\ own.id < row.id)
    BY <1>0, <1>1, <2>3, <2>4 DEF IInv, Numbered
  <2>6. own \in Own(r)'
    BY <1>0, <2>2 DEF Own
  <2>7. Told(r)'
    BY <1>0, <2>2, <2>4, <2>5, <2>6 DEF Told, Into
  <2> QED BY <2>2, <2>7 DEF Knows
<1> QED BY <1>2, <1>3, <1>4, <1>5

LEMMA KnowsItsRow ==
  ASSUME TellInv, NEW r \in Request, StoredRow(r), UNCHANGED <<storage, tokens, task>>
  PROVE  Knows(r)'
<1>0. TypeOK /\ IInv /\ Placed(r) /\ task' = task /\ storage' = storage
  BY DEF TellInv, IInv
<1>1. /\ pc[r] \in {"create", "insert"}
      /\ rows'[Into(r)] = rows[Into(r)] \cup {New(r)}
  BY <1>0, Storing
<1>2. Into(r) \in Table /\ New(r).by = r /\ answer[r].status = 0
  BY <1>0, <1>1, Fresh DEF Placed
<1>3. New(r) \in Own(r)'
  BY <1>0, <1>1, <1>2 DEF Own, Into
<1>4. CASE storage = "sqlite"
  <2>1. pc'[r] = "rowId" /\ answer' = answer /\ lastRow'[Into(r)] = New(r).id
    BY <1>0, <1>2, <1>4, TypeFacts DEF StoredRow, Proceed, Into, TypeOK
  <2>2. Reached(r, lastRow[task[r].table])'
    BY <1>0, <1>3, <2>1 DEF Reached, Into
  <2> QED BY <1>2, <2>1, <2>2 DEF Knows
<1>5. CASE storage # "sqlite" /\ Answer(r, 201, {New(r)})
  <2>1. pc'[r] = "done" /\ answer'[r].rows = {New(r)}
    BY <1>0, <1>5, TypeFacts DEF Answer
  <2>2. Told(r)'
    BY <1>3, <2>1 DEF Told
  <2> QED BY <2>1, <2>2 DEF Knows
<1>6. CASE storage # "sqlite" /\ Refuse(r)
  <2>1. pc'[r] = "done" /\ answer'[r].status \in {409, 500}
    BY <1>0, <1>6, RefuseFacts
  <2> QED BY <2>1 DEF Knows
<1>7. CASE storage # "sqlite" /\ Proceed(r, "fetch") /\ rowId' = [rowId EXCEPT ![r] = New(r).id]
  <2>1. pc'[r] = "fetch" /\ answer' = answer /\ rowId'[r] = New(r).id
    BY <1>0, <1>7, TypeFacts DEF Proceed, TypeOK
  <2>2. Reached(r, rowId[r])'
    BY <1>3, <2>1 DEF Reached
  <2> QED BY <1>2, <2>1, <2>2 DEF Knows
<1> QED BY <1>4, <1>5, <1>6, <1>7 DEF StoredRow

\* Another request inserts through the same connection: it overtakes whoever has
\* not read its row number yet.
LEMMA OvertakenKnows ==
  ASSUME TellInv, NEW r \in Request, NEW q \in Request \ {r}, StoredRow(r),
         UNCHANGED <<storage, tokens, task>>
  PROVE  Knows(q)'
<1>0. TypeOK /\ IInv /\ Knows(q) /\ Placed(q)
  BY DEF TellInv, IInv
<1>1. Alone(r) /\ pc[r] \in {"create", "insert"}
  BY <1>0, Storing
<1>2. /\ \A x \in rows[Into(r)] : x.id < New(r).id
      /\ Into(r) \in Table
  BY <1>0, <1>1, Fresh
<1>3. Grows
  BY <1>0, <1>1, Storing DEF Grows
<1>4. overtaken \subseteq overtaken' /\ rowId'[q] = rowId[q]
  BY <1>0, TypeFacts DEF StoredRow, TypeOK
<1>5. ASSUME pc[q] = "rowId"
      PROVE  \/ lastRow'[Into(q)] = lastRow[Into(q)]
             \/ /\ storage = "sqlite" /\ q \in overtaken'
                /\ \A own \in Own(q) : own.id < lastRow'[Into(q)]
  <2>1. Into(q) \in Table
    BY <1>0, <1>5, Kinds DEF Placed, Into
  <2>2. CASE storage # "sqlite"
    BY <2>2 DEF StoredRow
  <2>3. CASE storage = "sqlite" /\ Into(q) # Into(r)
    BY <1>0, <2>1, <2>3 DEF StoredRow, Into, TypeOK
  <2>4. CASE storage = "sqlite" /\ Into(q) = Into(r)
    <3>1. lastRow'[Into(q)] = New(r).id /\ q \in overtaken'
      BY <1>0, <1>5, <2>1, <2>4 DEF StoredRow, Into, TypeOK
    <3> QED BY <1>2, <2>4, <3>1 DEF Own, Into
  <2> QED BY <2>2, <2>3, <2>4
<1> QED BY <1>0, <1>1, <1>3, <1>4, <1>5, KnowsKept DEF Alone

LEMMA InitTell == Init => TellInv
<1> SUFFICES ASSUME Init PROVE TellInv
  OBVIOUS
<1>1. ASSUME NEW r \in Request PROVE Knows(r)
  <2>1. pc[r] = "new" /\ answer[r].status = 0
    BY DEF Init, NoAnswer
  <2> QED BY <2>1 DEF Knows
<1> QED BY <1>1, InitIInv DEF TellInv

LEMMA NextTell == TellInv /\ [Next]_vars => TellInv'
<1> SUFFICES ASSUME TellInv, [Next]_vars PROVE TellInv'
  OBVIOUS
<1>0. IInv /\ IInv' /\ TypeOK
  BY NextIInv DEF TellInv, IInv
<1>1. CASE UNCHANGED vars
  <2>1. ASSUME NEW q \in Request PROVE Knows(q)'
    BY <1>0, <1>1, KnowsKept DEF vars, Grows, TellInv
  <2> QED BY <1>0, <2>1 DEF TellInv
<1>2. ASSUME NEW t \in Table, Restart(t) PROVE TellInv'
  <2>1. UNCHANGED <<storage, rows, tokens, task, rowId, answer, overtaken>>
    BY <1>2 DEF Restart
  <2>2. ASSUME NEW q \in Request PROVE Knows(q)'
    <3>1. pc'[q] \in {pc[q], "done"}
      BY <1>2 DEF Restart
    <3>2. ASSUME pc'[q] = "rowId" PROVE lastRow'[Into(q)] = lastRow[Into(q)]
      <4>1. pc[q] = "rowId" /\ Into(q) # t
        BY <1>2, <3>2 DEF Restart, Into
      <4>2. Into(q) \in Table
        BY <1>0, <4>1, Kinds DEF IInv, Placed, Into
      <4> QED BY <1>0, <1>2, <4>1, <4>2 DEF Restart, TypeOK
    <3> QED BY <1>0, <2>1, <3>1, <3>2, KnowsKept DEF Grows, TellInv
  <2> QED BY <1>0, <2>2 DEF TellInv
<1>3. ASSUME NEW r \in Request, Moves(r) PROVE TellInv'
  <2>1. Alone(r) /\ Grows /\ storage' = storage
    BY <1>0, <1>3, Moving DEF Grows
  <2>2. CASE ~Create(r)
    <3>1. /\ UNCHANGED <<rows, lastRow, rowId, overtaken>>
          /\ pc'[r] \notin {"rowId", "fetch"} /\ answer'[r].status # 201
      BY <1>0, <1>3, <2>2, Elsewhere
    <3>2. Knows(r)'
      BY <3>1 DEF Knows
    <3>3. ASSUME NEW q \in Request \ {r} PROVE Knows(q)'
      BY <1>0, <2>1, <3>1, KnowsKept DEF Alone, TellInv
    <3> QED BY <1>0, <3>2, <3>3 DEF TellInv
  <2>3. CASE Create(r)
    <3>1. UNCHANGED <<storage, tokens, task>>
      BY <1>0, <2>3, CreateSteps
    <3>2. CASE StoredRow(r)
      BY <1>0, <3>1, <3>2, KnowsItsRow, OvertakenKnows DEF TellInv
    <3>3. CASE Refused(r) \/ Looked(r) \/ Renumbered(r) \/ Fetched(r)
      <4>1. Knows(r)'
        BY <3>1, <3>3, KnowsMore
      <4>2. ASSUME NEW q \in Request \ {r} PROVE Knows(q)'
        <5>1. /\ lastRow' = lastRow /\ overtaken' = overtaken
              /\ rowId'[q] = rowId[q]
          BY <1>0, <3>3 DEF Refused, Looked, Renumbered, Fetched, TypeOK
        <5> QED BY <1>0, <2>1, <5>1, KnowsKept DEF Alone, TellInv
      <4> QED BY <1>0, <4>1, <4>2 DEF TellInv
    <3> QED BY <1>0, <2>3, <3>2, <3>3, CreateSteps
  <2> QED BY <2>2, <2>3
<1> QED BY <1>1, <1>2, <1>3, NextMoves

LEMMA AlwaysTells == Spec => []TellInv
BY InitTell, NextTell, PTL DEF Spec

\* A 201 answers the row of the request itself, unless another insert came through
\* the same SQLite connection before the row number was read: then it may answer a
\* row of the table that was inserted later.
THEOREM ToldOwn == Spec => []ToldOwnUnlessOvertaken
<1>1. TellInv => ToldOwnUnlessOvertaken
  BY DEF TellInv, Knows, Told, Created, ToldOwnUnlessOvertaken
<1> QED BY <1>1, AlwaysTells, PTL

---------------------------------------------------------------------------
\* Over PostgreSQL and MongoDB a creation keeps its promise.

\* No two rows of different requests clash.
ApartIn(all) ==
  /\ \A x, y \in all["users"] : x.by # y.by =>
       x.says.login # y.says.login /\ x.says.email # y.says.email
  /\ \A x, y \in all["folders"] : x.by # y.by => x.says # y.says

Apart == ApartIn(rows)

PromiseInv == TellInv /\ Apart

\* The UNIQUE clauses and indexes keep a new row apart from all that are stored.
LEMMA StoresApart ==
  ASSUME IInv, Apart, NEW r \in Request, StoredRow(r), UNCHANGED <<storage, tokens, task>>
  PROVE  Apart'
<1>1. /\ pc[r] \in {"create", "insert"}
      /\ rows'[Into(r)] = rows[Into(r)] \cup {New(r)}
      /\ \A t \in Table \ {Into(r)} : rows'[t] = rows[t]
  BY Storing
<1>2. New(r).says = Says(r) /\ Into(r) \in Table
  BY <1>1, Fresh
<1>3. Unique(r)
  BY DEF StoredRow
<1>4. CASE Into(r) = "users"
  <2>1. \A old \in rows["users"] :
          old.says.login # Says(r).login /\ old.says.email # Says(r).email
    BY <1>3, <1>4 DEF Unique, Into
  <2>2. rows'["users"] = rows["users"] \cup {New(r)} /\ rows'["folders"] = rows["folders"]
    BY <1>1, <1>4 DEF Table
  <2> QED BY <1>2, <2>1, <2>2 DEF Apart, ApartIn
<1>5. CASE Into(r) = "folders"
  <2>1. \A old \in rows["folders"] : old.says # Says(r)
    BY <1>3, <1>5 DEF Unique, Into
  <2>2. rows'["folders"] = rows["folders"] \cup {New(r)} /\ rows'["users"] = rows["users"]
    BY <1>1, <1>5 DEF Table
  <2> QED BY <1>2, <2>1, <2>2 DEF Apart, ApartIn
<1>6. CASE Into(r) = "messages"
  <2>1. rows'["folders"] = rows["folders"] /\ rows'["users"] = rows["users"]
    BY <1>1, <1>6 DEF Table
  <2> QED BY <2>1 DEF Apart, ApartIn
<1> QED BY <1>2, <1>4, <1>5, <1>6 DEF Table

LEMMA InitPromise == Init => PromiseInv
<1> SUFFICES ASSUME Init PROVE Apart
  BY InitTell DEF PromiseInv
<1>1. \A x \in rows["users"] \cup rows["folders"] : x.by = "seed"
  BY DEF Init, Seeded, Table
<1> QED BY <1>1 DEF Apart, ApartIn

LEMMA NextPromise == PromiseInv /\ [Next]_vars => PromiseInv'
<1> SUFFICES ASSUME PromiseInv, [Next]_vars PROVE PromiseInv'
  OBVIOUS
<1>1. IInv /\ Apart /\ TellInv'
  BY NextTell DEF PromiseInv, TellInv
<1>2. ASSUME NEW r \in Request, Moves(r) PROVE Apart'
  BY <1>1, <1>2, Additions, StoresApart DEF Apart
<1>3. CASE UNCHANGED vars \/ \E t \in Table : Restart(t)
  <2>1. rows' = rows
    BY <1>3 DEF vars, Restart
  <2> QED BY <1>1, <2>1 DEF Apart, PromiseInv
<1> QED BY <1>1, <1>2, <1>3, NextMoves DEF PromiseInv

\* Rows of different requests do not clash, whatever tables they are in.
LEMMA NoClash ==
  ASSUME NEW all, ApartIn(all),
         \A t \in Table : \A row \in all[t] : row.says \in Content(t),
         NEW t \in Table, NEW s \in Table, NEW x \in all[t], NEW y \in all[s], x.by # y.by
  PROVE  ~SameKey(x, y)
<1>1. \A f \in AnyForm : DOMAIN f = {"login", "email", "password"}
  <2> SUFFICES ASSUME NEW f \in AnyForm PROVE DOMAIN f = {"login", "email", "password"}
    OBVIOUS
  <2>1. f = [login |-> f.login, email |-> f.email, password |-> f.password]
    BY StoreAssumption DEF AnyForm, Seeds
  <2> QED BY <2>1
<1>2. \A f \in Folder : DOMAIN f = {"owner", "name"}
  BY DEF Folder
<1>3. \A m \in Message : DOMAIN m = {"folder", "sender"}
  BY DEF Message
<1>4. /\ \A z \in all["users"] : DOMAIN z.says = {"login", "email", "password"}
      /\ \A z \in all["folders"] : DOMAIN z.says = {"owner", "name"}
      /\ \A z \in all["messages"] : DOMAIN z.says = {"folder", "sender"}
  BY <1>1, <1>2, <1>3 DEF Content, Table
<1>5. CASE t = "users" /\ s = "users"
  BY <1>4, <1>5 DEF SameKey, ApartIn
<1>6. CASE t = "folders" /\ s = "folders"
  BY <1>4, <1>6 DEF SameKey, ApartIn
<1>7. CASE t # s \/ t = "messages"
  <2>1. /\ "login" \notin DOMAIN x.says \cap DOMAIN y.says
        /\ "owner" \notin DOMAIN x.says \cap DOMAIN y.says
    BY <1>4, <1>7 DEF Table
  <2> QED BY <2>1 DEF SameKey
<1> QED BY <1>5, <1>6, <1>7 DEF Table

\* What a request has of all rows.
LEMMA Unions ==
  ASSUME NEW all, NEW r
  PROVE  UNION {{row \in all[t] : row.by = r} : t \in Table}
           = {row \in UNION {all[t] : t \in Table} : row.by = r}
OBVIOUS

LEMMA MadeFacts ==
  ASSUME IInv
  PROVE  /\ made = [r \in Request |-> {row \in UNION {rows[t] : t \in Table} : row.by = r}]
         /\ made' = [r \in Request |-> {row \in UNION {rows'[t] : t \in Table} : row.by = r}]
         /\ \A r \in Request : \A own \in Own(r) : task[r] \in Creating => made[r] = {own}
<1>1. /\ made = [r \in Request |-> {row \in UNION {rows[t] : t \in Table} : row.by = r}]
      /\ made' = [r \in Request |-> {row \in UNION {rows'[t] : t \in Table} : row.by = r}]
  BY Unions DEF made
<1>2. ASSUME NEW r \in Request, NEW own \in Own(r), task[r] \in Creating
      PROVE  made[r] = {own}
  <2>1. Into(r) \in Table /\ own \in rows[Into(r)] /\ own.by = r
    BY <1>2, Kinds DEF Own, Into
  <2>2. ASSUME NEW t \in Table, NEW row \in rows[t], row.by = r PROVE row = own
    BY <2>1, <2>2 DEF IInv, Sent, Into
  <2> QED BY <1>1, <2>1, <2>2
<1> QED BY <1>1, <1>2

\* Only a 201 tells anything.
LEMMA TellsNothing ==
  ASSUME IInv, NEW r \in Request, Alone(r), pc[r] # "done", answer'[r].status # 201
  PROVE  told' = told
<1>1. answer[r].status = 0
  BY DEF IInv, Placed
<1>2. \A q \in Request : (IF answer'[q].status = 201 THEN answer'[q].rows ELSE {})
                           = (IF answer[q].status = 201 THEN answer[q].rows ELSE {})
  BY <1>1 DEF Alone
<1> QED BY <1>2 DEF told

LEMMA Tells ==
  ASSUME IInv, NEW r \in Request, Alone(r), pc[r] # "done", NEW found,
         answer'[r].status = 201, answer'[r].rows = found
  PROVE  told[r] = {} /\ told' = [told EXCEPT ![r] = found]
<1>1. answer[r].status = 0
  BY DEF IInv, Placed
<1>2. told[r] = {}
  BY <1>1 DEF told
<1>3. \A q \in Request : (IF answer'[q].status = 201 THEN answer'[q].rows ELSE {})
                           = (IF q = r THEN found
                              ELSE IF answer[q].status = 201 THEN answer[q].rows ELSE {})
  BY DEF Alone
<1>4. told' = [q \in Request |-> IF q = r THEN found
                                 ELSE IF answer[q].status = 201 THEN answer[q].rows ELSE {}]
  BY <1>3 DEF told
<1>5. [told EXCEPT ![r] = found]
        = [q \in Request |-> IF q = r THEN found
                             ELSE IF answer[q].status = 201 THEN answer[q].rows ELSE {}]
  <2>1. DOMAIN told = Request
    BY DEF told
  <2>2. \A q \in Request : told[q] = IF answer[q].status = 201 THEN answer[q].rows ELSE {}
    BY DEF told
  <2>3. [told EXCEPT ![r] = found] = [q \in DOMAIN told |-> IF q = r THEN found ELSE told[q]]
    OBVIOUS
  <2>4. \A q \in Request :
          (IF q = r THEN found ELSE told[q])
            = (IF q = r THEN found ELSE IF answer[q].status = 201 THEN answer[q].rows ELSE {})
    BY <2>2
  <2> QED BY ONLY <2>1, <2>3, <2>4
<1> QED BY <1>2, <1>4, <1>5

\* The insert makes the row, and may tell of it at once.
LEMMA StoringMakes ==
  ASSUME PromiseInv, PromiseInv', NEW r \in Request, StoredRow(r), storage # "sqlite",
         UNCHANGED <<storage, tokens, task>>
  PROVE  Abstract!Next
<1>0. TypeOK /\ IInv
  BY DEF PromiseInv, TellInv, IInv
<1>1. /\ pc[r] \in {"create", "insert"} /\ Alone(r)
      /\ rows'[Into(r)] = rows[Into(r)] \cup {New(r)}
      /\ \A t \in Table \ {Into(r)} : rows'[t] = rows[t]
  BY <1>0, Storing
<1>2. /\ Into(r) \in Table /\ New(r).by = r
      /\ \A t \in Table : \A x \in rows[t] : x.by # r
  BY <1>0, <1>1, Fresh
<1>3. /\ made = [q \in Request |-> {row \in UNION {rows[t] : t \in Table} : row.by = q}]
      /\ made' = [q \in Request |-> {row \in UNION {rows'[t] : t \in Table} : row.by = q}]
  BY <1>0, MadeFacts
<1>4. \A x : x \in UNION {rows'[t] : t \in Table}
               <=> x \in UNION {rows[t] : t \in Table} \/ x = New(r)
  <2>1. ASSUME NEW x, NEW t \in Table, x \in rows'[t]
        PROVE  x \in rows[t] \/ x = New(r)
    BY <1>1, <2>1
  <2>2. ASSUME NEW x, NEW t \in Table, x \in rows[t] PROVE x \in rows'[t]
    BY <1>1, <2>2
  <2> QED BY <1>1, <1>2, <2>1, <2>2
<1>5. /\ made[r] = {} /\ made'[r] = {New(r)}
      /\ \A q \in Request \ {r} : made'[q] = made[q]
  <2>1. made[r] = {}
    BY <1>2, <1>3
  <2>2. made'[r] = {New(r)}
    BY <1>2, <1>3, <1>4
  <2>3. ASSUME NEW q \in Request \ {r} PROVE made'[q] = made[q]
    BY <1>2, <1>3, <1>4
  <2> QED BY <2>1, <2>2, <2>3
<1>6. ASSUME NEW p \in Request, NEW q \in Request, p # q,
             NEW x \in made'[p], NEW y \in made'[q]
      PROVE  ~SameKey(x, y)
  <2>1. PICK t \in Table : x \in rows'[t] /\ x.by = p
    BY <1>3
  <2>2. PICK s \in Table : y \in rows'[s] /\ y.by = q
    BY <1>3
  <2>3. \A u \in Table : \A row \in rows'[u] : row.says \in Content(u)
    BY DEF PromiseInv, TellInv, IInv, Sent
  <2>4. ApartIn(rows')
    BY DEF PromiseInv, Apart
  <2> QED BY <1>6, <2>1, <2>2, <2>3, <2>4, NoClash
<1>7. Cardinality(made'[r]) = 1
  BY <1>5, FS_Singleton
<1>8. Abstract!Make(r) \/ told[r] # {}
  BY <1>5, <1>6, <1>7 DEF Abstract!Make, Abstract!Distinct, Abstract!Cardinality, Cardinality
<1>9. CASE Answer(r, 201, {New(r)})
  <2>1. answer'[r].status = 201 /\ answer'[r].rows = {New(r)}
    BY <1>0, <1>9, TypeFacts DEF Answer
  <2>2. told[r] = {} /\ told' = [told EXCEPT ![r] = {New(r)}]
    BY <1>0, <1>1, <2>1, Tells
  <2>3. Abstract!Tell(r, made')
    BY <1>5, <2>2 DEF Abstract!Tell
  <2> QED BY <1>8, <2>2, <2>3 DEF Abstract!Next
<1>10. CASE Refuse(r) \/ Proceed(r, "fetch")
  <2>1. answer'[r].status # 201
    <3>1. CASE Refuse(r)
      BY <1>0, <3>1, RefuseFacts
    <3>2. CASE Proceed(r, "fetch")
      BY <1>0, <1>1, <3>2 DEF Proceed, IInv, Placed
    <3> QED BY <1>10, <3>1, <3>2
  <2>2. told' = told /\ told[r] = {}
    <3>1. told' = told
      BY <1>0, <1>1, <2>1, TellsNothing
    <3>2. answer[r].status = 0
      BY <1>0, <1>1 DEF IInv, Placed
    <3> QED BY <3>1, <3>2 DEF told
  <2> QED BY <1>8, <2>2 DEF Abstract!Next
<1> QED BY <1>9, <1>10 DEF StoredRow

\* The read-back tells of the row that was made, as nobody overtakes here.
LEMMA FetchingTells ==
  ASSUME PromiseInv, NEW r \in Request, Fetched(r), storage # "sqlite",
         UNCHANGED <<storage, tokens, task>>, Alone(r)
  PROVE  Abstract!Next
<1>0. TypeOK /\ IInv /\ Knows(r)
  BY DEF PromiseInv, TellInv, IInv
<1>1. PICK row \in With(Into(r), rowId[r]) : Answer(r, 201, {row})
  BY DEF Fetched, Into
<1>2. pc[r] = "fetch" /\ rows' = rows
  BY DEF Fetched
<1>3. task[r] \in Creating /\ Into(r) \in Table
  BY <1>0, <1>2, Kinds DEF IInv, Placed, Into
<1>4. PICK own \in Own(r) : rowId[r] = own.id
  BY <1>0, <1>2 DEF Knows, Reached
<1>5. row = own
  BY <1>0, <1>3, <1>4 DEF IInv, Numbered, With, Own, Into
<1>6. made[r] = {row} /\ made' = made
  BY <1>0, <1>2, <1>3, <1>4, <1>5, MadeFacts DEF made
<1>7. answer'[r].status = 201 /\ answer'[r].rows = {row}
  BY <1>0, <1>1, TypeFacts DEF Answer
<1>8. told[r] = {} /\ told' = [told EXCEPT ![r] = {row}]
  BY <1>0, <1>2, <1>7, Tells
<1>9. Abstract!Tell(r, made)
  BY <1>6, <1>8 DEF Abstract!Tell
<1> QED BY <1>6, <1>9 DEF Abstract!Next

\* Every step of the services over PostgreSQL or MongoDB makes a row, tells of the
\* row that was made, or does neither.
LEMMA StepsKeepPromise ==
  PromiseInv /\ PromiseInv' /\ [Next]_vars
    => [storage = "sqlite" \/ Abstract!Next]_<<made, told>>
<1> SUFFICES ASSUME PromiseInv, PromiseInv', [Next]_vars, storage # "sqlite"
             PROVE  Abstract!Next \/ UNCHANGED <<made, told>>
  OBVIOUS
<1>0. TypeOK /\ IInv
  BY DEF PromiseInv, TellInv, IInv
<1>1. CASE UNCHANGED vars \/ \E t \in Table : Restart(t)
  BY <1>1 DEF vars, Restart, made, told
<1>2. ASSUME NEW r \in Request, Moves(r) PROVE Abstract!Next \/ UNCHANGED <<made, told>>
  <2>1. Alone(r)
    BY <1>0, <1>2, Moving
  <2>2. CASE ~Create(r)
    <3>1. rows' = rows /\ pc[r] # "done" /\ answer'[r].status # 201
      BY <1>0, <1>2, <2>2, Elsewhere
    <3> QED BY <1>0, <2>1, <3>1, TellsNothing DEF made
  <2>3. CASE Create(r)
    <3>1. UNCHANGED <<storage, tokens, task>>
      BY <1>0, <2>3, CreateSteps
    <3>2. CASE StoredRow(r)
      BY <3>1, <3>2, StoringMakes
    <3>3. CASE Fetched(r)
      BY <2>1, <3>1, <3>3, FetchingTells
    <3>4. CASE Refused(r) \/ Looked(r)
      <4>1. rows' = rows /\ pc[r] # "done"
        BY <3>4 DEF Refused, Looked
      <4>2. answer'[r].status # 201
        <5>1. CASE Refused(r)
          BY <1>0, <5>1, RefuseFacts DEF Refused
        <5>2. CASE Looked(r)
          BY <1>0, <4>1, <5>2 DEF Looked, Proceed, IInv, Placed
        <5> QED BY <3>4, <5>1, <5>2
      <4> QED BY <1>0, <2>1, <4>1, <4>2, TellsNothing DEF made
    <3> QED BY <1>0, <2>3, <3>2, <3>3, <3>4, CreateSteps DEF Renumbered
  <2> QED BY <2>2, <2>3
<1> QED BY <1>1, <1>2, NextMoves

\* The services over PostgreSQL and MongoDB implement module Creation: a creation
\* is carried out at most once, clashes with no other, and a success is answered
\* with the row that was made for it.
THEOREM Implementation == Spec => KeepsPromise
<1>1. Init => Abstract!Init
  <2> SUFFICES ASSUME Init PROVE told = [r \in Request |-> {}]
    BY DEF Abstract!Init
  <2>1. \A r \in Request : answer[r].status = 0
    BY DEF Init, NoAnswer
  <2> QED BY <2>1 DEF told
<1>2. Spec => []PromiseInv
  BY InitPromise, NextPromise, PTL DEF Spec
<1>3. Spec => [][storage = "sqlite" \/ Abstract!Next]_<<made, told>>
  BY <1>2, StepsKeepPromise, PTL DEF Spec
<1> QED BY <1>1, <1>3, PTL DEF Spec, KeepsPromise
=============================================================================
