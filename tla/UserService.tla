---------------------------- MODULE UserService ----------------------------
(***************************************************************************)
(* The user service: the handlers that create, find and search users       *)
(* (src/user/handlers.cpp) over the users collection (src/common/          *)
(* database.cpp) and the user cache (cache_component.hpp).                  *)
(*                                                                         *)
(* Every request runs in a coroutine of its own and can be overtaken at    *)
(* each call that waits: each query, the publication, the cache's mutex.   *)
(* Each such call is one action.  A query, an insert or a publication may  *)
(* also fail, with or without having taken effect.  A restart forgets the  *)
(* requests in flight and the cache.                                       *)
(*                                                                         *)
(* Requests refused with 400 or 429 touch nothing of this; the rate        *)
(* limiter is a module of its own.  A request is used for one call.        *)
(*                                                                         *)
(* Bounds: Request is how many calls there are, MaxTime caps the clock.    *)
(***************************************************************************)
EXTENDS Integers, FiniteSets

CONSTANTS
  Request,                \* the calls
  Form,                   \* what a registration may say: login, email, name
  MaxSize,                \* entries the user cache holds
  DefaultTtl, SearchTtl,  \* lifetimes of a user and of a list in the cache
  MaxTime

ASSUME ServiceAssumption ==
  /\ IsFiniteSet(Request) /\ IsFiniteSet(Form)
  /\ \A f \in Form : f = [login |-> f.login, email |-> f.email, name |-> f.name]
  /\ MaxSize \in Nat /\ DefaultTtl \in Nat /\ SearchTtl \in Nat /\ MaxTime \in Nat

VARIABLES
  now,      \* the clock
  cache,    \* the user cache
  users,    \* the users collection
  events,   \* the users whose UserCreated event the broker has
  pc,       \* request -> the call it is about to make
  task,     \* request -> the form or the cache key it is about
  held,     \* request -> the list it has read or is answered with
  answer,   \* request -> status of its response, 0 while there is none
  known     \* history: request -> the logins acknowledged before it began

vars == <<now, cache, users, events, pc, task, held, answer, known>>

Logins == {f.login : f \in Form}
LoginKey(l) == [kind |-> "login", of |-> l]
Key == {LoginKey(l) : l \in Logins}
         \cup [kind : {"search"}, of : {f.name : f \in Form}]

\* A user's id is the request that inserted it.  When is the insert's instant.
User == [id : Request, form : Form, when : 0..MaxTime]

\* What is read, cached and answered, with its history: when it was read and
\* put into the cache, and whether the query failed.
List == [found : SUBSET User, readAt : 0..MaxTime, filledAt : 0..MaxTime,
         failed : BOOLEAN]
Nothing == [failed |-> FALSE]

Cache == INSTANCE InMemoryCache WITH Value <- List

Place == {"new", "checkLogin", "checkEmail", "insert", "publish", "invalidate",
          "read", "fill", "done"}

TypeOK ==
  /\ now \in 0..MaxTime
  /\ Cache!CacheTypeOK
  /\ users \subseteq User
  /\ events \subseteq User
  /\ pc \in [Request -> Place]
  /\ task \in [Request -> Form \cup Key \cup {Nothing}]
  /\ held \in [Request -> List \cup {Nothing}]
  /\ answer \in [Request -> {0, 200, 201, 404, 409, 500}]
  /\ known \in [Request -> SUBSET Logins]

Created == {r \in Request : answer[r] = 201}

Begin(r, what) ==
  /\ pc[r] = "new"
  /\ task' = [task EXCEPT ![r] = what]
  /\ known' = [known EXCEPT ![r] = {task[c].login : c \in Created}]

\* The request makes the call it is at and goes on to the next ...
Proceed(r, from, to) ==
  /\ pc[r] = from
  /\ pc' = [pc EXCEPT ![r] = to]
  /\ UNCHANGED answer

\* ... or is answered.
Answer(r, status) ==
  /\ pc' = [pc EXCEPT ![r] = "done"]
  /\ answer' = [answer EXCEPT ![r] = status]

Init ==
  /\ now = 0
  /\ Cache!CacheInit
  /\ users = {}
  /\ events = {}
  /\ pc = [r \in Request |-> "new"]
  /\ task = [r \in Request |-> Nothing]
  /\ held = [r \in Request |-> Nothing]
  /\ answer = [r \in Request |-> 0]
  /\ known = [r \in Request |-> {}]

---------------------------------------------------------------------------
\* POST /api/v1/users

BeginCreate(r, f) ==
  /\ Begin(r, f)
  /\ Proceed(r, "new", "checkLogin")
  /\ UNCHANGED <<now, cache, users, events, held>>

CheckLogin(r) ==
  /\ Proceed(r, "checkLogin", "checkEmail")
  /\ \A u \in users : u.form.login # task[r].login
  /\ UNCHANGED <<now, cache, users, events, task, held, known>>

CheckEmail(r) ==
  /\ Proceed(r, "checkEmail", "insert")
  /\ \A u \in users : u.form.email # task[r].email
  /\ UNCHANGED <<now, cache, users, events, task, held, known>>

\* Variant: the conflict is reported as a malformed request.
Conflict_BadRequest(r) ==
  /\ pc[r] \in {"checkLogin", "checkEmail", "insert"}
  /\ Answer(r, 400)
  /\ UNCHANGED <<now, cache, users, events, task, held, known>>

\* 409: the user was found, the insert met a unique index, or a query or the
\* insert threw without effect.  Database::CreateUser does not tell these apart.
Conflict(r) ==
  /\ pc[r] \in {"checkLogin", "checkEmail", "insert"}
  /\ Answer(r, 409)
  /\ UNCHANGED <<now, cache, users, events, task, held, known>>

Mine(r) == [id |-> r, form |-> task[r], when |-> now]

\* Variant: the collection was made without init-mongo.js.
Indexed_NoIndex(f) == TRUE

\* The unique indexes on users.login and users.email (init-mongo.js).
Indexed(f) ==
  \A u \in users : u.form.login # f.login /\ u.form.email # f.email

Store(r) ==
  /\ pc[r] = "insert"
  /\ Indexed(task[r])
  /\ users' = users \cup {Mine(r)}

\* Variant: nobody looks at the result of the insert.
Insert_Unchecked(r) ==
  /\ Store(r) \/ (pc[r] = "insert" /\ UNCHANGED users)
  /\ Proceed(r, "insert", "publish")
  /\ UNCHANGED <<now, cache, events, task, held, known>>

Insert(r) ==
  /\ Store(r)
  /\ Proceed(r, "insert", "publish")
  /\ UNCHANGED <<now, cache, events, task, held, known>>

\* The insert took effect but its acknowledgement was lost: also a 409.
InsertUnacknowledged(r) ==
  /\ Store(r)
  /\ Answer(r, 409)
  /\ UNCHANGED <<now, cache, events, task, held, known>>

\* The user CreateUser returned, whose event is published.
Own(r) == {u \in users : u.id = r}

Publish(r) ==
  /\ Proceed(r, "publish", "invalidate")
  /\ events' = events \cup Own(r)
  /\ UNCHANGED <<now, cache, users, task, held, known>>

\* Variant: the exception is caught and not thrown again.
PublishFails_Swallowed(r) ==
  /\ Proceed(r, "publish", "invalidate")
  /\ events' \in {events, events \cup Own(r)}
  /\ UNCHANGED <<now, cache, users, task, held, known>>

\* PublishReliable throws, with or without the broker having the event: 500.
PublishFails(r) ==
  /\ pc[r] = "publish"
  /\ Answer(r, 500)
  /\ events' \in {events, events \cup Own(r)}
  /\ UNCHANGED <<now, cache, users, task, held, known>>

Invalidate(r) ==
  /\ pc[r] = "invalidate"
  /\ Cache!Invalidate(LoginKey(task[r].login))
  /\ Answer(r, 201)
  /\ UNCHANGED <<now, users, events, task, held, known>>

---------------------------------------------------------------------------
\* GET /api/v1/users/by-login and /search

Hit(r, k) ==
  /\ Begin(r, k)
  /\ Cache!Lookup(k) # Cache!Miss
  /\ Cache!Get(k)
  /\ held' = [held EXCEPT ![r] = Cache!Lookup(k)]
  /\ Answer(r, 200)
  /\ UNCHANGED <<now, users, events>>

Missed(r, k) ==
  /\ Begin(r, k)
  /\ Cache!Lookup(k) = Cache!Miss
  /\ Cache!Get(k)
  /\ Proceed(r, "new", "read")
  /\ UNCHANGED <<now, users, events, held>>

Matching(k) ==
  {u \in users : IF k.kind = "login" THEN u.form.login = k.of
                                    ELSE u.form.name = k.of}

\* A query that throws reads like one that finds nobody.
Read(r, failed) ==
  LET found == IF failed THEN {} ELSE Matching(task[r])
  IN /\ pc[r] = "read"
     /\ held' = [held EXCEPT ![r] =
                   [found |-> found, readAt |-> now, filledAt |-> now,
                    failed |-> failed]]
     /\ IF task[r].kind = "login" /\ found = {}
          THEN Answer(r, 404)
          ELSE Proceed(r, "read", "fill")
     /\ UNCHANGED <<now, cache, users, events, task, known>>

\* Variant: the search forgets to give its own lifetime.
Ttl_Default(k) == DefaultTtl

Ttl(k) == IF k.kind = "search" THEN SearchTtl ELSE DefaultTtl

Fill(r) ==
  LET list == [held[r] EXCEPT !.filledAt = now]
  IN /\ pc[r] = "fill"
     /\ Cache!Put(task[r], list, Ttl(task[r]))
     /\ held' = [held EXCEPT ![r] = list]
     /\ Answer(r, 200)
     /\ UNCHANGED <<now, users, events, task, known>>

---------------------------------------------------------------------------
InFlight == {r \in Request : pc[r] \notin {"new", "done"}}

\* The process stops and starts again.
Restart ==
  /\ InFlight # {} \/ Cache!Cached(cache) # {}
  /\ pc' = [r \in Request |-> IF r \in InFlight THEN "done" ELSE pc[r]]
  /\ Cache!Clear
  /\ UNCHANGED <<now, users, events, task, held, answer, known>>

Tick ==
  /\ now < MaxTime
  /\ now' = now + 1
  /\ UNCHANGED <<cache, users, events, pc, task, held, answer, known>>

Next ==
  \/ \E r \in Request :
       \/ \E f \in Form : BeginCreate(r, f)
       \/ CheckLogin(r) \/ CheckEmail(r) \/ Conflict(r)
       \/ Insert(r) \/ InsertUnacknowledged(r)
       \/ Publish(r) \/ PublishFails(r) \/ Invalidate(r)
       \/ \E k \in Key : Hit(r, k) \/ Missed(r, k)
       \/ \E failed \in BOOLEAN : Read(r, failed)
       \/ Fill(r)
  \/ Restart
  \/ Tick

Spec == Init /\ [][Next]_vars

---------------------------------------------------------------------------
\* What the service promises.

Identity(r, f) == [id |-> r, login |-> f.login, email |-> f.email]

R == INSTANCE Registry WITH
  Applicant    <- {Identity(r, f) : r \in Request, f \in Form},
  registered   <- {Identity(u.id, u.form) : u \in users},
  announced    <- {Identity(u.id, u.form) : u \in events},
  acknowledged <- {Identity(r, task[r]) : r \in Created}

\* ImplementsRegistry.  However registrations, failures and restarts
\* interleave, the service behaves like the registry: two racing checks never
\* let a login or an e-mail in twice, and 201 comes after the event, which
\* comes after the user.
ImplementsRegistry == R!Spec

FoundByLogin(r, l) == task[r] = LoginKey(l) /\ answer[r] = 200

\* OneIdentity.  Whoever is told about a login, by a 201, by the database or by
\* the cache, before or after a restart, is told of the same stored user.
OneIdentity ==
  \A l \in Logins : \A r \in Request : FoundByLogin(r, l) =>
    /\ \E u \in users : held[r].found = {u} /\ u.form.login = l
    /\ \A s \in Request :
         /\ FoundByLogin(s, l) => held[s].found = held[r].found
         /\ (s \in Created /\ task[s].login = l) => Own(s) = held[r].found

\* ReadYourRegistration.  A find that begins after the 201 for its login never
\* answers 404, unless its own query failed: the cache keeps no stale absence.
ReadYourRegistration ==
  \A r \in Request :
    (answer[r] = 404 /\ ~ held[r].failed) => task[r].of \notin known[r]

\* SearchStaleness.  A search, answered from the cache or not, misses a stored
\* user only if the list was read before the user was stored or by a query that
\* failed, and in either case no later than SearchTtl after it was cached:
\* nothing invalidates a search, so its lifetime is all that corrects it.
SearchStaleness ==
  [][\A r \in Request :
       (/\ answer[r] = 0 /\ answer'[r] = 200
        /\ task'[r].kind = "search"
        /\ Matching(task'[r]) \ held'[r].found # {})
       => LET list == held'[r] IN
          /\ \/ list.failed
             \/ \A u \in Matching(task'[r]) \ list.found : list.readAt <= u.when
          /\ now <= list.filledAt + SearchTtl]_vars
=============================================================================
