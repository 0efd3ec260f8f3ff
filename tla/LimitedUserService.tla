------------------------- MODULE LimitedUserService -------------------------
(***************************************************************************)
(* The user service of the fifth homework (5 hw/.../user/handlers.cpp):    *)
(* its four handlers, its cache and its rate limiter as one process.  It   *)
(* is composed of UserService, whose collection and cache it shares with   *)
(* the sixth homework's, of RateLimiter, and of the login they lack.       *)
(*                                                                         *)
(* Every request comes from one peer address, that of the gateway          *)
(* (nginx.conf).  There are no events.  A restart forgets the cache, the   *)
(* requests in flight and the buckets.  The password of a registration is  *)
(* named by its form: no two forms have the same.  Nothing calls Cleanup,  *)
(* so no step does.                                                        *)
(*                                                                         *)
(* Bounds: Request is how many calls there are, MaxTime caps the clock,    *)
(* MaxRestarts the restarts.                                               *)
(***************************************************************************)
EXTENDS Integers, FiniteSets

CONSTANTS
  Request, Form, MaxSize, DefaultTtl, SearchTtl, MaxTime,   \* as in UserService
  Gateway,                 \* the address all requests come from
  Limit, Burst, Window,    \* as in RateLimiter, by endpoint
  MaxRestarts

Endpoint == {"user_reg", "login"}

ASSUME LimitedAssumption ==
  /\ IsFiniteSet(Request) /\ IsFiniteSet(Form)
  /\ \A f \in Form : f = [login |-> f.login, email |-> f.email, name |-> f.name]
  /\ MaxSize \in Nat /\ DefaultTtl \in Nat /\ SearchTtl \in Nat
  /\ Limit \in [Endpoint -> Nat \ {0}] /\ Burst \in [Endpoint -> Nat \ {0}]
  /\ Window \in Nat \ {0} /\ MaxTime \in Nat /\ MaxRestarts \in Nat

VARIABLES
  now, cache, users, pc, task, held, answer, known,  \* as in UserService
  buckets, request, reply, admitted, refusal,        \* as in RateLimiter
  restarts

service == <<cache, users, pc, task, held, answer, known>>
limiter == <<buckets, request, reply, admitted, refusal>>
vars == <<now, service, limiter, restarts>>

S == INSTANCE UserService WITH events <- {}
L == INSTANCE RateLimiter WITH
  Client <- Request, Address <- {Gateway},
  PeerAddress <- [r \in Request |-> Gateway],
  TicksPerSecond <- 1, MaxAdmitted <- Cardinality(Request)

\* Who logs in: a login, and the form whose password is given with it.
Credentials == [login : S!Logins, password : Form]

\* A refused request waits for its headers until it is answered.
TypeOK ==
  /\ now \in 0..MaxTime
  /\ S!Cache!CacheTypeOK
  /\ users \subseteq S!User
  /\ pc \in [Request -> S!Place \cup {"refused", "authenticate"}]
  /\ task \in [Request -> Form \cup S!Key \cup Credentials \cup {S!Nothing}]
  /\ held \in [Request -> S!List \cup {S!Nothing}]
  /\ answer \in [Request -> {0, 200, 201, 400, 401, 404, 409, 429}]
  /\ known \in [Request -> SUBSET S!Logins]
  /\ L!TypeOK
  /\ restarts \in 0..MaxRestarts
  /\ \A r \in Request : pc[r] = "refused" <=> request[r] # L!Idle

Init ==
  /\ S!Init
  /\ L!Init
  /\ restarts = 0

---------------------------------------------------------------------------
\* The limiter's two public operations.

\* CheckUserRegistration and CheckLogin: the request may go on, or waits ...
Check(r, e, goesOn) == IF goesOn THEN L!Admit(r, e) ELSE L!Refuse(r, e)

\* ... for GetRateLimitInfo and is answered 429.
TooManyRequests(r) ==
  /\ pc[r] = "refused"
  /\ L!Inform(r)
  /\ S!Answer(r, 429)
  /\ UNCHANGED <<cache, users, task, held, known, restarts>>

---------------------------------------------------------------------------
\* POST /api/v1/users

\* Variant: the component is not found, which the constructor takes for its absence.
CreateUser_Unlimited(r, f) ==
  /\ S!BeginCreate(r, f)
  /\ UNCHANGED <<limiter, restarts>>

\* The limiter is asked first of all.
CreateUser(r, f) ==
  /\ S!Begin(r, f)
  /\ \/ Check(r, "user_reg", TRUE) /\ S!Proceed(r, "new", "checkLogin")
     \/ Check(r, "user_reg", FALSE) /\ S!Proceed(r, "new", "refused")
  /\ UNCHANGED <<cache, users, held, restarts>>

\* A body that cannot be read or is not valid has used a token up.
MalformedRegistration(r) ==
  /\ pc[r] = "new"
  /\ Check(r, "user_reg", TRUE)
  /\ S!Answer(r, 400)
  /\ UNCHANGED <<cache, users, task, held, known, restarts>>

\* Database::CreateUser: its two queries and its insert, to the user or to none.
StoreUser(r) ==
  /\ \/ S!CheckLogin(r)
     \/ S!CheckEmail(r)
     \/ /\ S!Store(r)
        /\ S!Proceed(r, "insert", "invalidate")
        /\ UNCHANGED <<now, cache, task, held, known>>
     \/ S!InsertUnacknowledged(r)
  /\ UNCHANGED <<limiter, restarts>>

UserExists(r) == S!Conflict(r) /\ UNCHANGED <<limiter, restarts>>

Created(r) == S!Invalidate(r) /\ UNCHANGED <<limiter, restarts>>

---------------------------------------------------------------------------
\* GET /api/v1/users/by-login and /search, which nothing limits.

FindUserByLogin(r, l) ==
  /\ S!Hit(r, S!LoginKey(l)) \/ S!Missed(r, S!LoginKey(l))
  /\ UNCHANGED <<limiter, restarts>>

SearchUsersByName(r, name) ==
  LET mask == [kind |-> "search", of |-> name] IN
  /\ S!Hit(r, mask) \/ S!Missed(r, mask)
  /\ UNCHANGED <<limiter, restarts>>

\* The query, which finds nobody if it fails, and the cache.
ReadUsers(r) ==
  /\ \E failed \in BOOLEAN : S!Read(r, failed)
  /\ UNCHANGED <<limiter, restarts>>

CacheUsers(r) == S!Fill(r) /\ UNCHANGED <<limiter, restarts>>

---------------------------------------------------------------------------
\* POST /api/v1/auth/login

\* Nobody logs in with a body that cannot be read or misses a field, and nobody
\* finds or searches without saying whom.
Malformed(r) ==
  /\ pc[r] = "new"
  /\ S!Answer(r, 400)
  /\ UNCHANGED <<now, cache, users, task, held, known, limiter, restarts>>

Login(r, c) ==
  /\ S!Begin(r, c)
  /\ \/ Check(r, "login", TRUE) /\ S!Proceed(r, "new", "authenticate")
     \/ Check(r, "login", FALSE) /\ S!Proceed(r, "new", "refused")
  /\ UNCHANGED <<cache, users, held, restarts>>

\* Variant: the hash is left out of the query.
WithCredentials_AnyPassword(c) == {u \in users : u.form.login = c.login}

\* One query for the login and the hash of the password together.
WithCredentials(c) == {u \in users : u.form.login = c.login /\ u.form = c.password}

\* 200 and a token for the user found, or 401 for nobody or a query that failed.
Authenticate(r, failed) ==
  LET found == IF failed THEN {} ELSE WithCredentials(task[r])
  IN /\ pc[r] = "authenticate"
     /\ held' = [held EXCEPT ![r] = [found |-> found, readAt |-> now,
                                     filledAt |-> now, failed |-> failed]]
     /\ S!Answer(r, IF found = {} THEN 401 ELSE 200)
     /\ UNCHANGED <<now, cache, users, task, known, limiter, restarts>>

---------------------------------------------------------------------------
\* Variant: the refused requests are remembered where the buckets are not.
Restart_Waiting ==
  /\ restarts < MaxRestarts
  /\ restarts' = restarts + 1
  /\ pc' = [r \in Request |-> IF pc[r] = "new" THEN "new" ELSE "done"]
  /\ S!Cache!Clear
  /\ buckets' = [k \in L!Key |-> L!NoBucket]
  /\ UNCHANGED <<now, users, task, held, answer, known, request, reply, admitted, refusal>>

\* The process stops and starts again.
Restart ==
  /\ restarts < MaxRestarts
  /\ restarts' = restarts + 1
  /\ pc' = [r \in Request |-> IF pc[r] = "new" THEN "new" ELSE "done"]
  /\ S!Cache!Clear
  /\ buckets' = [k \in L!Key |-> L!NoBucket]
  /\ request' = [r \in Request |-> L!Idle]
  /\ UNCHANGED <<now, users, task, held, answer, known, reply, admitted, refusal>>

Tick == L!Tick /\ UNCHANGED <<service, restarts>>

Next ==
  \/ \E r \in Request :
       \/ \E f \in Form : CreateUser(r, f)
       \/ MalformedRegistration(r) \/ StoreUser(r) \/ UserExists(r) \/ Created(r)
       \/ \E l \in S!Logins : FindUserByLogin(r, l)
       \/ \E f \in Form : SearchUsersByName(r, f.name)
       \/ ReadUsers(r) \/ CacheUsers(r)
       \/ \E c \in Credentials : Login(r, c)
       \/ Malformed(r) \/ TooManyRequests(r)
       \/ \E failed \in BOOLEAN : Authenticate(r, failed)
  \/ Restart
  \/ Tick

Spec == Init /\ [][Next]_vars

---------------------------------------------------------------------------
\* What the service promises.

\* The attempts to log in that the database has been asked about.
LoginsTried == {r \in Request : task[r] \in Credentials /\ answer[r] \in {200, 401}}

\* What Burst at each start, and Limit in every Window, let through by now.
Within(e, n) == n * Window <= Burst[e] * Window * (1 + restarts) + Limit[e] * now

\* WorkBound.  The limiter does not only count: what stands behind it is bounded.
\* However requests, queries, ticks and restarts interleave, no more users are
\* registered and no more passwords tried than the limits allow, where a restart
\* gives every endpoint its burst once more, for the buckets are in memory.
WorkBound ==
  /\ Within("user_reg", Cardinality(users))
  /\ Within("login", Cardinality(LoginsTried))

LoggedIn(r, l) == task[r] \in Credentials /\ task[r].login = l /\ answer[r] = 200

\* LoginAgrees.  A token is that of the user whom every find of the login names,
\* from the collection or the cache, before or after a restart, and only whoever
\* gives its password has it; and who registered before is not turned away with
\* it but by the limiter or by a query that failed.
LoginAgrees ==
  \A r \in Request : task[r] \in Credentials =>
    /\ \A s \in Request :
         LoggedIn(r, task[r].login) /\ S!FoundByLogin(s, task[r].login) =>
           held[s].found = held[r].found
    /\ answer[r] = 200 => \A u \in held[r].found : u \in users /\ u.form = task[r].password
    /\ answer[r] = 401 /\ ~held[r].failed /\ task[r].login \in known[r] =>
         \A u \in users : u.form.login = task[r].login => u.form # task[r].password

\* What was stored for a registration, and whom its 201 named.
made == [r \in Request |-> S!Own(r)]
told == [r \in Request |-> IF r \in S!Created THEN S!Own(r) ELSE {}]

SameLoginOrEmail(u, v) == u.form.login = v.form.login \/ u.form.email = v.form.email

Abstract == INSTANCE Creation WITH Clash <- SameLoginOrEmail

\* KeepsPromise.  With the limiter before it and without events behind it a
\* registration still keeps what module Creation promises: two that race for a
\* login or an e-mail never both get it, each is stored once, and a 201 comes
\* after its user.
KeepsPromise == Abstract!Init /\ [][Abstract!Next]_<<made, told>>
=============================================================================
