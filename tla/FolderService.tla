--------------------------- MODULE FolderService ---------------------------
(***************************************************************************)
(* The folder service: the handlers that create and list folders           *)
(* (src/folder/handlers.cpp) over the folders collection (src/common/      *)
(* database.cpp) and the folder cache (cache_component.hpp).                *)
(*                                                                         *)
(* The handlers use the cache if the program registers one.  The program's *)
(* main.cpp does not today, although they and their design expect it, so   *)
(* both are modelled; nothing changes while the process runs.              *)
(*                                                                         *)
(* As in UserService, every call that waits is an action, may fail with or *)
(* without effect, and may be overtaken; the token has been checked and    *)
(* requests answered with 400 or 401 touch nothing of this.                *)
(*                                                                         *)
(* Bounds: Request is how many calls there are, MaxTime caps the clock.    *)
(***************************************************************************)
EXTENDS Integers, FiniteSets

CONSTANTS
  Request,      \* the calls
  User, Name,   \* who asks, and how a folder may be called
  MaxSize,      \* entries the folder cache holds
  FolderTtl,    \* the lifetime of a list in the cache
  MaxTime

ASSUME FolderAssumption ==
  /\ IsFiniteSet(Request) /\ IsFiniteSet(User)
  /\ MaxSize \in Nat /\ FolderTtl \in Nat /\ MaxTime \in Nat

VARIABLES
  now,       \* the clock
  hasCache,  \* whether main.cpp registers a CacheComponent
  cache,     \* the folder cache; a key is the user the list is for
  folders,   \* the folders collection
  events,    \* the folders whose FolderCreated event the broker has
  pc,        \* request -> the call it is about to make
  task,      \* request -> the user and, for a creation, the name
  held,      \* request -> the list it has read or is answered with
  answer,    \* request -> status of its response, 0 while there is none
  ended,     \* history: request -> when it was answered
  known      \* history: request -> the creations answered before it began

vars == <<now, hasCache, cache, folders, events, pc, task, held, answer, ended, known>>

\* A folder's id is the request that inserted it.
Folder == [id : Request, user : User, name : Name, when : 0..MaxTime]

\* A serialised list, with the history of the read it comes from.
List == [found : SUBSET Folder, readAt : 0..MaxTime, filledAt : 0..MaxTime,
         failed : BOOLEAN]
Nothing == [failed |-> FALSE]

Cache == INSTANCE InMemoryCache WITH Key <- User, Value <- List

TypeOK ==
  /\ now \in 0..MaxTime
  /\ hasCache \in BOOLEAN
  /\ Cache!CacheTypeOK
  /\ folders \subseteq Folder
  /\ events \subseteq Folder
  /\ pc \in [Request -> {"new", "insert", "reread", "publish", "invalidate",
                         "read", "fill", "done"}]
  /\ task \in [Request -> [user : User, name : Name] \cup [user : User] \cup {Nothing}]
  /\ held \in [Request -> List \cup {Nothing}]
  /\ answer \in [Request -> {0, 200, 201, 409, 500}]
  /\ ended \in [Request -> 0..MaxTime]
  /\ known \in [Request -> SUBSET Request]

Init ==
  /\ now = 0
  /\ hasCache \in BOOLEAN
  /\ Cache!CacheInit
  /\ folders = {}
  /\ events = {}
  /\ pc = [r \in Request |-> "new"]
  /\ task = [r \in Request |-> Nothing]
  /\ held = [r \in Request |-> Nothing]
  /\ answer = [r \in Request |-> 0]
  /\ ended = [r \in Request |-> 0]
  /\ known = [r \in Request |-> {}]

Begin(r, what) ==
  /\ pc[r] = "new"
  /\ task' = [task EXCEPT ![r] = what]
  /\ known' = [known EXCEPT ![r] = {c \in Request : answer[c] = 201}]

Proceed(r, from, to) ==
  /\ pc[r] = from
  /\ pc' = [pc EXCEPT ![r] = to]
  /\ UNCHANGED <<answer, ended>>

Answer(r, status) ==
  /\ pc' = [pc EXCEPT ![r] = "done"]
  /\ answer' = [answer EXCEPT ![r] = status]
  /\ ended' = [ended EXCEPT ![r] = now]

---------------------------------------------------------------------------
\* POST /api/v1/folders

BeginCreate(r, u, n) ==
  /\ Begin(r, [user |-> u, name |-> n])
  /\ Proceed(r, "new", "insert")
  /\ UNCHANGED <<now, hasCache, cache, folders, events, held>>

\* Variant: the conflict is reported as a malformed request.
Conflict_BadRequest(r) ==
  /\ pc[r] \in {"insert", "reread"}
  /\ Answer(r, 400)
  /\ UNCHANGED <<now, hasCache, cache, folders, events, task, held, known>>

\* 409: the insert met the unique index or threw without effect, or the folder
\* could not be read back.  In the last case it has been created all the same.
Conflict(r) ==
  /\ pc[r] \in {"insert", "reread"}
  /\ Answer(r, 409)
  /\ UNCHANGED <<now, hasCache, cache, folders, events, task, held, known>>

\* The unique index on folders.userId and folders.name (init-mongo.js).
Indexed(t) == \A f \in folders : f.user # t.user \/ f.name # t.name

Store(r) ==
  /\ pc[r] = "insert"
  /\ Indexed(task[r])
  /\ folders' = folders \cup {[id |-> r, user |-> task[r].user,
                               name |-> task[r].name, when |-> now]}

Insert(r) ==
  /\ Store(r)
  /\ Proceed(r, "insert", "reread")
  /\ UNCHANGED <<now, hasCache, cache, events, task, held, known>>

\* The insert took effect but its acknowledgement was lost: also a 409.
InsertUnacknowledged(r) ==
  /\ Store(r)
  /\ Answer(r, 409)
  /\ UNCHANGED <<now, hasCache, cache, events, task, held, known>>

Own(r) == {f \in folders : f.id = r}

Reread(r) ==
  /\ Own(r) # {}
  /\ Proceed(r, "reread", "publish")
  /\ UNCHANGED <<now, hasCache, cache, folders, events, task, held, known>>

Publish(r) ==
  /\ Proceed(r, "publish", "invalidate")
  /\ events' = events \cup Own(r)
  /\ UNCHANGED <<now, hasCache, cache, folders, task, held, known>>

\* Variant: the exception is caught and not thrown again.
PublishFails_Swallowed(r) ==
  /\ Proceed(r, "publish", "invalidate")
  /\ events' \in {events, events \cup Own(r)}
  /\ UNCHANGED <<now, hasCache, cache, folders, task, held, known>>

\* PublishReliable throws, with or without the broker having the event: 500,
\* and the cached list is not invalidated.
PublishFails(r) ==
  /\ pc[r] = "publish"
  /\ Answer(r, 500)
  /\ events' \in {events, events \cup Own(r)}
  /\ UNCHANGED <<now, hasCache, cache, folders, task, held, known>>

\* Variant: the handler forgets to invalidate.
Invalidate_Forgotten(r) ==
  /\ pc[r] = "invalidate"
  /\ Answer(r, 201)
  /\ UNCHANGED <<now, hasCache, cache, folders, events, task, held, known>>

Invalidate(r) ==
  /\ pc[r] = "invalidate"
  /\ IF hasCache THEN Cache!Invalidate(task[r].user) ELSE UNCHANGED cache
  /\ Answer(r, 201)
  /\ UNCHANGED <<now, hasCache, folders, events, task, held, known>>

---------------------------------------------------------------------------
\* GET /api/v1/folders

Hit(r, u) ==
  /\ hasCache
  /\ Begin(r, [user |-> u])
  /\ Cache!Lookup(u) # Cache!Miss
  /\ Cache!Get(u)
  /\ held' = [held EXCEPT ![r] = Cache!Lookup(u)]
  /\ Answer(r, 200)
  /\ UNCHANGED <<now, hasCache, folders, events>>

Missed(r, u) ==
  /\ Begin(r, [user |-> u])
  /\ IF hasCache THEN Cache!Lookup(u) = Cache!Miss /\ Cache!Get(u)
                 ELSE UNCHANGED cache
  /\ Proceed(r, "new", "read")
  /\ UNCHANGED <<now, hasCache, folders, events, held>>

\* A query that throws reads like one that finds nothing.
Read(r, failed) ==
  /\ Proceed(r, "read", "fill")
  /\ held' = [held EXCEPT ![r] =
       [found |-> {f \in folders : ~ failed /\ f.user = task[r].user},
        readAt |-> now, filledAt |-> now, failed |-> failed]]
  /\ UNCHANGED <<now, hasCache, cache, folders, events, task, known>>

\* Variant: an entry lives for two lifetimes.
Lifetime_Twice == 2 * FolderTtl

Lifetime == FolderTtl

Fill(r) ==
  LET list == [held[r] EXCEPT !.filledAt = now]
  IN /\ pc[r] = "fill"
     /\ IF hasCache THEN Cache!Put(task[r].user, list, Lifetime)
                    ELSE UNCHANGED cache
     /\ held' = [held EXCEPT ![r] = list]
     /\ Answer(r, 200)
     /\ UNCHANGED <<now, hasCache, folders, events, task, known>>

---------------------------------------------------------------------------
InFlight == {r \in Request : pc[r] \notin {"new", "done"}}

\* The process stops and starts again.
Restart ==
  /\ InFlight # {} \/ Cache!Cached(cache) # {}
  /\ pc' = [r \in Request |-> IF r \in InFlight THEN "done" ELSE pc[r]]
  /\ Cache!Clear
  /\ UNCHANGED <<now, hasCache, folders, events, task, held, answer, ended, known>>

Tick ==
  /\ now < MaxTime
  /\ now' = now + 1
  /\ UNCHANGED <<hasCache, cache, folders, events, pc, task, held, answer, ended, known>>

Next ==
  \/ \E r \in Request :
       \/ \E u \in User, n \in Name : BeginCreate(r, u, n)
       \/ Conflict(r) \/ Insert(r) \/ InsertUnacknowledged(r) \/ Reread(r)
       \/ Publish(r) \/ PublishFails(r) \/ Invalidate(r)
       \/ \E u \in User : Hit(r, u) \/ Missed(r, u)
       \/ \E failed \in BOOLEAN : Read(r, failed)
       \/ Fill(r)
  \/ Restart
  \/ Tick

Spec == Init /\ [][Next]_vars

---------------------------------------------------------------------------
\* What the service promises.

\* CreatedIsDurable.  Whoever has been told 201 has a folder in the collection
\* and its event at the broker, whatever failed for others or restarted since.
CreatedIsDurable ==
  \A r \in Request : answer[r] = 201 =>
    \E f \in folders \cap events : f.id = r /\ f.name = task[r].name

Listed(r) == answer[r] = 200

\* StaleOnlyIfOvertaken.  A list that begins after the 201 for a folder of the
\* same user misses it only if its content was read earlier, or by a query
\* that failed, and stored after that 201: an entry older than the 201 is gone
\* by then, and without a cache only the failed query is left.
StaleOnlyIfOvertaken ==
  \A r \in Request : \A c \in known[r] :
    (Listed(r) /\ task[r].user = task[c].user /\ ~ (Own(c) \subseteq held[r].found)) =>
      /\ ended[c] <= held[r].filledAt
      /\ \/ held[r].failed
         \/ hasCache /\ (\A f \in Own(c) : held[r].readAt <= f.when)

\* StaleNoLongerThanTtl.  And it is missed for no longer than the lifetime of
\* the entry: whatever the race put there is replaced by then.
StaleNoLongerThanTtl ==
  [][\A r \in Request :
       (/\ answer[r] = 0 /\ answer'[r] = 200
        /\ ~ ({f \in folders : f.user = task'[r].user} \subseteq held'[r].found))
       => now <= held'[r].filledAt + FolderTtl]_vars
=============================================================================
