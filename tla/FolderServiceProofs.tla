------------------------- MODULE FolderServiceProofs -------------------------
(* Proofs about FolderService, for any calls, users, names, lifetime and    *)
(* cache size, with and without the cache.                                  *)
EXTENDS FolderService, TLAPS

\* What a request does next, as in Next.
StepOf(r) ==
  \/ \E u \in User, n \in Name : BeginCreate(r, u, n)
  \/ Conflict(r) \/ Insert(r) \/ InsertUnacknowledged(r) \/ Reread(r)
  \/ Publish(r) \/ PublishFails(r) \/ Invalidate(r)
  \/ \E u \in User : Hit(r, u) \/ Missed(r, u)
  \/ \E failed \in BOOLEAN : Read(r, failed)
  \/ Fill(r)

LEMMA NextSteps ==
  [Next]_vars => (\E r \in Request : StepOf(r)) \/ Restart \/ Tick \/ UNCHANGED vars
BY DEF Next, StepOf

---------------------------------------------------------------------------
\* What the cache's operations do to its entries.

\* Nothing enters the cache.
Shrinks ==
  /\ cache' \in [User -> Cache!Entry \cup {Cache!Absent}]
  /\ \A u \in User : cache'[u] = cache[u] \/ cache'[u] = Cache!Absent

LEMMA EntryIsPresent == ASSUME NEW e \in Cache!Entry PROVE e # Cache!Absent
BY DEF Cache!Entry, Cache!Absent

LEMMA CacheShrinks ==
  ASSUME Cache!CacheTypeOK,
         \/ UNCHANGED cache \/ Cache!Clear
         \/ \E u \in User : Cache!Get(u) \/ Cache!Invalidate(u)
  PROVE  Shrinks
<1>1. \/ cache' = cache \/ \E ks : cache' = Cache!Without(cache, ks)
  BY DEF Cache!Clear, Cache!Get, Cache!Invalidate
<1> QED BY <1>1 DEF Cache!CacheTypeOK, Cache!Without, Shrinks

\* Only what is put enters the cache, and it need not stay.
LEMMA CachePut ==
  ASSUME Cache!CacheTypeOK, NEW k \in User, NEW v \in List, NEW ttl \in Nat,
         Cache!Put(k, v, ttl)
  PROVE  /\ cache' \in [User -> Cache!Entry \cup {Cache!Absent}]
         /\ \A u \in User : \/ cache'[u] = cache[u] \/ cache'[u] = Cache!Absent
                            \/ u = k /\ cache'[u] = [value |-> v, expiry |-> now + ttl]
<1> DEFINE new == [value |-> v, expiry |-> now + ttl]
           grown == [cache EXCEPT ![k] = new]
<1>1. new \in Cache!Entry
  BY DEF Cache!CacheTypeOK, Cache!Entry
<1>2. /\ grown \in [User -> Cache!Entry \cup {Cache!Absent}]
      /\ \A u \in User : grown[u] = cache[u] \/ (u = k /\ grown[u] = new)
  BY <1>1 DEF Cache!CacheTypeOK
<1>3. cache' = grown \/ \E old : cache' = Cache!Without(grown, {old})
  BY DEF Cache!Put
<1> QED BY <1>2, <1>3 DEF Cache!Without

---------------------------------------------------------------------------
\* Types, and what the place of a request says about its task and its list.

Creating == {"insert", "reread", "publish", "invalidate"}
Reading  == {"read", "fill"}

Creation == [user : User, name : Name]
Question == [user : User]

Placed(r) ==
  /\ pc[r] \in Creating => task[r] \in Creation
  /\ pc[r] \in Reading => task[r] \in Question
  /\ pc[r] = "fill" => held[r] \in List
  /\ answer[r] # 0 => pc[r] = "done"
  /\ answer[r] = 200 => task[r] \in Question /\ held[r] \in List
  /\ answer[r] = 201 => task[r] \in Creation

TypeInv == TypeOK /\ \A r \in Request : Placed(r)

LEMMA TypeInit == Init => TypeInv
<1> SUFFICES ASSUME Init PROVE TypeInv
  OBVIOUS
<1>1. now \in 0..MaxTime /\ hasCache \in BOOLEAN /\ Cache!CacheTypeOK
  BY FolderAssumption DEF Init, Cache!CacheInit, Cache!CacheTypeOK
<1>2. ended \in [Request -> 0..MaxTime]
  BY FolderAssumption DEF Init
<1>3. /\ folders \subseteq Folder /\ events \subseteq Folder
      /\ pc \in [Request -> {"new", "insert", "reread", "publish", "invalidate",
                             "read", "fill", "done"}]
      /\ task \in [Request -> [user : User, name : Name] \cup [user : User] \cup {Nothing}]
      /\ held \in [Request -> List \cup {Nothing}]
      /\ answer \in [Request -> {0, 200, 201, 409, 500}]
      /\ known \in [Request -> SUBSET Request]
  BY DEF Init
<1>4. \A r \in Request : Placed(r)
  BY DEF Init, Placed, Creating, Reading
<1> QED BY <1>1, <1>2, <1>3, <1>4 DEF TypeInv, TypeOK

\* A stored list is one a query can give.
LEMMA EntryFact ==
  ASSUME Cache!CacheTypeOK, NEW u \in User, cache[u] # Cache!Absent
  PROVE  cache[u].value \in List /\ cache[u].expiry \in Nat
BY DEF Cache!CacheTypeOK, Cache!Entry

LEMMA HitFact ==
  ASSUME Cache!CacheTypeOK, NEW u \in User, Cache!Lookup(u) # Cache!Miss
  PROVE  /\ cache[u] # Cache!Absent /\ Cache!Lookup(u) = cache[u].value
         /\ ~ (now > cache[u].expiry)
BY DEF Cache!Lookup, Cache!Expired

LEMMA TypeStep ==
  ASSUME TypeInv, NEW r \in Request, StepOf(r)
  PROVE  TypeInv'
<1> USE DEF TypeInv, Creating, Reading
<1>0. /\ now \in Nat /\ now \in 0..MaxTime /\ MaxTime \in Nat /\ FolderTtl \in Nat
      /\ Cache!CacheTypeOK /\ Placed(r)
  BY FolderAssumption DEF TypeOK
<1>1. ASSUME Shrinks, UNCHANGED now PROVE Cache!CacheTypeOK'
  BY <1>0, <1>1 DEF Shrinks, Cache!CacheTypeOK
<1>2. ASSUME UNCHANGED <<now, cache>> PROVE Cache!CacheTypeOK'
  BY <1>0, <1>2 DEF Cache!CacheTypeOK
<1>3. ASSUME NEW u \in User, NEW n \in Name, BeginCreate(r, u, n) PROVE TypeInv'
  <2>1. [user |-> u, name |-> n] \in Creation
    BY DEF Creation
  <2>2. Cache!CacheTypeOK'
    BY <1>2, <1>3 DEF BeginCreate
  <2>3. TypeOK'
    BY <1>3, <2>1, <2>2 DEF BeginCreate, Begin, Proceed, TypeOK, Creation
  <2>4. \A q \in Request : Placed(q)'
    BY <1>3, <2>1 DEF BeginCreate, Begin, Proceed, TypeOK, Placed
  <2> QED BY <2>3, <2>4
<1>4. ASSUME Conflict(r) PROVE TypeInv'
  <2>1. Cache!CacheTypeOK'
    BY <1>2, <1>4 DEF Conflict
  <2> QED BY <1>0, <1>4, <2>1 DEF Conflict, Answer, TypeOK, Placed
<1>5. ASSUME Store(r) PROVE folders' \subseteq Folder
  BY <1>0, <1>5 DEF Store, Folder, TypeOK, Placed, Creation
<1>6. ASSUME Insert(r) PROVE TypeInv'
  <2>1. Cache!CacheTypeOK' /\ folders' \subseteq Folder
    BY <1>2, <1>5, <1>6 DEF Insert
  <2> QED BY <1>0, <1>6, <2>1 DEF Insert, Store, Proceed, TypeOK, Placed
<1>7. ASSUME InsertUnacknowledged(r) PROVE TypeInv'
  <2>1. Cache!CacheTypeOK' /\ folders' \subseteq Folder
    BY <1>2, <1>5, <1>7 DEF InsertUnacknowledged
  <2> QED BY <1>0, <1>7, <2>1 DEF InsertUnacknowledged, Store, Answer, TypeOK, Placed
<1>8. ASSUME Reread(r) PROVE TypeInv'
  <2>1. Cache!CacheTypeOK'
    BY <1>2, <1>8 DEF Reread
  <2> QED BY <1>0, <1>8, <2>1 DEF Reread, Proceed, TypeOK, Placed
<1>9. ASSUME Publish(r) PROVE TypeInv'
  <2>1. Cache!CacheTypeOK' /\ events' \subseteq Folder
    BY <1>2, <1>9 DEF Publish, Own, TypeOK
  <2> QED BY <1>0, <1>9, <2>1 DEF Publish, Proceed, TypeOK, Placed
<1>10. ASSUME PublishFails(r) PROVE TypeInv'
  <2>1. Cache!CacheTypeOK' /\ events' \subseteq Folder
    BY <1>2, <1>10 DEF PublishFails, Own, TypeOK
  <2> QED BY <1>0, <1>10, <2>1 DEF PublishFails, Answer, TypeOK, Placed
<1>11. ASSUME Invalidate(r) PROVE TypeInv'
  <2>1. task[r].user \in User
    BY <1>0, <1>11 DEF Invalidate, Placed, Creation
  <2>2. Cache!CacheTypeOK'
    BY <1>0, <1>1, <1>11, <2>1, CacheShrinks DEF Invalidate
  <2> QED BY <1>0, <1>11, <2>2 DEF Invalidate, Answer, TypeOK, Placed
<1>12. ASSUME NEW u \in User, Hit(r, u) PROVE TypeInv'
  <2>1. Cache!CacheTypeOK'
    BY <1>0, <1>1, <1>12, CacheShrinks DEF Hit
  <2>2. Cache!Lookup(u) \in List
    BY <1>0, <1>12, HitFact, EntryFact DEF Hit
  <2>3. [user |-> u] \in Question
    BY DEF Question
  <2>4. TypeOK'
    BY <1>0, <1>12, <2>1, <2>2, <2>3 DEF Hit, Begin, Answer, TypeOK, Question
  <2>5. \A q \in Request : Placed(q)'
    BY <1>12, <2>2, <2>3 DEF Hit, Begin, Answer, TypeOK, Placed
  <2> QED BY <2>4, <2>5
<1>13. ASSUME NEW u \in User, Missed(r, u) PROVE TypeInv'
  <2>1. Cache!CacheTypeOK'
    BY <1>0, <1>1, <1>13, CacheShrinks DEF Missed
  <2>2. [user |-> u] \in Question
    BY DEF Question
  <2>3. TypeOK'
    BY <1>0, <1>13, <2>1, <2>2 DEF Missed, Begin, Proceed, TypeOK, Question
  <2>4. \A q \in Request : Placed(q)'
    BY <1>13, <2>2 DEF Missed, Begin, Proceed, TypeOK, Placed
  <2> QED BY <2>3, <2>4
<1>14. ASSUME NEW failed \in BOOLEAN, Read(r, failed) PROVE TypeInv'
  <2>1. Cache!CacheTypeOK'
    BY <1>2, <1>14 DEF Read
  <2>2. [found |-> {f \in folders : ~ failed /\ f.user = task[r].user},
         readAt |-> now, filledAt |-> now, failed |-> failed] \in List
    BY <1>0 DEF List, TypeOK
  <2>3. held' \in [Request -> List \cup {Nothing}] /\ held'[r] \in List
    BY <1>14, <2>2 DEF Read, TypeOK
  <2>4. TypeOK'
    BY <1>0, <1>14, <2>1, <2>3 DEF Read, Proceed, TypeOK
  <2>5. pc[r] = "read" /\ task' = task /\ answer' = answer
    BY <1>14 DEF Read, Proceed
  <2>6. /\ pc' = [pc EXCEPT ![r] = "fill"]
        /\ \A q \in Request \ {r} : held'[q] = held[q]
    BY <1>14 DEF Read, Proceed, TypeOK
  <2>7. \A q \in Request : Placed(q)'
    BY <2>3, <2>5, <2>6 DEF Placed, TypeOK
  <2> QED BY <2>4, <2>7
<1>15. ASSUME Fill(r) PROVE TypeInv'
  <2> DEFINE list == [held[r] EXCEPT !.filledAt = now]
  <2>1. held[r] \in List /\ task[r] \in Question
    BY <1>0, <1>15 DEF Fill, Placed
  <2>2. list \in List /\ task[r].user \in User
    BY <1>0, <2>1 DEF List, Question
  <2>3. Cache!CacheTypeOK'
    BY <1>0, <1>2, <1>15, <2>2, CachePut DEF Fill, Lifetime, Cache!CacheTypeOK
  <2>4. held' \in [Request -> List \cup {Nothing}] /\ held'[r] \in List
    BY <1>15, <2>2 DEF Fill, TypeOK
  <2> QED BY <1>0, <1>15, <2>1, <2>3, <2>4 DEF Fill, Answer, TypeOK, Placed
<1> QED
  BY <1>3, <1>4, <1>6, <1>7, <1>8, <1>9, <1>10, <1>11, <1>12, <1>13, <1>14, <1>15
     DEF StepOf

LEMMA TypeNext == TypeInv /\ [Next]_vars => TypeInv'
<1> SUFFICES ASSUME TypeInv, [Next]_vars PROVE TypeInv'
  OBVIOUS
<1> USE DEF TypeInv
<1>1. CASE Restart
  <2>1. Cache!CacheTypeOK'
    BY <1>1, CacheShrinks DEF Restart, TypeOK, Shrinks, Cache!CacheTypeOK
  <2> QED BY <1>1, <2>1 DEF Restart, TypeOK, Placed, Creating, Reading
<1>2. CASE Tick
  BY <1>2, FolderAssumption DEF Tick, TypeOK, Placed, Cache!CacheTypeOK
<1>3. CASE UNCHANGED vars
  BY <1>3 DEF vars, TypeOK, Placed, Cache!CacheTypeOK
<1> QED BY <1>1, <1>2, <1>3, TypeStep, NextSteps

\* The folder service is well typed: in particular, whatever list the cache has
\* under a user is one a query can give.
THEOREM TypeCorrect == Spec => []TypeOK
<1>1. TypeInv => TypeOK
  BY DEF TypeInv
<1> QED BY <1>1, TypeInit, TypeNext, PTL DEF Spec

---------------------------------------------------------------------------
\* What a step leaves alone.

\* Everything a request's record consists of.
Untouched(q) ==
  /\ pc'[q] = pc[q] /\ task'[q] = task[q] /\ held'[q] = held[q]
  /\ answer'[q] = answer[q] /\ ended'[q] = ended[q] /\ known'[q] = known[q]

LEMMA OthersUntouched ==
  ASSUME TypeOK, NEW r \in Request, StepOf(r), NEW q \in Request, q # r
  PROVE  Untouched(q)
BY DEF StepOf, BeginCreate, Begin, Conflict, Insert, InsertUnacknowledged, Reread, Publish,
       PublishFails, Invalidate, Hit, Missed, Read, Fill, Proceed, Answer, Untouched,
       TypeOK

\* A request that is done is left alone, and a task, once given, stays.
LEMMA DoneStays ==
  ASSUME TypeOK, [Next]_vars, NEW r \in Request, pc[r] = "done"
  PROVE  Untouched(r)
<1>1. ~ StepOf(r)
  BY DEF StepOf, BeginCreate, Begin, Conflict, Insert, InsertUnacknowledged, Store, Reread,
         Publish, PublishFails, Invalidate, Hit, Missed, Read, Fill, Proceed
<1> QED
  BY <1>1, OthersUntouched, NextSteps DEF Untouched, Restart, InFlight, Tick, vars, TypeOK

LEMMA TaskStays ==
  ASSUME TypeOK, [Next]_vars, NEW r \in Request, pc[r] # "new"
  PROVE  /\ task'[r] = task[r] /\ known'[r] = known[r]
         /\ pc[r] \in {"reread", "publish", "invalidate", "done"} =>
              pc'[r] \in {"reread", "publish", "invalidate", "done"}
<1>1. CASE StepOf(r)
  BY <1>1 DEF StepOf, BeginCreate, Begin, Conflict, Insert, InsertUnacknowledged, Store,
              Reread, Publish, PublishFails, Invalidate, Hit, Missed, Read, Fill, Proceed,
              Answer, TypeOK
<1> QED
  BY <1>1, OthersUntouched, NextSteps DEF Untouched, Restart, InFlight, Tick, vars, TypeOK

\* Folders and events only grow, and the way the program was built stays.
LEMMA DataGrows ==
  [Next]_vars =>
    /\ folders \subseteq folders' /\ events \subseteq events' /\ hasCache' = hasCache
<1>1. ASSUME NEW r \in Request, StepOf(r)
      PROVE  /\ folders \subseteq folders' /\ events \subseteq events'
             /\ hasCache' = hasCache
  BY <1>1 DEF StepOf, BeginCreate, Conflict, Insert, InsertUnacknowledged, Store, Reread,
              Publish, PublishFails, Invalidate, Hit, Missed, Read, Fill
<1> QED BY <1>1, NextSteps DEF Restart, Tick, vars

\* The clock goes forward.
LEMMA ClockGrows ==
  TypeOK /\ [Next]_vars => now' \in Nat /\ now <= now'
<1> SUFFICES ASSUME TypeOK, [Next]_vars PROVE now' \in Nat /\ now <= now'
  OBVIOUS
<1>0. now \in Nat
  BY FolderAssumption DEF TypeOK
<1>1. ASSUME NEW r \in Request, StepOf(r) PROVE now' = now
  BY <1>1 DEF StepOf, BeginCreate, Conflict, Insert, InsertUnacknowledged, Reread,
              Publish, PublishFails, Invalidate, Hit, Missed, Read, Fill
<1> QED BY <1>0, <1>1, NextSteps DEF Restart, Tick, vars

\* Folders come from an insert only, and the inserter is past it then.
LEMMA FoldersFrom ==
  ASSUME TypeOK, [Next]_vars, NEW f \in folders', f \notin folders
  PROVE  \E r \in Request :
           /\ pc[r] = "insert" /\ pc'[r] \in {"reread", "done"}
           /\ folders' = folders \cup {f}
           /\ f = [id |-> r, user |-> task[r].user, name |-> task[r].name, when |-> now]
<1>1. ASSUME NEW r \in Request, StepOf(r)
      PROVE  /\ pc[r] = "insert" /\ pc'[r] \in {"reread", "done"}
             /\ folders' = folders \cup {f}
             /\ f = [id |-> r, user |-> task[r].user, name |-> task[r].name, when |-> now]
  <2>1. Insert(r) \/ InsertUnacknowledged(r)
    BY <1>1 DEF StepOf, BeginCreate, Conflict, Reread, Publish, PublishFails, Invalidate,
                Hit, Missed, Read, Fill
  <2> QED BY <2>1 DEF Insert, InsertUnacknowledged, Store, Proceed, Answer, TypeOK
<1> QED BY <1>1, NextSteps DEF Restart, Tick, vars

---------------------------------------------------------------------------
\* Creations.

\* A folder is what its request asked for.
Sent(f) ==
  /\ pc[f.id] \in {"reread", "publish", "invalidate", "done"}
  /\ f.user = task[f.id].user /\ f.name = task[f.id].name
  /\ f.when <= now

\* A request that has read its folder back has one, and one that has published it
\* has its event at the broker; so has one that has been answered 201.
Durable(r) ==
  /\ pc[r] \in {"publish", "invalidate"} \/ answer[r] = 201 => Own(r) # {}
  /\ pc[r] = "invalidate" \/ answer[r] = 201 => Own(r) \subseteq events

CreateInv ==
  /\ TypeInv
  /\ \A f \in folders : Sent(f)
  /\ \A f, g \in folders : f.id = g.id => f = g
  /\ \A r \in Request : Durable(r)

LEMMA CreateInit == Init => CreateInv
<1> SUFFICES ASSUME Init PROVE CreateInv
  OBVIOUS
<1>1. \A r \in Request : Durable(r)
  BY DEF Init, Durable
<1> QED BY <1>1, TypeInit DEF Init, CreateInv

LEMMA SentNext == CreateInv /\ [Next]_vars => (\A f \in folders : Sent(f))'
<1> SUFFICES ASSUME CreateInv, [Next]_vars, NEW f \in folders' PROVE Sent(f)'
  OBVIOUS
<1>1. TypeOK /\ now \in Nat /\ now' \in Nat /\ now <= now'
  BY ClockGrows, FolderAssumption DEF CreateInv, TypeInv, TypeOK
<1>2. CASE f \in folders
  <2>1. Sent(f) /\ f.id \in Request /\ f.when \in Nat
    BY <1>1, <1>2, FolderAssumption DEF CreateInv, TypeOK, Folder
  <2>2. task'[f.id] = task[f.id] /\ pc'[f.id] \in {"reread", "publish", "invalidate", "done"}
    BY <1>1, <2>1, TaskStays DEF Sent
  <2> QED BY <1>1, <2>1, <2>2 DEF Sent
<1>3. CASE f \notin folders
  <2>1. PICK r \in Request :
          /\ pc[r] = "insert" /\ pc'[r] \in {"reread", "done"}
          /\ f = [id |-> r, user |-> task[r].user, name |-> task[r].name, when |-> now]
    BY <1>1, <1>3, FoldersFrom
  <2>2. task'[r] = task[r]
    BY <1>1, <2>1, TaskStays
  <2> QED BY <1>1, <2>1, <2>2 DEF Sent
<1> QED BY <1>2, <1>3

LEMMA UniqueNext ==
  CreateInv /\ [Next]_vars => (\A f, g \in folders : f.id = g.id => f = g)'
<1> SUFFICES ASSUME CreateInv, [Next]_vars, NEW f \in folders', NEW g \in folders',
                    f.id = g.id
             PROVE  f = g
  OBVIOUS
<1>1. TypeOK
  BY DEF CreateInv, TypeInv
<1>2. ASSUME NEW x \in folders', NEW y \in folders', x \notin folders, x.id = y.id
      PROVE  x = y
  <2>1. PICK r \in Request :
          /\ pc[r] = "insert" /\ folders' = folders \cup {x} /\ x.id = r
    BY <1>1, <1>2, FoldersFrom
  <2>2. ASSUME y \in folders PROVE FALSE
    BY <1>2, <2>1, <2>2 DEF CreateInv, Sent
  <2> QED BY <2>1, <2>2
<1>3. CASE f \in folders /\ g \in folders
  BY <1>3 DEF CreateInv
<1> QED BY <1>2, <1>3

\* The folder of a request that has one stays its only one.
LEMMA OwnStays ==
  ASSUME CreateInv, [Next]_vars, NEW r \in Request, pc[r] # "insert"
  PROVE  Own(r)' = Own(r)
<1>1. TypeOK /\ folders \subseteq folders'
  BY DataGrows DEF CreateInv, TypeInv
<1>2. ASSUME NEW f \in folders', f \notin folders PROVE f.id # r
  BY <1>1, <1>2, FoldersFrom
<1> QED BY <1>1, <1>2 DEF Own

LEMMA DurableNext ==
  ASSUME CreateInv, [Next]_vars, NEW r \in Request
  PROVE  Durable(r)'
<1>1. TypeOK /\ Placed(r) /\ Durable(r) /\ events \subseteq events'
  BY DataGrows DEF CreateInv, TypeInv
<1>2. CASE StepOf(r)
  <2>1. CASE Reread(r)
    <3>1. pc'[r] = "publish" /\ answer'[r] = answer[r] /\ Own(r) # {} /\ pc[r] = "reread"
      BY <1>1, <2>1 DEF Reread, Proceed, TypeOK
    <3> QED BY <1>1, <3>1, OwnStays DEF Placed, Durable
  <2>2. CASE Publish(r)
    <3>1. /\ pc'[r] = "invalidate" /\ answer'[r] = answer[r] /\ pc[r] = "publish"
          /\ events' = events \cup Own(r)
      BY <1>1, <2>2 DEF Publish, Proceed, TypeOK
    <3> QED BY <1>1, <3>1, OwnStays DEF Durable
  <2>3. CASE Invalidate(r)
    <3>1. pc'[r] = "done" /\ pc[r] = "invalidate" /\ events' = events
      BY <1>1, <2>3 DEF Invalidate, Answer, TypeOK
    <3> QED BY <1>1, <3>1, OwnStays DEF Durable
  <2>4. CASE ~ (Reread(r) \/ Publish(r) \/ Invalidate(r))
    <3>1. pc'[r] \notin {"publish", "invalidate"} /\ answer'[r] # 201
      BY <1>1, <1>2, <2>4
         DEF StepOf, BeginCreate, Begin, Conflict, Insert, InsertUnacknowledged, Store,
             PublishFails, Hit, Missed, Read, Fill, Proceed, Answer, TypeOK, Placed
    <3> QED BY <3>1 DEF Durable
  <2> QED BY <2>1, <2>2, <2>3, <2>4
<1>3. CASE ~ StepOf(r)
  <2>1. /\ answer'[r] = answer[r]
        /\ pc'[r] \in {"publish", "invalidate"} => pc'[r] = pc[r]
    BY <1>1, <1>3, OthersUntouched, NextSteps DEF Untouched, Restart, Tick, vars, TypeOK
  <2>2. pc[r] # "insert" => Own(r)' = Own(r)
    BY OwnStays
  <2> QED BY <1>1, <2>1, <2>2 DEF Durable, Placed
<1> QED BY <1>2, <1>3

LEMMA CreateNext == CreateInv /\ [Next]_vars => CreateInv'
BY TypeNext, SentNext, UniqueNext, DurableNext DEF CreateInv

\* A 201 from CreateFolder is the end of it: the folder is stored under the name
\* that was asked for, and its event is at the broker.
THEOREM CreatedDurable == Spec => []CreatedIsDurable
<1>1. ASSUME CreateInv, NEW r \in Request, answer[r] = 201
      PROVE  \E f \in folders \cap events : f.id = r /\ f.name = task[r].name
  BY <1>1 DEF CreateInv, Durable, Own, Sent
<1>2. CreateInv => CreatedIsDurable
  BY <1>1 DEF CreatedIsDurable
<1> QED BY <1>2, CreateInit, CreateNext, PTL DEF Spec

---------------------------------------------------------------------------
\* Lists.

\* A list misses no folder of u that is older than its reading, unless the query
\* failed.
Truthful(l, u) ==
  /\ l.readAt <= now
  /\ l.failed \/ \A f \in folders : f.user = u /\ f \notin l.found => l.readAt <= f.when

Made(c) == answer[c] = 201

\* What the cache has of u was put there after every 201 for a folder of u, for a
\* 201 comes with an invalidation; and it is over one lifetime later.
Cached(u) ==
  cache[u] # Cache!Absent =>
    /\ hasCache
    /\ Truthful(cache[u].value, u)
    /\ cache[u].expiry = cache[u].value.filledAt + FolderTtl
    /\ \A c \in Request : Made(c) /\ task[c].user = u => ended[c] <= cache[u].value.filledAt

\* Without a cache a list is read after the folders it should show were made.
Complete(r) ==
  \/ hasCache \/ held[r].failed
  \/ \A c \in known[r] : task[c].user = task[r].user => Own(c) \subseteq held[r].found

\* What a request knows and has read.
Lists(r) ==
  /\ Made(r) => ended[r] <= now
  /\ \A c \in known[r] : Made(c)
  /\ pc[r] = "fill" \/ Listed(r) => Truthful(held[r], task[r].user) /\ Complete(r)
  /\ Listed(r) =>
       \A c \in known[r] : task[c].user = task[r].user => ended[c] <= held[r].filledAt

ListInv ==
  /\ CreateInv
  /\ \A u \in User : Cached(u)
  /\ \A r \in Request : Lists(r)

LEMMA TruthStays ==
  ASSUME TypeOK, [Next]_vars, NEW l \in List, NEW u, Truthful(l, u)
  PROVE  /\ l.readAt <= now'
         /\ l.failed \/ \A f \in folders' : f.user = u /\ f \notin l.found => l.readAt <= f.when
<1>1. /\ now \in Nat /\ now' \in Nat /\ now <= now' /\ l.readAt \in Nat
  BY ClockGrows, FolderAssumption DEF TypeOK, List
<1>2. ASSUME NEW f \in folders', f \notin folders PROVE f.when = now
  BY <1>2, FoldersFrom
<1> QED BY <1>1, <1>2 DEF Truthful

\* A 201 is what Invalidate has just answered, and a 200 is Hit's or Fill's.
LEMMA JustAnswered ==
  ASSUME TypeOK, [Next]_vars, NEW r \in Request, answer'[r] # answer[r]
  PROVE  /\ answer'[r] = 201 => Invalidate(r)
         /\ answer'[r] = 200 => Fill(r) \/ \E u \in User : Hit(r, u)
<1>1. StepOf(r)
  BY OthersUntouched, NextSteps DEF Untouched, Restart, Tick, vars
<1>2. CASE \/ \E u \in User, n \in Name : BeginCreate(r, u, n)
           \/ Insert(r) \/ Reread(r) \/ Publish(r)
           \/ \E u \in User : Missed(r, u)
           \/ \E failed \in BOOLEAN : Read(r, failed)
  BY <1>2 DEF BeginCreate, Insert, Reread, Publish, Missed, Read, Proceed
<1>3. CASE Conflict(r) \/ InsertUnacknowledged(r) \/ PublishFails(r)
  <2>1. answer'[r] \in {409, 500}
    BY <1>3 DEF Conflict, InsertUnacknowledged, PublishFails, Answer, TypeOK
  <2> QED BY <2>1
<1>4. CASE Invalidate(r)
  <2>1. answer'[r] = 201
    BY <1>4 DEF Invalidate, Answer, TypeOK
  <2> QED BY <1>4, <2>1
<1>5. CASE Fill(r) \/ \E u \in User : Hit(r, u)
  <2>1. Answer(r, 200)
    BY <1>5 DEF Fill, Hit
  <2>2. answer'[r] = 200
    BY <2>1 DEF Answer, TypeOK
  <2> QED BY <1>5, <2>2
<1> QED BY <1>1, <1>2, <1>3, <1>4, <1>5 DEF StepOf

\* Whoever has been answered 201 stays as it is then.
LEMMA MadeStays ==
  ASSUME CreateInv, [Next]_vars, NEW c \in Request, Made(c)
  PROVE  Untouched(c) /\ Made(c)' /\ Own(c)' = Own(c)
<1>1. TypeOK /\ pc[c] = "done"
  BY DEF CreateInv, TypeInv, Placed, Made
<1> QED BY <1>1, DoneStays, OwnStays DEF Untouched, Made

\* An entry is there already, or has just been filled in.
LEMMA CacheSteps ==
  ASSUME TypeInv, [Next]_vars, NEW u \in User, cache'[u] # Cache!Absent
  PROVE  \/ cache'[u] = cache[u]
         \/ \E r \in Request :
              /\ Fill(r) /\ hasCache /\ task[r].user = u
              /\ [held[r] EXCEPT !.filledAt = now] \in List
              /\ cache'[u] = [value |-> [held[r] EXCEPT !.filledAt = now],
                              expiry |-> now + FolderTtl]
<1>1. Cache!CacheTypeOK /\ FolderTtl \in Nat
  BY FolderAssumption DEF TypeInv, TypeOK
<1>2. CASE Shrinks
  BY <1>2 DEF Shrinks
<1>3. CASE UNCHANGED cache
  BY <1>1, <1>3, CacheShrinks, <1>2
<1>4. ASSUME NEW r \in Request, StepOf(r), ~ Fill(r)
      PROVE  Shrinks
  <2>1. Invalidate(r) => task[r].user \in User
    BY DEF TypeInv, Placed, Invalidate, Creating, Creation
  <2> QED
    BY <1>1, <1>4, <2>1, CacheShrinks
       DEF StepOf, BeginCreate, Conflict, Insert, InsertUnacknowledged, Reread, Publish,
           PublishFails, Invalidate, Hit, Missed, Read
<1>5. ASSUME NEW r \in Request, Fill(r), ~ UNCHANGED cache
      PROVE  \/ cache'[u] = cache[u]
             \/ /\ hasCache /\ task[r].user = u
                /\ [held[r] EXCEPT !.filledAt = now] \in List
                /\ cache'[u] = [value |-> [held[r] EXCEPT !.filledAt = now],
                                expiry |-> now + FolderTtl]
  <2> DEFINE list == [held[r] EXCEPT !.filledAt = now]
  <2>1. held[r] \in List /\ task[r].user \in User /\ now \in 0..MaxTime
    BY <1>5 DEF Fill, TypeInv, TypeOK, Placed, Reading, Question
  <2>2. list \in List
    BY <2>1 DEF List
  <2>3. hasCache /\ Cache!Put(task[r].user, list, FolderTtl)
    BY <1>5 DEF Fill, Lifetime
  <2> QED BY <1>1, <2>1, <2>2, <2>3, CachePut
<1>6. CASE Restart
  BY <1>1, <1>2, <1>6, CacheShrinks DEF Restart
<1>7. CASE Tick \/ UNCHANGED vars
  BY <1>3, <1>7 DEF Tick, vars
<1> QED BY <1>2, <1>3, <1>4, <1>5, <1>6, <1>7, NextSteps

LEMMA CachedNext ==
  ASSUME ListInv, [Next]_vars, NEW u \in User
  PROVE  Cached(u)'
<1>1. /\ CreateInv /\ TypeInv /\ TypeOK /\ Cached(u) /\ hasCache' = hasCache
      /\ now \in Nat /\ Cache!CacheTypeOK
  BY DataGrows, FolderAssumption DEF ListInv, CreateInv, TypeInv, TypeOK
<1> SUFFICES ASSUME cache'[u] # Cache!Absent PROVE Cached(u)'
  BY DEF Cached
<1>2. CASE cache'[u] = cache[u]
  <2>1. cache[u].value \in List /\ hasCache /\ Truthful(cache[u].value, u)
    BY <1>1, <1>2, EntryFact DEF Cached
  <2>2. Truthful(cache[u].value, u)'
    BY <1>1, <1>2, <2>1, TruthStays DEF Truthful
  <2>3. ASSUME NEW c \in Request, Made(c)', task'[c].user = u
        PROVE  ended'[c] <= cache[u].value.filledAt
    <3>1. CASE Made(c)
      BY <1>1, <1>2, <2>3, <3>1, MadeStays DEF Cached, Untouched
    <3>2. CASE ~ Made(c)
      <4>1. Invalidate(c)
        BY <1>1, <2>3, <3>2, JustAnswered DEF Made
      <4>2. cache'[u] = Cache!Absent
        BY <2>1, <2>3, <4>1 DEF Invalidate, Cache!Invalidate, Cache!Without
      <4> QED BY <4>2
    <3> QED BY <3>1, <3>2
  <2> QED BY <1>1, <1>2, <2>1, <2>2, <2>3 DEF Cached
<1>3. ASSUME NEW r \in Request, Fill(r), hasCache, task[r].user = u,
             [held[r] EXCEPT !.filledAt = now] \in List,
             cache'[u] = [value |-> [held[r] EXCEPT !.filledAt = now],
                          expiry |-> now + FolderTtl]
      PROVE  Cached(u)'
  <2> DEFINE list == [held[r] EXCEPT !.filledAt = now]
  <2>1. pc[r] = "fill" /\ Truthful(held[r], u) /\ held[r] \in List
    BY <1>1, <1>3 DEF ListInv, Lists, Fill, TypeInv, Placed
  <2>2. /\ list.filledAt = now /\ list.readAt = held[r].readAt
        /\ list.failed = held[r].failed /\ list.found = held[r].found
    BY <2>1 DEF List
  <2>3. now' = now /\ folders' = folders
    BY <1>3 DEF Fill
  <2>4. cache'[u].value = list /\ cache'[u].expiry = now + FolderTtl
    BY <1>3
  <2>5. Truthful(cache[u].value, u)'
    BY <2>1, <2>2, <2>3, <2>4 DEF Truthful
  <2>6. ASSUME NEW c \in Request, Made(c)', task'[c].user = u
        PROVE  ended'[c] <= now
    <3>1. Made(c)
      BY <1>1, <1>3, <2>6, JustAnswered DEF Made, Fill, Invalidate, Answer, TypeOK
    <3> QED BY <1>1, <3>1, MadeStays DEF ListInv, Lists, Untouched
  <2> QED BY <1>1, <1>3, <2>2, <2>4, <2>5, <2>6 DEF Cached
<1> QED BY <1>1, <1>2, <1>3, CacheSteps

\* What a request that reads or is answered without changing anything keeps.
LEMMA ListsKept ==
  ASSUME ListInv, [Next]_vars, NEW r \in Request, Untouched(r)
  PROVE  Lists(r)'
<1>1. /\ CreateInv /\ TypeOK /\ Placed(r) /\ Lists(r) /\ hasCache' = hasCache
      /\ now \in Nat /\ now' \in Nat /\ now <= now' /\ ended[r] \in Nat
  BY DataGrows, ClockGrows, FolderAssumption DEF ListInv, CreateInv, TypeInv, TypeOK
<1>2. ASSUME NEW c \in known[r]
      PROVE  /\ c \in Request /\ Made(c) /\ Made(c)' /\ Own(c)' = Own(c)
             /\ Untouched(c)
  <2>1. c \in Request /\ Made(c)
    BY <1>1 DEF Lists, TypeOK
  <2> QED BY <1>1, <2>1, MadeStays
<1>3. Made(r)' => ended'[r] <= now'
  BY <1>1 DEF Lists, Untouched, Made
<1>4. pc[r] = "fill" \/ Listed(r) => Truthful(held[r], task[r].user)' /\ Complete(r)'
  <2> SUFFICES ASSUME pc[r] = "fill" \/ Listed(r)
               PROVE  Truthful(held[r], task[r].user)' /\ Complete(r)'
    OBVIOUS
  <2>1. held[r] \in List /\ Truthful(held[r], task[r].user) /\ Complete(r)
    BY <1>1 DEF Lists, Placed, Listed
  <2>2. Truthful(held[r], task[r].user)'
    BY <1>1, <2>1, TruthStays DEF Truthful, Untouched
  <2>3. Complete(r)'
    BY <1>1, <1>2, <2>1 DEF Complete, Untouched
  <2> QED BY <2>2, <2>3
<1> QED BY <1>1, <1>2, <1>3, <1>4 DEF Lists, Untouched, Listed

\* A list that has just been read, and one that is answered.
LEMMA ListsStep ==
  ASSUME ListInv, [Next]_vars, NEW r \in Request, StepOf(r)
  PROVE  Lists(r)'
<1>1. /\ CreateInv /\ TypeInv /\ TypeOK /\ Placed(r) /\ Lists(r) /\ hasCache' = hasCache
      /\ now \in Nat /\ Cache!CacheTypeOK
  BY DataGrows, FolderAssumption DEF ListInv, CreateInv, TypeInv, TypeOK
<1>2. /\ now' = now
      /\ known'[r] = known[r] \/ known'[r] = {c \in Request : Made(c)}
  <2>1. CASE \/ \E u \in User, n \in Name : BeginCreate(r, u, n)
             \/ \E u \in User : Hit(r, u) \/ Missed(r, u)
    <3>1. now' = now
      BY <2>1 DEF BeginCreate, Hit, Missed
    <3>2. known' = [known EXCEPT ![r] = {c \in Request : answer[c] = 201}]
      BY <2>1 DEF BeginCreate, Hit, Missed, Begin
    <3>3. known \in [Request -> SUBSET Request]
      BY <1>1 DEF TypeOK
    <3> QED BY <3>1, <3>2, <3>3 DEF Made
  <2>2. CASE \/ Conflict(r) \/ Insert(r) \/ InsertUnacknowledged(r) \/ Reread(r)
             \/ Publish(r) \/ PublishFails(r) \/ Invalidate(r) \/ Fill(r)
             \/ \E failed \in BOOLEAN : Read(r, failed)
    BY <2>2 DEF Conflict, Insert, InsertUnacknowledged, Reread, Publish, PublishFails,
                Invalidate, Read, Fill
  <2> QED BY <2>1, <2>2 DEF StepOf
<1>3. ASSUME NEW c \in known'[r]
      PROVE  c \in Request /\ Made(c) /\ Made(c)' /\ Own(c)' = Own(c) /\ Untouched(c)
             /\ ended[c] <= now
  <2>1. c \in Request /\ Made(c)
    BY <1>1, <1>2 DEF Lists, TypeOK
  <2> QED BY <1>1, <2>1, MadeStays DEF ListInv, Lists
<1>4. Made(r)' => ended'[r] <= now'
  <2>1. CASE answer'[r] = answer[r]
    <3>1. Made(r)' => pc[r] = "done"
      BY <1>1, <2>1 DEF Made, Placed
    <3>2. pc[r] = "done" => Untouched(r)
      BY <1>1, DoneStays
    <3> QED BY <1>1, <1>2, <3>1, <3>2 DEF Lists, Untouched, Made
  <2>2. CASE answer'[r] # answer[r]
    BY <1>1, <1>2, <2>2, JustAnswered DEF Made, Invalidate, Answer, TypeOK
  <2> QED BY <2>1, <2>2
<1>5. ASSUME NEW u \in User, Hit(r, u) PROVE Lists(r)'
  <2> DEFINE l == cache[u].value
  <2>1. /\ cache[u] # Cache!Absent /\ held'[r] = l
        /\ task'[r] = [user |-> u] /\ answer'[r] = 200 /\ hasCache
        /\ folders' = folders
    BY <1>1, <1>5, HitFact DEF Hit, Begin, Answer, TypeOK
  <2>2. Truthful(l, u) /\ \A c \in Request : Made(c) /\ task[c].user = u => ended[c] <= l.filledAt
    BY <2>1 DEF ListInv, Cached
  <2>3. Truthful(held[r], task[r].user)' /\ Complete(r)'
    BY <1>1, <1>2, <2>1, <2>2 DEF Truthful, Complete
  <2>4. \A c \in known'[r] : task'[c].user = task'[r].user => ended'[c] <= held'[r].filledAt
    BY <1>3, <2>1, <2>2 DEF Untouched
  <2> QED BY <1>3, <1>4, <2>3, <2>4 DEF Lists
<1>6. ASSUME NEW failed \in BOOLEAN, Read(r, failed) PROVE Lists(r)'
  <2>1. /\ held'[r] = [found |-> {f \in folders : ~ failed /\ f.user = task[r].user},
                       readAt |-> now, filledAt |-> now, failed |-> failed]
        /\ task' = task /\ answer' = answer /\ pc[r] = "read" /\ folders' = folders
    BY <1>1, <1>6 DEF Read, Proceed, TypeOK
  <2>2. Truthful(held[r], task[r].user)'
    BY <1>1, <1>2, <2>1 DEF Truthful
  <2>3. ASSUME ~ failed, NEW c \in known'[r], task[c].user = task[r].user
        PROVE  Own(c) \subseteq held'[r].found
    BY <1>1, <2>1, <2>3 DEF CreateInv, Sent, Own
  <2>4. Complete(r)'
    BY <1>3, <2>1, <2>3 DEF Complete
  <2>5. ~ Listed(r)'
    BY <1>1, <2>1 DEF Listed, Placed
  <2> QED BY <1>3, <1>4, <2>2, <2>4, <2>5 DEF Lists
<1>7. ASSUME Fill(r) PROVE Lists(r)'
  <2>1. pc[r] = "fill" /\ held[r] \in List /\ Truthful(held[r], task[r].user) /\ Complete(r)
    BY <1>1, <1>7 DEF Fill, Lists, Placed
  <2>2. /\ held'[r] = [held[r] EXCEPT !.filledAt = now]
        /\ task' = task /\ known' = known /\ folders' = folders
    BY <1>1, <1>7 DEF Fill, TypeOK
  <2>3. /\ held'[r].filledAt = now /\ held'[r].readAt = held[r].readAt
        /\ held'[r].failed = held[r].failed /\ held'[r].found = held[r].found
    BY <2>1, <2>2 DEF List
  <2>4. Truthful(held[r], task[r].user)'
    BY <1>2, <2>1, <2>2, <2>3 DEF Truthful
  <2>5. Complete(r)'
    BY <1>1, <1>3, <2>1, <2>2, <2>3 DEF Complete
  <2>6. \A c \in known'[r] : ended'[c] <= held'[r].filledAt
    BY <1>3, <2>3 DEF Untouched
  <2> QED BY <1>3, <1>4, <2>4, <2>5, <2>6 DEF Lists
<1>8. CASE ~ (Fill(r) \/ (\E u \in User : Hit(r, u)) \/ \E failed \in BOOLEAN : Read(r, failed))
  <2>1. pc'[r] # "fill"
    <3>1. \/ \E to \in {"insert", "reread", "publish", "invalidate", "read"} :
                pc' = [pc EXCEPT ![r] = to]
          \/ pc' = [pc EXCEPT ![r] = "done"]
      <4>1. CASE \/ Conflict(r) \/ InsertUnacknowledged(r) \/ PublishFails(r)
                 \/ Invalidate(r)
        BY <4>1 DEF Conflict, InsertUnacknowledged, PublishFails, Invalidate, Answer
      <4>2. CASE \/ \E u \in User, n \in Name : BeginCreate(r, u, n)
                 \/ \E u \in User : Missed(r, u)
        BY <4>2 DEF BeginCreate, Missed, Proceed
      <4>3. CASE Insert(r) \/ Reread(r) \/ Publish(r)
        BY <4>3 DEF Insert, Reread, Publish, Proceed
      <4> QED BY <1>8, <4>1, <4>2, <4>3 DEF StepOf
    <3> QED BY <1>1, <3>1 DEF TypeOK
  <2>2. ~ Listed(r)'
    <3>1. answer'[r] = answer[r] \/ answer'[r] # 200
      BY <1>1, <1>8, JustAnswered
    <3>2. pc[r] # "done"
      BY DEF StepOf, BeginCreate, Begin, Conflict, Insert, InsertUnacknowledged, Store,
             Reread, Publish, PublishFails, Invalidate, Hit, Missed, Read, Fill, Proceed
    <3> QED BY <1>1, <3>1, <3>2 DEF Listed, Placed
  <2> QED BY <1>3, <1>4, <2>1, <2>2 DEF Lists
<1> QED BY <1>5, <1>6, <1>7, <1>8

LEMMA ListsNext ==
  ASSUME ListInv, [Next]_vars, NEW r \in Request
  PROVE  Lists(r)'
<1>1. TypeOK
  BY DEF ListInv, CreateInv, TypeInv
<1>2. ASSUME NEW q \in Request, StepOf(q), q # r PROVE Lists(r)'
  BY <1>1, <1>2, OthersUntouched, ListsKept
<1>3. CASE Tick \/ UNCHANGED vars
  BY <1>3, ListsKept DEF Tick, vars, Untouched
<1>4. CASE Restart
  <2>1. CASE r \notin InFlight
    BY <1>1, <1>4, <2>1, ListsKept DEF Restart, Untouched, TypeOK
  <2>2. CASE r \in InFlight
    <3>1. pc'[r] = "done" /\ answer'[r] = 0 /\ known'[r] = known[r] /\ answer' = answer
      BY <1>1, <1>4, <2>2 DEF Restart, InFlight, ListInv, CreateInv, TypeInv, Placed, TypeOK
    <3> QED BY <3>1 DEF Lists, Made, Listed, ListInv
  <2> QED BY <2>1, <2>2
<1> QED BY <1>2, <1>3, <1>4, ListsStep, NextSteps

LEMMA ListInit == Init => ListInv
<1> SUFFICES ASSUME Init PROVE ListInv
  OBVIOUS
<1>1. \A u \in User : Cached(u)
  BY DEF Init, Cache!CacheInit, Cached
<1>2. \A r \in Request : Lists(r)
  BY DEF Init, Lists, Made, Listed
<1> QED BY <1>1, <1>2, CreateInit DEF ListInv

LEMMA Invariance == Spec => []ListInv
<1>1. ListInv /\ [Next]_vars => ListInv'
  BY CreateNext, CachedNext, ListsNext DEF ListInv
<1> QED BY <1>1, ListInit, PTL DEF Spec

\* A list that misses a folder whose 201 came first was read by a query that failed,
\* or was read before that folder was stored and put into the cache after the 201.
THEOREM StaleIfOvertaken == Spec => []StaleOnlyIfOvertaken
<1>1. ASSUME ListInv, NEW r \in Request, NEW c \in known[r],
             Listed(r), task[r].user = task[c].user, ~ (Own(c) \subseteq held[r].found)
      PROVE  /\ ended[c] <= held[r].filledAt
             /\ \/ held[r].failed
                \/ hasCache /\ (\A f \in Own(c) : held[r].readAt <= f.when)
  <2>1. /\ ended[c] <= held[r].filledAt
        /\ Truthful(held[r], task[r].user) /\ Complete(r)
    BY <1>1 DEF ListInv, Lists
  <2>2. PICK f \in Own(c) : f \notin held[r].found
    BY <1>1
  <2>3. \A g \in Own(c) : g = f
    BY <1>1, <2>2 DEF ListInv, CreateInv, Own
  <2>4. f \in folders /\ f.user = task[r].user
    BY <1>1, <2>2 DEF ListInv, CreateInv, Sent, Own
  <2>5. held[r].failed \/ held[r].readAt <= f.when
    BY <2>1, <2>2, <2>4 DEF Truthful
  <2>6. held[r].failed \/ hasCache
    BY <1>1, <2>1 DEF Complete
  <2> QED BY <2>1, <2>3, <2>5, <2>6
<1>2. ListInv => StaleOnlyIfOvertaken
  BY <1>1 DEF StaleOnlyIfOvertaken
<1> QED BY <1>2, Invariance, PTL

\* No list is answered later than one lifetime after it was filled in.
THEOREM StaleWithinTtl == Spec => StaleNoLongerThanTtl
<1>1. ASSUME ListInv, [Next]_vars, NEW r \in Request, answer[r] = 0, answer'[r] = 200
      PROVE  now <= held'[r].filledAt + FolderTtl
  <2>1. /\ TypeInv /\ TypeOK /\ Placed(r) /\ Cache!CacheTypeOK
        /\ now \in Nat /\ FolderTtl \in Nat
    BY <1>1, FolderAssumption DEF ListInv, CreateInv, TypeInv, TypeOK
  <2>2. ASSUME NEW u \in User, Hit(r, u) PROVE now <= held'[r].filledAt + FolderTtl
    <3>1. /\ cache[u] # Cache!Absent /\ held'[r] = cache[u].value
          /\ ~ (now > cache[u].expiry)
      BY <2>1, <2>2, HitFact DEF Hit, TypeOK
    <3>2. cache[u].expiry = cache[u].value.filledAt + FolderTtl /\ cache[u].expiry \in Nat
      BY <1>1, <2>1, <3>1, EntryFact DEF ListInv, Cached
    <3> QED BY <2>1, <3>1, <3>2
  <2>3. CASE Fill(r)
    <3>1. held[r] \in List /\ held'[r] = [held[r] EXCEPT !.filledAt = now]
      BY <2>1, <2>3 DEF Fill, Placed, TypeOK
    <3>2. held'[r].filledAt = now
      BY <3>1 DEF List
    <3> QED BY <2>1, <3>2
  <2> QED BY <1>1, <2>1, <2>2, <2>3, JustAnswered
<1>2. ListInv /\ [Next]_vars =>
        [\A r \in Request :
           (/\ answer[r] = 0 /\ answer'[r] = 200
            /\ ~ ({f \in folders : f.user = task'[r].user} \subseteq held'[r].found))
           => now <= held'[r].filledAt + FolderTtl]_vars
  BY <1>1
<1> QED BY <1>2, Invariance, PTL DEF Spec, StaleNoLongerThanTtl
=============================================================================
