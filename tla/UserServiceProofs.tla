------------------------- MODULE UserServiceProofs -------------------------
(* Proofs about UserService, for any calls, forms, lifetimes and cache size. *)
EXTENDS UserService, TLAPS

LEMMA KeyFact ==
  ASSUME NEW k \in Key
  PROVE  \/ k.kind = "login" /\ k.of \in Logins /\ k = LoginKey(k.of)
         \/ k.kind = "search"
BY DEF Key, LoginKey

LEMMA LoginKeyFact ==
  ASSUME NEW l \in Logins
  PROVE  LoginKey(l) \in Key /\ LoginKey(l).kind = "login" /\ LoginKey(l).of = l
BY DEF Key, LoginKey

---------------------------------------------------------------------------
\* What the cache's operations do to its entries.

\* Nothing enters the cache.
Shrinks ==
  /\ cache' \in [Key -> Cache!Entry \cup {Cache!Absent}]
  /\ \A j \in Key : cache'[j] = cache[j] \/ cache'[j] = Cache!Absent

LEMMA AbsentFact ==
  ASSUME NEW e \in Cache!Entry PROVE e # Cache!Absent
BY DEF Cache!Entry, Cache!Absent

LEMMA CacheGet ==
  ASSUME Cache!CacheTypeOK, NEW k \in Key, Cache!Get(k) PROVE Shrinks
BY DEF Cache!CacheTypeOK, Cache!Get, Cache!Without, Shrinks

LEMMA CacheInvalidate ==
  ASSUME Cache!CacheTypeOK, NEW k, Cache!Invalidate(k) PROVE Shrinks
BY DEF Cache!CacheTypeOK, Cache!Invalidate, Cache!Without, Shrinks

LEMMA CacheClear ==
  ASSUME Cache!CacheTypeOK, Cache!Clear PROVE Shrinks
BY DEF Cache!CacheTypeOK, Cache!Clear, Cache!Without, Shrinks

\* Only what is put enters the cache, and it need not stay.
LEMMA CachePut ==
  ASSUME Cache!CacheTypeOK, NEW k \in Key, NEW v \in List, NEW ttl \in Nat,
         Cache!Put(k, v, ttl)
  PROVE  /\ cache' \in [Key -> Cache!Entry \cup {Cache!Absent}]
         /\ \A j \in Key : \/ cache'[j] = cache[j] \/ cache'[j] = Cache!Absent
                           \/ j = k /\ cache'[j] = [value |-> v, expiry |-> now + ttl]
<1> DEFINE new == [value |-> v, expiry |-> now + ttl]
           grown == [cache EXCEPT ![k] = new]
<1>1. new \in Cache!Entry
  BY DEF Cache!CacheTypeOK, Cache!Entry
<1>2. /\ grown \in [Key -> Cache!Entry \cup {Cache!Absent}]
      /\ \A j \in Key : grown[j] = cache[j] \/ (j = k /\ grown[j] = new)
  BY <1>1 DEF Cache!CacheTypeOK
<1>3. cache' = grown \/ \E old : cache' = Cache!Without(grown, {old})
  BY DEF Cache!Put
<1> QED BY <1>2, <1>3 DEF Cache!Without

---------------------------------------------------------------------------
\* Types, and what the place of a request says about the rest of it.

Creating == {"checkLogin", "checkEmail", "insert", "publish", "invalidate"}
Reading  == {"read", "fill"}

Placed ==
  \A r \in Request :
    /\ pc[r] \in Creating => task[r] \in Form
    /\ pc[r] \in Reading => task[r] \in Key
    /\ pc[r] = "fill" => held[r] \in List
    /\ pc[r] # "done" => answer[r] = 0
    /\ answer[r] = 200 => held[r] \in List /\ task[r] \in Key
    /\ answer[r] = 201 => task[r] \in Form

TypeInv == TypeOK /\ Placed

LEMMA TypeInit == Init => TypeInv
BY ServiceAssumption
   DEF Init, TypeInv, TypeOK, Placed, Place, Creating, Reading, Cache!CacheInit,
       Cache!CacheTypeOK

LEMMA TypeNext == TypeInv /\ [Next]_vars => TypeInv'
<1> SUFFICES ASSUME TypeInv, [Next]_vars PROVE TypeInv'
  OBVIOUS
<1> USE DEF TypeInv
<1>0. /\ now \in Nat /\ MaxTime \in Nat /\ SearchTtl \in Nat /\ DefaultTtl \in Nat
      /\ Cache!CacheTypeOK
  BY ServiceAssumption DEF TypeOK
<1>1. CASE UNCHANGED vars
  BY <1>1 DEF vars, TypeOK, Placed, Cache!CacheTypeOK, InFlight
<1>2. ASSUME NEW r \in Request, NEW f \in Form, BeginCreate(r, f) PROVE TypeInv'
  <2>1. known' \in [Request -> SUBSET Logins]
    <3>1. {task[c].login : c \in Created} \subseteq Logins
      BY DEF Created, Placed, Logins
    <3> QED BY <1>2, <3>1 DEF BeginCreate, Begin, TypeOK
  <2>2. TypeOK'
    BY <1>2, <2>1 DEF BeginCreate, Begin, Proceed, TypeOK, Place, Cache!CacheTypeOK
  <2>3. Placed'
    BY <1>2 DEF BeginCreate, Begin, Proceed, TypeOK, Place, Placed, Creating, Reading
  <2> QED BY <2>2, <2>3
<1>3. ASSUME NEW r \in Request, CheckLogin(r) PROVE TypeInv'
  BY <1>3 DEF CheckLogin, Proceed, TypeOK, Place, Placed, Creating, Reading,
              Cache!CacheTypeOK
<1>4. ASSUME NEW r \in Request, CheckEmail(r) PROVE TypeInv'
  BY <1>4 DEF CheckEmail, Proceed, TypeOK, Place, Placed, Creating, Reading,
              Cache!CacheTypeOK
<1>5. ASSUME NEW r \in Request, Conflict(r) PROVE TypeInv'
  BY <1>5 DEF Conflict, Answer, TypeOK, Place, Placed, Creating, Reading,
              Cache!CacheTypeOK
<1>6. ASSUME NEW r \in Request, Store(r) PROVE users' \subseteq User
  BY <1>6 DEF Store, Mine, User, TypeOK, Placed, Creating
<1>7. ASSUME NEW r \in Request, Insert(r) PROVE TypeInv'
  BY <1>6, <1>7 DEF Insert, Store, Proceed, TypeOK, Place, Placed, Creating, Reading,
              Cache!CacheTypeOK
<1>8. ASSUME NEW r \in Request, InsertUnacknowledged(r) PROVE TypeInv'
  BY <1>6, <1>8 DEF InsertUnacknowledged, Store, Answer, TypeOK, Place, Placed,
              Creating, Reading, Cache!CacheTypeOK
<1>9. ASSUME NEW r \in Request, Publish(r) PROVE TypeInv'
  BY <1>9 DEF Publish, Own, Proceed, TypeOK, Place, Placed, Creating, Reading,
              Cache!CacheTypeOK
<1>10. ASSUME NEW r \in Request, PublishFails(r) PROVE TypeInv'
  BY <1>10 DEF PublishFails, Own, Answer, TypeOK, Place, Placed, Creating, Reading,
              Cache!CacheTypeOK
<1>11. ASSUME Shrinks, UNCHANGED now PROVE Cache!CacheTypeOK'
  BY <1>0, <1>11 DEF Shrinks, Cache!CacheTypeOK
<1>12. ASSUME NEW r \in Request, Invalidate(r) PROVE TypeInv'
  <2>1. Cache!CacheTypeOK'
    BY <1>0, <1>11, <1>12, CacheInvalidate DEF Invalidate
  <2> QED BY <1>12, <2>1 DEF Invalidate, Answer, TypeOK, Place, Placed, Creating, Reading
<1>13. ASSUME NEW r \in Request, NEW k \in Key, Hit(r, k) \/ Missed(r, k)
       PROVE  TypeInv'
  <2>1. known' \in [Request -> SUBSET Logins]
    <3>1. {task[c].login : c \in Created} \subseteq Logins
      BY DEF Created, Placed, Logins
    <3> QED BY <1>13, <3>1 DEF Hit, Missed, Begin, TypeOK
  <2>2. Cache!CacheTypeOK'
    BY <1>0, <1>11, <1>13, CacheGet DEF Hit, Missed
  <2>3. Cache!Lookup(k) # Cache!Miss => Cache!Lookup(k) \in List
    BY <1>0 DEF Cache!Lookup, Cache!CacheTypeOK, Cache!Entry
  <2>4. CASE Hit(r, k)
    BY <2>1, <2>2, <2>3, <2>4
       DEF Hit, Begin, Answer, TypeOK, Place, Placed, Creating, Reading
  <2>5. CASE Missed(r, k)
    BY <2>1, <2>2, <2>5
       DEF Missed, Begin, Proceed, TypeOK, Place, Placed, Creating, Reading
  <2> QED BY <1>13, <2>4, <2>5
<1>14. ASSUME NEW r \in Request, NEW failed \in BOOLEAN, Read(r, failed)
       PROVE  TypeInv'
  <2> DEFINE found == IF failed THEN {} ELSE Matching(task[r])
             list == [found |-> found, readAt |-> now, filledAt |-> now,
                      failed |-> failed]
  <2>1. list \in List
    BY <1>0 DEF Matching, List, TypeOK
  <2>2. Cache!CacheTypeOK'
    BY <1>0, <1>14 DEF Read, Cache!CacheTypeOK
  <2>3. held' = [held EXCEPT ![r] = list]
    BY <1>14 DEF Read
  <2>4. \/ Answer(r, 404)
        \/ Proceed(r, "read", "fill")
    BY <1>14 DEF Read
  <2>5. pc[r] = "read" /\ UNCHANGED <<now, cache, users, events, task, known>>
    BY <1>14 DEF Read
  <2> HIDE DEF list
  <2>6. CASE Answer(r, 404)
    BY <2>1, <2>2, <2>3, <2>5, <2>6 DEF Answer, TypeOK, Place, Placed, Creating, Reading
  <2>7. CASE Proceed(r, "read", "fill")
    BY <2>1, <2>2, <2>3, <2>5, <2>7 DEF Proceed, TypeOK, Place, Placed, Creating, Reading
  <2> QED BY <2>4, <2>6, <2>7
<1>15. ASSUME NEW r \in Request, Fill(r) PROVE TypeInv'
  <2> DEFINE list == [held[r] EXCEPT !.filledAt = now]
  <2>1. held[r] \in List /\ task[r] \in Key
    BY <1>15 DEF Fill, Placed, Reading
  <2>2. list \in List
    BY <2>1 DEF List, TypeOK
  <2>3. Ttl(task[r]) \in Nat
    BY <1>0 DEF Ttl
  <2>4. /\ pc[r] = "fill" /\ Cache!Put(task[r], list, Ttl(task[r]))
        /\ held' = [held EXCEPT ![r] = list] /\ Answer(r, 200)
        /\ UNCHANGED <<now, users, events, task, known>>
    BY <1>15 DEF Fill
  <2>5. Cache!CacheTypeOK'
    BY <1>0, <2>1, <2>2, <2>3, <2>4, CachePut DEF Cache!CacheTypeOK
  <2> HIDE DEF list
  <2> QED BY <2>1, <2>2, <2>4, <2>5 DEF Answer, TypeOK, Place, Placed, Creating, Reading
<1>16. CASE Restart
  <2>1. Cache!CacheTypeOK'
    BY <1>0, <1>11, <1>16, CacheClear DEF Restart
  <2> QED BY <1>16, <2>1 DEF Restart, InFlight, TypeOK, Place, Placed, Creating, Reading
<1>17. CASE Tick
  BY <1>0, <1>17 DEF Tick, TypeOK, Placed, Cache!CacheTypeOK
<1> QED BY <1>1, <1>2, <1>3, <1>4, <1>5, <1>7, <1>8, <1>9, <1>10, <1>12, <1>13,
           <1>14, <1>15, <1>16, <1>17 DEF Next

\* The service is well typed, and a request is at one place with one task.
THEOREM TypeCorrect == Spec => [](TypeOK /\ Placed)
BY TypeInit, TypeNext, PTL DEF Spec, TypeInv

---------------------------------------------------------------------------
\* What is stored.

Early == {"new", "checkLogin", "checkEmail", "insert"}

\* A user is the only one with its login or e-mail and is what its request
\* asked for; a request past the insert has a user, past the publication an
\* announced one.
Stored ==
  /\ events \subseteq users
  /\ \A u \in users : pc[u.id] \notin Early /\ task[u.id] = u.form
  /\ \A u, v \in users :
       (u.form.login = v.form.login \/ u.form.email = v.form.email) => u = v
  /\ \A r \in Request :
       /\ (pc[r] \in {"publish", "invalidate"} \/ answer[r] = 201) => Own(r) # {}
       /\ (pc[r] = "invalidate" \/ answer[r] = 201) => Own(r) \subseteq events

\* A step that stores, announces and acknowledges nobody.
LEMMA StoredKept ==
  ASSUME TypeInv, Stored, UNCHANGED <<users, events>>,
         \A r \in Request :
           /\ pc[r] \notin Early => pc'[r] \notin Early /\ task'[r] = task[r]
           /\ pc'[r] \in {"publish", "invalidate"} => pc'[r] = pc[r]
           /\ answer'[r] = 201 => answer[r] = 201
  PROVE  Stored'
BY DEF TypeInv, TypeOK, Stored, Own, User

\* A new user, met by no unique index.
LEMMA StoredInsert ==
  ASSUME TypeInv, Stored, NEW r \in Request, Store(r), UNCHANGED <<events, task>>,
         \/ Proceed(r, "insert", "publish")
         \/ Answer(r, 409)
  PROVE  Stored'
<1> USE DEF TypeInv
<1>1. /\ users' = users \cup {Mine(r)}
      /\ Mine(r).id = r /\ Mine(r).form = task[r]
      /\ \A u \in users : /\ u.form.login # task[r].login
                          /\ u.form.email # task[r].email
  BY DEF Store, Mine, Indexed
<1>2. /\ pc' \in [Request -> Place] /\ pc[r] = "insert" /\ pc'[r] \in {"publish", "done"}
      /\ \A q \in Request \ {r} : pc'[q] = pc[q] /\ answer'[q] = answer[q]
      /\ answer'[r] # 201
  BY DEF Store, Proceed, Answer, TypeOK, Placed, Place
<1>3. \A u \in users : u.id \in Request /\ u.id # r
  BY <1>2 DEF Stored, TypeOK, User, Early
<1>4. \A q \in Request : q # r => Own(q)' = Own(q)
  BY <1>1 DEF Own
<1>5. Mine(r) \in Own(r)'
  BY <1>1 DEF Own
<1>6. events' \subseteq users'
  BY <1>1 DEF Stored
<1>7. \A u \in users' : pc'[u.id] \notin Early /\ task'[u.id] = u.form
  BY <1>1, <1>2, <1>3 DEF Stored, Early
<1>8. \A u, v \in users' :
        (u.form.login = v.form.login \/ u.form.email = v.form.email) => u = v
  BY <1>1 DEF Stored
<1>9. \A q \in Request :
        /\ (pc'[q] \in {"publish", "invalidate"} \/ answer'[q] = 201) => Own(q)' # {}
        /\ (pc'[q] = "invalidate" \/ answer'[q] = 201) => Own(q)' \subseteq events'
  <2> SUFFICES ASSUME NEW q \in Request
               PROVE  /\ (pc'[q] \in {"publish", "invalidate"} \/ answer'[q] = 201)
                           => Own(q)' # {}
                      /\ (pc'[q] = "invalidate" \/ answer'[q] = 201)
                           => Own(q)' \subseteq events'
    OBVIOUS
  <2>1. CASE q = r
    BY <1>2, <1>5, <2>1
  <2>2. CASE q # r
    BY <1>2, <1>4, <2>2 DEF Stored
  <2> QED BY <2>1, <2>2
<1> QED BY <1>6, <1>7, <1>8, <1>9 DEF Stored

LEMMA StoredNext == TypeInv /\ Stored /\ [Next]_vars => Stored'
<1> SUFFICES ASSUME TypeInv, Stored, [Next]_vars PROVE Stored'
  OBVIOUS
<1> USE DEF TypeInv
<1>1. CASE UNCHANGED vars
  BY <1>1, StoredKept DEF vars
<1>2. ASSUME NEW r \in Request, NEW f \in Form, BeginCreate(r, f) PROVE Stored'
  BY <1>2, StoredKept DEF BeginCreate, Begin, Proceed, TypeOK, Early
<1>3. ASSUME NEW r \in Request, CheckLogin(r) \/ CheckEmail(r) \/ Conflict(r)
      PROVE  Stored'
  BY <1>3, StoredKept DEF CheckLogin, CheckEmail, Conflict, Proceed, Answer, TypeOK, Early
<1>4. ASSUME NEW r \in Request, Insert(r) \/ InsertUnacknowledged(r) PROVE Stored'
  BY <1>4, StoredInsert DEF Insert, InsertUnacknowledged
<1>5. ASSUME NEW r \in Request, Publish(r) \/ PublishFails(r) PROVE Stored'
  <2>1. /\ UNCHANGED <<users, task>> /\ pc[r] = "publish"
        /\ Publish(r) => events' = events \cup Own(r)
        /\ events \subseteq events' /\ events' \subseteq events \cup Own(r)
    BY <1>5 DEF Publish, PublishFails, Proceed
  <2>2. /\ \A q \in Request \ {r} : pc'[q] = pc[q] /\ answer'[q] = answer[q]
        /\ pc'[r] \in {"invalidate", "done"} /\ answer'[r] # 201
        /\ pc'[r] = "invalidate" => Publish(r)
    BY <1>5 DEF Publish, PublishFails, Proceed, Answer, TypeOK, Placed
  <2>3. \A q \in Request : Own(q)' = Own(q) /\ Own(q) \subseteq users
    BY <2>1 DEF Own
  <2>4. events' \subseteq users'
    BY <2>1, <2>3 DEF Stored
  <2>5. \A u \in users' : pc'[u.id] \notin Early /\ task'[u.id] = u.form
    BY <2>1, <2>2 DEF Stored, Early, TypeOK, User
  <2>6. \A q \in Request :
          /\ (pc'[q] \in {"publish", "invalidate"} \/ answer'[q] = 201) => Own(q)' # {}
          /\ (pc'[q] = "invalidate" \/ answer'[q] = 201) => Own(q)' \subseteq events'
    BY <2>1, <2>2, <2>3 DEF Stored
  <2> QED BY <2>1, <2>4, <2>5, <2>6 DEF Stored
<1>6. ASSUME NEW r \in Request, Invalidate(r) PROVE Stored'
  <2>1. /\ UNCHANGED <<users, events, task>> /\ pc[r] = "invalidate"
        /\ \A q \in Request \ {r} : pc'[q] = pc[q] /\ answer'[q] = answer[q]
        /\ pc'[r] = "done"
    BY <1>6 DEF Invalidate, Answer, TypeOK
  <2>2. \A q \in Request : Own(q)' = Own(q)
    BY <2>1 DEF Own
  <2> QED BY <2>1, <2>2 DEF Stored, Early, TypeOK, User
<1>7. ASSUME NEW r \in Request, NEW k \in Key, Hit(r, k) \/ Missed(r, k) PROVE Stored'
  BY <1>7, StoredKept DEF Hit, Missed, Begin, Proceed, Answer, TypeOK, Early
<1>8. ASSUME NEW r \in Request, NEW failed \in BOOLEAN, Read(r, failed) PROVE Stored'
  <2>1. \/ Answer(r, 404) \/ Proceed(r, "read", "fill")
    BY <1>8 DEF Read
  <2>2. pc[r] = "read" /\ UNCHANGED <<users, events, task>>
    BY <1>8 DEF Read
  <2> QED BY <2>1, <2>2, StoredKept DEF Proceed, Answer, TypeOK, Early
<1>9. ASSUME NEW r \in Request, Fill(r) PROVE Stored'
  BY <1>9, StoredKept DEF Fill, Answer, TypeOK, Early
<1>10. CASE Restart
  BY <1>10, StoredKept DEF Restart, InFlight, TypeOK, Early
<1>11. CASE Tick
  BY <1>11, StoredKept DEF Tick
<1> QED BY <1>1, <1>2, <1>3, <1>4, <1>5, <1>6, <1>7, <1>8, <1>9, <1>10, <1>11 DEF Next

LEMMA StoredInit == Init => Stored
BY DEF Init, Stored, Own

---------------------------------------------------------------------------
\* The service is a registry.

LEMMA RegistryInit == Init => R!Init
BY DEF Init, R!Init, Created

\* A step that changes none of what the registry is about.
LEMMA RegistryKept ==
  ASSUME UNCHANGED <<users, events>>, Created' = Created,
         \A r \in Created : task'[r] = task[r]
  PROVE  UNCHANGED R!vars
BY DEF R!vars, Created

\* The steps of a request before and after its answer leave the answered alone.
LEMMA CreatedKept ==
  ASSUME TypeInv, NEW r \in Request, pc[r] # "done",
         \/ \E from, to \in Place : Proceed(r, from, to)
         \/ \E status : status # 201 /\ Answer(r, status)
  PROVE  Created' = Created /\ r \notin Created
BY DEF TypeInv, TypeOK, Placed, Proceed, Answer, Created

LEMMA RegistryNext ==
  TypeInv /\ Stored /\ [Next]_vars => [R!Next]_(R!vars)
<1> SUFFICES ASSUME TypeInv, Stored, [Next]_vars PROVE [R!Next]_(R!vars)
  OBVIOUS
<1> USE DEF TypeInv
<1>1. CASE UNCHANGED vars
  BY <1>1, RegistryKept DEF vars, Created
<1>2. ASSUME NEW r \in Request, NEW f \in Form, BeginCreate(r, f)
      PROVE  UNCHANGED R!vars
  <2>1. Created' = Created /\ r \notin Created
    BY <1>2, CreatedKept DEF BeginCreate, Proceed, Place
  <2> QED BY <1>2, <2>1, RegistryKept DEF BeginCreate, Begin, TypeOK, Created
<1>3. ASSUME NEW r \in Request, CheckLogin(r) \/ CheckEmail(r) \/ Conflict(r)
      PROVE  UNCHANGED R!vars
  <2>1. Created' = Created
    BY <1>3, CreatedKept DEF CheckLogin, CheckEmail, Conflict, Proceed, Place
  <2> QED BY <1>3, <2>1, RegistryKept DEF CheckLogin, CheckEmail, Conflict
<1>4. ASSUME NEW r \in Request, Insert(r) \/ InsertUnacknowledged(r)
      PROVE  \E a \in {Identity(q, f) : q \in Request, f \in Form} : R!Register(a)
  <2>1. pc[r] = "insert" /\ UNCHANGED <<events, task>> /\ users' = users \cup {Mine(r)}
    BY <1>4 DEF Insert, InsertUnacknowledged, Store
  <2>2. Created' = Created
    BY <1>4, <2>1, CreatedKept DEF Insert, InsertUnacknowledged, Place
  <2>3. task[r] \in Form
    BY <2>1 DEF Placed, Creating
  <2>4. Identity(Mine(r).id, Mine(r).form) = Identity(r, task[r])
    BY DEF Mine
  <2>5. {Identity(u.id, u.form) : u \in users'}
          = {Identity(u.id, u.form) : u \in users} \cup {Identity(r, task[r])}
    BY <2>1, <2>4
  <2>6. \A b \in {Identity(u.id, u.form) : u \in users} : ~ R!Clash(Identity(r, task[r]), b)
    <3>1. Indexed(task[r])
      BY <1>4 DEF Insert, InsertUnacknowledged, Store
    <3> QED BY <3>1 DEF Indexed, Identity, R!Clash
  <2>7. R!Register(Identity(r, task[r]))
    BY <2>1, <2>2, <2>5, <2>6 DEF R!Register, Created
  <2> QED BY <2>3, <2>7
<1>5. ASSUME NEW r \in Request, Publish(r) \/ PublishFails(r)
      PROVE  \/ UNCHANGED R!vars
             \/ \E a \in {Identity(q, f) : q \in Request, f \in Form} : R!Announce(a)
  <2>1. /\ pc[r] = "publish" /\ UNCHANGED <<users, task>>
        /\ events' = events \/ events' = events \cup Own(r)
    BY <1>5 DEF Publish, PublishFails, Proceed
  <2>2. Created' = Created
    BY <1>5, <2>1, CreatedKept DEF Publish, PublishFails, Place
  <2>3. task[r] \in Form
    BY <2>1 DEF Placed, Creating
  <2>4. CASE events' = events
    BY <2>1, <2>2, <2>4, RegistryKept
  <2>5. CASE events' = events \cup Own(r)
    <3>1. /\ {Identity(u.id, u.form) : u \in Own(r)} = {Identity(r, task[r])}
          /\ Own(r) \subseteq users
      <4>1. Own(r) # {} /\ \A u \in Own(r) : u \in users /\ u.id = r /\ u.form = task[r]
        BY <2>1 DEF Stored, Own
      <4> QED BY <4>1
    <3>2. {Identity(u.id, u.form) : u \in events'}
            = {Identity(u.id, u.form) : u \in events} \cup {Identity(r, task[r])}
      BY <2>5, <3>1
    <3>3. Identity(r, task[r]) \in {Identity(u.id, u.form) : u \in users}
      BY <3>1
    <3>4. R!Announce(Identity(r, task[r]))
      BY <2>1, <2>2, <3>2, <3>3 DEF R!Announce, Created
    <3> QED BY <2>3, <3>4
  <2> QED BY <2>1, <2>4, <2>5
<1>6. ASSUME NEW r \in Request, Invalidate(r)
      PROVE  \E a \in {Identity(q, f) : q \in Request, f \in Form} : R!Acknowledge(a)
  <2>1. /\ pc[r] = "invalidate" /\ UNCHANGED <<users, events, task>>
        /\ answer' = [answer EXCEPT ![r] = 201]
    BY <1>6 DEF Invalidate, Answer
  <2>2. Created' = Created \cup {r} /\ r \notin Created
    BY <2>1 DEF Created, TypeOK, Placed
  <2>3. task[r] \in Form
    BY <2>1 DEF Placed, Creating
  <2>4. Identity(r, task[r]) \in {Identity(u.id, u.form) : u \in events}
    <3>1. Own(r) # {} /\ Own(r) \subseteq events
            /\ \A u \in Own(r) : u.id = r /\ u.form = task[r]
      BY <2>1 DEF Stored, Own
    <3> QED BY <3>1
  <2>5. Identity(r, task[r]) \notin {Identity(q, task[q]) : q \in Created}
    BY <2>2 DEF Identity
  <2>6. {Identity(q, task'[q]) : q \in Created'}
          = {Identity(q, task[q]) : q \in Created} \cup {Identity(r, task[r])}
    BY <2>1, <2>2
  <2>7. R!Acknowledge(Identity(r, task[r]))
    BY <2>1, <2>4, <2>5, <2>6 DEF R!Acknowledge
  <2> QED BY <2>3, <2>7
<1>7. ASSUME NEW r \in Request, NEW k \in Key, Hit(r, k) \/ Missed(r, k)
      PROVE  UNCHANGED R!vars
  <2>1. Created' = Created /\ r \notin Created
    BY <1>7, CreatedKept DEF Hit, Missed, Begin, Place
  <2> QED BY <1>7, <2>1, RegistryKept DEF Hit, Missed, Begin, TypeOK, Created
<1>8. ASSUME NEW r \in Request, NEW failed \in BOOLEAN, Read(r, failed)
      PROVE  UNCHANGED R!vars
  <2>1. pc[r] = "read" /\ UNCHANGED <<users, events, task>>
        /\ (Answer(r, 404) \/ Proceed(r, "read", "fill"))
    BY <1>8 DEF Read
  <2>2. Created' = Created
    BY <2>1, CreatedKept DEF Place
  <2> QED BY <2>1, <2>2, RegistryKept
<1>9. ASSUME NEW r \in Request, Fill(r) PROVE UNCHANGED R!vars
  <2>1. pc[r] = "fill" /\ UNCHANGED <<users, events, task>> /\ Answer(r, 200)
    BY <1>9 DEF Fill
  <2>2. Created' = Created
    BY <2>1, CreatedKept DEF Place
  <2> QED BY <2>1, <2>2, RegistryKept
<1>10. CASE Restart \/ Tick
  BY <1>10, RegistryKept DEF Restart, Tick, Created
<1> QED BY <1>1, <1>2, <1>3, <1>4, <1>5, <1>6, <1>7, <1>8, <1>9, <1>10
        DEF Next, R!Next

\* However registrations race, fail and are interrupted, the service implements
\* the registry: no login or e-mail twice, no event without a user, no 201
\* without an event.
THEOREM Implementation == Spec => ImplementsRegistry
BY RegistryInit, RegistryNext, TypeInit, TypeNext, StoredInit, StoredNext, PTL
   DEF Spec, ImplementsRegistry, R!Spec

---------------------------------------------------------------------------
\* What is read.

\* The list tells the truth about key k: a login's is its user, and a search's
\* misses no user older than itself unless its query failed.
Truthful(list, k) ==
  /\ list.readAt <= now
  /\ k.kind = "login" => \E u \in users : list.found = {u} /\ u.form.login = k.of
  /\ k.kind = "search" =>
       list.failed \/ \A u \in Matching(k) \ list.found : list.readAt <= u.when

\* Somebody is or may be answered list for k.
Offered(list, k) ==
  \/ cache[k] # Cache!Absent /\ cache[k].value = list
  \/ \E r \in Request :
       (pc[r] = "fill" \/ answer[r] = 200) /\ held[r] = list /\ task[r] = k

Listed ==
  /\ \A k \in Key, list \in List : Offered(list, k) => Truthful(list, k)
  /\ \A k \in Key : cache[k] # Cache!Absent =>
       cache[k].expiry = cache[k].value.filledAt + Ttl(k)

\* Neither the clock nor a new user makes a truthful list wrong.
LEMMA TruthfulKept ==
  ASSUME TypeInv, NEW list \in List, NEW k \in Key, Truthful(list, k),
         now' \in Nat, now <= now',
         \/ UNCHANGED users
         \/ \E r : users' = users \cup {Mine(r)}
  PROVE  Truthful(list, k)'
<1>1. /\ list.readAt \in Nat /\ now \in Nat /\ list.readAt <= now
      /\ k.kind = "login" \/ k.kind = "search"
  BY KeyFact, ServiceAssumption DEF List, Truthful, TypeInv, TypeOK
<1>2. \A u \in users' \ users : u.when = now
  BY DEF Mine
<1>3. users \subseteq users'
  OBVIOUS
<1>4. k.kind = "search" => \A u \in Matching(k)' \ Matching(k) : u.when = now
  BY <1>2 DEF Matching
<1>5. list.readAt <= now'
  BY <1>1
<1>6. k.kind = "search" =>
        list.failed \/ \A u \in Matching(k)' \ list.found : list.readAt <= u.when
  BY <1>1, <1>4 DEF Truthful
<1> QED BY <1>3, <1>5, <1>6 DEF Truthful

\* A step that puts nothing into the cache and, for the rest, makes offers that
\* were made already or are truthful.
LEMMA ListedKept ==
  ASSUME TypeInv, Listed, Shrinks \/ UNCHANGED cache,
         now' \in Nat, now <= now',
         \/ UNCHANGED users
         \/ \E r : users' = users \cup {Mine(r)},
         \A r \in Request :
           (pc'[r] = "fill" \/ answer'[r] = 200) =>
             \/ /\ pc[r] = "fill" \/ answer[r] = 200
                /\ held'[r] = held[r] /\ task'[r] = task[r]
             \/ cache[task'[r]] # Cache!Absent /\ cache[task'[r]].value = held'[r]
  PROVE  Listed'
<1>1. \A k \in Key : cache'[k] # Cache!Absent => cache'[k] = cache[k]
  BY DEF Shrinks
<1>2. ASSUME NEW k \in Key, NEW list \in List, Offered(list, k)'
      PROVE  Truthful(list, k)'
  <2>1. Offered(list, k)
    BY <1>1, <1>2 DEF Offered
  <2>2. Truthful(list, k)
    BY <2>1 DEF Listed
  <2> QED BY <2>2, TruthfulKept
<1>3. \A k \in Key : cache'[k] # Cache!Absent =>
        cache'[k].expiry = cache'[k].value.filledAt + Ttl(k)
  BY <1>1 DEF Listed
<1> QED BY <1>2, <1>3 DEF Listed, Ttl

LEMMA ListedInit == Init => Listed
BY DEF Init, Listed, Offered, Cache!CacheInit

LEMMA ListedNext == TypeInv /\ Stored /\ Listed /\ [Next]_vars => Listed'
<1> SUFFICES ASSUME TypeInv, Stored, Listed, [Next]_vars PROVE Listed'
  OBVIOUS
<1> USE DEF TypeInv
<1>0. now \in Nat /\ Cache!CacheTypeOK
  BY DEF TypeOK, Cache!CacheTypeOK
<1>1. CASE UNCHANGED vars
  BY <1>0, <1>1, ListedKept DEF vars
<1>2. ASSUME NEW r \in Request, NEW f \in Form, BeginCreate(r, f) PROVE Listed'
  BY <1>0, <1>2, ListedKept DEF BeginCreate, Begin, Proceed, TypeOK, Placed
<1>3. ASSUME NEW r \in Request,
             \/ CheckLogin(r) \/ CheckEmail(r) \/ Conflict(r)
             \/ Publish(r) \/ PublishFails(r)
      PROVE  Listed'
  BY <1>0, <1>3, ListedKept
     DEF CheckLogin, CheckEmail, Conflict, Publish, PublishFails, Proceed, Answer, TypeOK
<1>4. ASSUME NEW r \in Request, Insert(r) \/ InsertUnacknowledged(r) PROVE Listed'
  BY <1>0, <1>4, ListedKept
     DEF Insert, InsertUnacknowledged, Store, Proceed, Answer, TypeOK
<1>5. ASSUME NEW r \in Request, Invalidate(r) PROVE Listed'
  <2>1. Shrinks
    BY <1>0, <1>5, CacheInvalidate DEF Invalidate
  <2> QED BY <1>0, <1>5, <2>1, ListedKept DEF Invalidate, Answer, TypeOK
<1>6. ASSUME NEW r \in Request, NEW k \in Key, Hit(r, k) \/ Missed(r, k) PROVE Listed'
  <2>1. Shrinks
    BY <1>0, <1>6, CacheGet DEF Hit, Missed
  <2>2. Hit(r, k) => cache[k] # Cache!Absent /\ cache[k].value = held'[r] /\ task'[r] = k
    BY DEF Hit, Begin, TypeOK, Cache!Lookup
  <2> QED BY <1>0, <1>6, <2>1, <2>2, ListedKept
          DEF Hit, Missed, Begin, Proceed, Answer, TypeOK, Placed
<1>7. ASSUME NEW r \in Request, NEW failed \in BOOLEAN, Read(r, failed) PROVE Listed'
  <2> DEFINE found == IF failed THEN {} ELSE Matching(task[r])
             list == [found |-> found, readAt |-> now, filledAt |-> now,
                      failed |-> failed]
  <2>1. /\ pc[r] = "read" /\ task[r] \in Key
        /\ UNCHANGED <<now, cache, users, events, task, known>>
        /\ held' = [held EXCEPT ![r] = list]
        /\ IF task[r].kind = "login" /\ found = {} THEN Answer(r, 404)
                                                    ELSE Proceed(r, "read", "fill")
    BY <1>7 DEF Read, Placed, Reading
  <2>2. CASE Answer(r, 404)
    BY <1>0, <2>1, <2>2, ListedKept DEF Answer, TypeOK
  <2>3. CASE ~ (task[r].kind = "login" /\ found = {})
    <3>1. Truthful(list, task[r])
      <4>1. now <= now
        BY <1>0
      <4>2. task[r].kind = "login" => \E u \in users : found = {u} /\ u.form.login = task[r].of
        BY <2>3 DEF Matching, Stored
      <4>3. task[r].kind = "search" => failed \/ Matching(task[r]) \ found = {}
        OBVIOUS
      <4> QED BY <4>1, <4>2, <4>3 DEF Truthful
    <3>2. \A k \in Key, other \in List :
            Offered(other, k)' => Offered(other, k) \/ (other = list /\ k = task[r])
      BY <2>1, <2>3 DEF Offered, Proceed, TypeOK
    <3>3. \A k \in Key, other \in List : Offered(other, k)' => Truthful(other, k)
      BY <3>1, <3>2 DEF Listed
    <3>4. \A k \in Key, other \in List : Truthful(other, k) => Truthful(other, k)'
      BY <1>0, <2>1 DEF Truthful, Matching
    <3> QED BY <2>1, <3>3, <3>4 DEF Listed
  <2> QED BY <2>1, <2>2, <2>3
<1>8. ASSUME NEW r \in Request, Fill(r) PROVE Listed'
  <2> DEFINE list == [held[r] EXCEPT !.filledAt = now]
  <2>1. held[r] \in List /\ task[r] \in Key
    BY <1>8 DEF Fill, Placed, Reading
  <2>2. /\ list \in List /\ list.filledAt = now /\ list.found = held[r].found
        /\ list.readAt = held[r].readAt /\ list.failed = held[r].failed
    BY <2>1 DEF List, TypeOK
  <2>3. Ttl(task[r]) \in Nat
    BY ServiceAssumption DEF Ttl
  <2>4. /\ pc[r] = "fill" /\ Cache!Put(task[r], list, Ttl(task[r]))
        /\ held' = [held EXCEPT ![r] = list] /\ Answer(r, 200)
        /\ UNCHANGED <<now, users, events, task, known>>
    BY <1>8 DEF Fill
  <2> HIDE DEF list
  <2>5. \A j \in Key :
          \/ cache'[j] = cache[j] \/ cache'[j] = Cache!Absent
          \/ j = task[r] /\ cache'[j] = [value |-> list, expiry |-> now + Ttl(task[r])]
    BY <1>0, <2>1, <2>2, <2>3, <2>4, CachePut
  <2>6. Truthful(list, task[r])
    <3>1. Offered(held[r], task[r])
      BY <2>4 DEF Offered
    <3>2. Truthful(held[r], task[r])
      BY <2>1, <3>1 DEF Listed
    <3> QED BY <2>2, <3>2 DEF Truthful
  <2>7. \A k \in Key, other \in List :
          Offered(other, k)' => Offered(other, k) \/ (other = list /\ k = task[r])
    BY <2>4, <2>5 DEF Offered, Answer, TypeOK
  <2>8. \A k \in Key, other \in List : Offered(other, k)' => Truthful(other, k)
    BY <2>6, <2>7 DEF Listed
  <2>9. \A k \in Key, other \in List : Truthful(other, k) => Truthful(other, k)'
    BY <2>4 DEF Truthful, Matching
  <2>10. \A k \in Key : cache'[k] # Cache!Absent =>
           cache'[k].expiry = cache'[k].value.filledAt + Ttl(k)
    BY <2>2, <2>5 DEF Listed
  <2> QED BY <2>8, <2>9, <2>10 DEF Listed, Ttl
<1>9. CASE Restart
  <2>1. Shrinks
    BY <1>0, <1>9, CacheClear DEF Restart
  <2> QED BY <1>0, <1>9, <2>1, ListedKept DEF Restart, TypeOK
<1>10. CASE Tick
  BY <1>0, <1>10, ListedKept DEF Tick
<1> QED BY <1>1, <1>2, <1>3, <1>4, <1>5, <1>6, <1>7, <1>8, <1>9, <1>10 DEF Next

\* Everybody who is told about a login, by a 201 or by a list, is told of its
\* one stored user.
THEOREM OneIdentityForAll == Spec => []OneIdentity
<1>1. TypeInv /\ Stored /\ Listed => OneIdentity
  <2> SUFFICES ASSUME TypeInv, Stored, Listed,
                      NEW l \in Logins, NEW r \in Request, FoundByLogin(r, l)
               PROVE  /\ \E u \in users : held[r].found = {u} /\ u.form.login = l
                      /\ \A s \in Request :
                           /\ FoundByLogin(s, l) => held[s].found = held[r].found
                           /\ (s \in Created /\ task[s].login = l)
                                => Own(s) = held[r].found
    BY DEF OneIdentity
  <2>1. ASSUME NEW s \in Request, FoundByLogin(s, l)
        PROVE  \E u \in users : held[s].found = {u} /\ u.form.login = l
    <3>1. answer[s] = 200 /\ task[s] = LoginKey(l) /\ held[s] \in List
      BY <2>1 DEF FoundByLogin, TypeInv, Placed
    <3>2. Offered(held[s], LoginKey(l))
      BY <3>1 DEF Offered
    <3>3. Truthful(held[s], LoginKey(l))
      BY <3>1, <3>2, LoginKeyFact DEF Listed
    <3> QED BY <3>3, LoginKeyFact DEF Truthful
  <2>2. PICK u \in users : held[r].found = {u} /\ u.form.login = l
    BY <2>1
  <2>3. \A v \in users : v.form.login = l => v = u
    BY <2>2 DEF Stored
  <2>4. ASSUME NEW s \in Request, s \in Created, task[s].login = l
        PROVE  Own(s) = {u}
    <3>1. Own(s) # {} /\ \A v \in Own(s) : v \in users /\ v.form = task[s]
      BY <2>4 DEF Stored, Created, Own
    <3> QED BY <2>3, <2>4, <3>1
  <2> QED BY <2>1, <2>2, <2>3, <2>4
<1> QED BY <1>1, TypeInit, TypeNext, StoredInit, StoredNext, ListedInit, ListedNext, PTL
        DEF Spec

---------------------------------------------------------------------------
\* What a search is answered.

LEMMA SearchStep ==
  ASSUME TypeInv, [Next]_vars, NEW r \in Request,
         answer[r] = 0, answer'[r] = 200
  PROVE  \/ \E k \in Key : Hit(r, k)
         \/ Fill(r)
<1> USE DEF TypeInv, TypeOK
<1>1. \A q \in Request :
        /\ \A f \in Form : ~ BeginCreate(q, f)
        /\ ~ CheckLogin(q) /\ ~ CheckEmail(q) /\ ~ Conflict(q)
        /\ ~ Insert(q) /\ ~ InsertUnacknowledged(q)
        /\ ~ Publish(q) /\ ~ PublishFails(q) /\ ~ Invalidate(q)
        /\ \A k \in Key : ~ Missed(q, k)
        /\ \A failed \in BOOLEAN : ~ Read(q, failed)
  BY DEF BeginCreate, CheckLogin, CheckEmail, Conflict, Insert, InsertUnacknowledged,
         Publish, PublishFails, Invalidate, Missed, Read, Proceed, Answer
<1>2. ~ UNCHANGED answer
  OBVIOUS
<1>3. \A q \in Request : ((\E k \in Key : Hit(q, k)) \/ Fill(q)) => q = r
  BY DEF Hit, Fill, Answer
<1> QED BY <1>1, <1>2, <1>3 DEF Next, vars, Restart, Tick

\* A search misses a stored user only if the list was read before the user was
\* stored, or by a query that failed, and was cached no longer than SearchTtl ago.
THEOREM SearchStalenessBounded == Spec => SearchStaleness
<1>1. ASSUME TypeInv, Listed, [Next]_vars, NEW r \in Request,
             answer[r] = 0, answer'[r] = 200, task'[r].kind = "search"
      PROVE  /\ \/ held'[r].failed
                \/ \A u \in Matching(task'[r]) \ held'[r].found : held'[r].readAt <= u.when
             /\ now <= held'[r].filledAt + SearchTtl
  <2> USE <1>1 DEF TypeInv, TypeOK
  <2>1. now \in Nat /\ SearchTtl \in Nat
    BY ServiceAssumption
  <2>2. ASSUME NEW k \in Key, Hit(r, k)
        PROVE  /\ Truthful(cache[k].value, k)
               /\ now <= cache[k].value.filledAt + SearchTtl
               /\ held'[r] = cache[k].value /\ task'[r] = k
    <3>1. /\ cache[k] # Cache!Absent /\ ~ Cache!Expired(cache[k])
          /\ held'[r] = cache[k].value /\ task'[r] = k
      BY <2>2 DEF Hit, Begin, Cache!Lookup
    <3>2. cache[k] \in Cache!Entry
      BY <3>1 DEF Cache!CacheTypeOK
    <3>3. Offered(cache[k].value, k)
      BY <3>1 DEF Offered
    <3>4. Truthful(cache[k].value, k)
      BY <3>2, <3>3 DEF Listed, Cache!Entry
    <3>5. now <= cache[k].expiry
      BY <2>1, <3>1, <3>2 DEF Cache!Expired, Cache!Entry
    <3>6. cache[k].expiry = cache[k].value.filledAt + SearchTtl
      BY <3>1 DEF Listed, Ttl
    <3> QED BY <3>1, <3>4, <3>5, <3>6
  <2>3. CASE \E k \in Key : Hit(r, k)
    BY <2>2, <2>3 DEF Truthful
  <2>4. CASE Fill(r)
    <3>1. pc[r] = "fill" /\ held[r] \in List /\ task[r] \in Key /\ task'[r] = task[r]
      BY <2>4 DEF Fill, Placed, Reading
    <3>2. /\ held'[r].filledAt = now /\ held'[r].found = held[r].found
          /\ held'[r].readAt = held[r].readAt /\ held'[r].failed = held[r].failed
      BY <2>4, <3>1 DEF Fill, List
    <3>3. Offered(held[r], task[r])
      BY <3>1 DEF Offered
    <3>4. Truthful(held[r], task[r])
      BY <3>1, <3>3 DEF Listed
    <3> QED BY <2>1, <3>1, <3>2, <3>4 DEF Truthful
  <2> QED BY <2>3, <2>4, SearchStep
<1>2. TypeInv /\ Listed /\ [Next]_vars =>
        [\A r \in Request :
           (/\ answer[r] = 0 /\ answer'[r] = 200
            /\ task'[r].kind = "search"
            /\ Matching(task'[r]) \ held'[r].found # {})
           => LET list == held'[r] IN
              /\ \/ list.failed
                 \/ \A u \in Matching(task'[r]) \ list.found : list.readAt <= u.when
              /\ now <= list.filledAt + SearchTtl]_vars
  BY <1>1
<1> QED BY <1>2, TypeInit, TypeNext, StoredInit, StoredNext, ListedInit, ListedNext, PTL
        DEF Spec, SearchStaleness

---------------------------------------------------------------------------
\* What a registered client finds.

\* What a request knew when it began is stored, and a 404 is news to it.
Remembered ==
  \A r \in Request :
    /\ \A l \in known[r] : \E u \in users : u.form.login = l
    /\ (answer[r] = 404 /\ ~ held[r].failed) => task[r].of \notin known[r]

LEMMA RememberedInit == Init => Remembered
BY DEF Init, Remembered

\* A step that begins no call and answers none with 404.
LEMMA RememberedKept ==
  ASSUME Remembered, users \subseteq users', known' = known,
         \A r \in Request : answer'[r] = 404 =>
           answer[r] = 404 /\ held'[r] = held[r] /\ task'[r] = task[r]
  PROVE  Remembered'
BY DEF Remembered

LEMMA RememberedNext == TypeInv /\ Stored /\ Remembered /\ [Next]_vars => Remembered'
<1> SUFFICES ASSUME TypeInv, Stored, Remembered, [Next]_vars PROVE Remembered'
  OBVIOUS
<1> USE DEF TypeInv, TypeOK
<1>1. CASE UNCHANGED vars
  BY <1>1, RememberedKept DEF vars
<1>2. ASSUME NEW r \in Request, NEW what, Begin(r, what), UNCHANGED users,
             \/ pc'[r] # "new" /\ UNCHANGED <<answer, held>>
             \/ Answer(r, 200)
                  /\ \A q \in Request \ {r} : held'[q] = held[q]
      PROVE  Remembered'
  <2>1. \A c \in Created : \E u \in users : u.form.login = task[c].login
    BY DEF Created, Stored, Own
  <2>2. /\ known' = [known EXCEPT ![r] = {task[c].login : c \in Created}]
        /\ task' = [task EXCEPT ![r] = what] /\ pc[r] = "new"
    BY <1>2 DEF Begin
  <2>3. answer'[r] # 404
    BY <1>2, <2>2 DEF Answer, Placed
  <2>4. \A q \in Request \ {r} : /\ known'[q] = known[q] /\ task'[q] = task[q]
                                 /\ answer'[q] = answer[q] /\ held'[q] = held[q]
    BY <1>2, <2>2 DEF Answer
  <2> QED BY <1>2, <2>1, <2>2, <2>3, <2>4 DEF Remembered
<1>3. ASSUME NEW r \in Request, NEW f \in Form, BeginCreate(r, f) PROVE Remembered'
  BY <1>2, <1>3 DEF BeginCreate, Proceed
<1>4. ASSUME NEW r \in Request, NEW k \in Key, Hit(r, k) \/ Missed(r, k)
      PROVE  Remembered'
  BY <1>2, <1>4 DEF Hit, Missed, Proceed
<1>5. ASSUME NEW r \in Request,
             \/ CheckLogin(r) \/ CheckEmail(r) \/ Conflict(r)
             \/ Publish(r) \/ PublishFails(r) \/ Invalidate(r)
      PROVE  Remembered'
  BY <1>5, RememberedKept
     DEF CheckLogin, CheckEmail, Conflict, Publish, PublishFails, Invalidate,
         Proceed, Answer
<1>6. ASSUME NEW r \in Request, Insert(r) \/ InsertUnacknowledged(r) PROVE Remembered'
  BY <1>6, RememberedKept DEF Insert, InsertUnacknowledged, Store, Proceed, Answer
<1>7. ASSUME NEW r \in Request, NEW failed \in BOOLEAN, Read(r, failed)
      PROVE  Remembered'
  <2>1. /\ pc[r] = "read" /\ task[r] \in Key
        /\ UNCHANGED <<users, task, known>>
        /\ held'[r].failed = failed
        /\ \A q \in Request \ {r} : held'[q] = held[q]
    BY <1>7 DEF Read, Placed, Reading
  <2>2. CASE Proceed(r, "read", "fill")
    BY <2>1, <2>2 DEF Proceed, Placed, Remembered
  <2>3. CASE /\ Answer(r, 404)
             /\ task[r].kind = "login"
             /\ (IF failed THEN {} ELSE Matching(task[r])) = {}
    <3>1. ~ failed => \A u \in users : u.form.login # task[r].of
      BY <2>3 DEF Matching
    <3>2. ~ failed => task[r].of \notin known[r]
      BY <3>1 DEF Remembered
    <3> QED BY <2>1, <2>3, <3>2 DEF Answer, Remembered
  <2> QED BY <1>7, <2>2, <2>3 DEF Read
<1>8. ASSUME NEW r \in Request, Fill(r) PROVE Remembered'
  BY <1>8, RememberedKept DEF Fill, Answer, Placed
<1>9. CASE Restart \/ Tick
  BY <1>9, RememberedKept DEF Restart, Tick
<1> QED BY <1>1, <1>3, <1>4, <1>5, <1>6, <1>7, <1>8, <1>9 DEF Next

\* A find that begins after the 201 for its login never answers 404, unless its
\* own query failed.
THEOREM RegistrationIsRead == Spec => []ReadYourRegistration
<1>1. Remembered => ReadYourRegistration
  BY DEF Remembered, ReadYourRegistration
<1> QED BY <1>1, TypeInit, TypeNext, StoredInit, StoredNext,
           RememberedInit, RememberedNext, PTL DEF Spec
=============================================================================
