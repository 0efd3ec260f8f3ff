----------------------------- MODULE CacheProofs -----------------------------
(* What holds of the two caches in memory: InMemoryCache, for any callers, keys,
   values, lifetimes, patterns and size; and the read model, for any entities,
   events, consumers and readers.                                             *)
EXTENDS CacheContract, ReadModel, FiniteSetTheorems, TLAPS

(***************************************************************************)
(* CacheContract                                                           *)
(***************************************************************************)
---------------------------------------------------------------------------
\* The cache's operations.

\* The cache with a new entry in it, before anything is evicted.
Grown(k, v, ttl) == [cache EXCEPT ![k] = [value |-> v, expiry |-> now + ttl]]

LEMMA PutSteps ==
  ASSUME NEW k, NEW v, NEW ttl, Put(k, v, ttl)
  PROVE  \/ /\ Cardinality(Cached(Grown(k, v, ttl))) <= MaxSize
            /\ cache' = Grown(k, v, ttl)
         \/ /\ ~ (Cardinality(Cached(Grown(k, v, ttl))) <= MaxSize)
            /\ \E old \in Oldest(Grown(k, v, ttl)) : cache' = Without(Grown(k, v, ttl), {old})
BY DEF Put, Grown

LEMMA EntryIsPresent == ASSUME NEW e \in Entry PROVE e # Absent
BY DEF Entry, Absent

LEMMA WithoutFacts ==
  ASSUME NEW c \in [Key -> Entry \cup {Absent}], NEW ks
  PROVE  /\ Without(c, ks) \in [Key -> Entry \cup {Absent}]
         /\ \A k \in Key : Without(c, ks)[k] = IF k \in ks THEN Absent ELSE c[k]
         /\ Cached(Without(c, ks)) = Cached(c) \ ks
BY DEF Without, Cached

LEMMA GrownFacts ==
  ASSUME CacheTypeOK, NEW k \in Key, NEW v \in Value, NEW ttl \in Nat
  PROVE  /\ Grown(k, v, ttl) \in [Key -> Entry \cup {Absent}]
         /\ Grown(k, v, ttl)[k] = [value |-> v, expiry |-> now + ttl]
         /\ \A j \in Key \ {k} : Grown(k, v, ttl)[j] = cache[j]
         /\ Cached(Grown(k, v, ttl)) = Cached(cache) \cup {k}
<1>1. [value |-> v, expiry |-> now + ttl] \in Entry
  BY DEF CacheTypeOK, Entry
<1>2. [value |-> v, expiry |-> now + ttl] # Absent
  BY <1>1, EntryIsPresent
<1>3. /\ Grown(k, v, ttl) \in [Key -> Entry \cup {Absent}]
      /\ Grown(k, v, ttl)[k] = [value |-> v, expiry |-> now + ttl]
      /\ \A j \in Key \ {k} : Grown(k, v, ttl)[j] = cache[j]
  BY <1>1 DEF CacheTypeOK, Grown
<1> QED BY <1>2, <1>3 DEF Cached

LEMMA CachedIsFinite ==
  ASSUME NEW c
  PROVE  IsFiniteSet(Cached(c)) /\ Cardinality(Cached(c)) \in Nat
BY CacheAssumption, FS_Subset, FS_CardinalityType DEF Cached

---------------------------------------------------------------------------
\* The invariant: what the cache holds is what was put last.

ContractInv ==
  /\ ContractTypeOK
  /\ SizeBound
  /\ \A k \in Key : cache[k] # Absent => latest[k] = cache[k]
  /\ HitIsLatest

LEMMA ContractInvInit == ContractInit => ContractInv
<1> SUFFICES ASSUME ContractInit PROVE ContractInv
  OBVIOUS
<1>1. ContractTypeOK
  BY DEF ContractInit, CacheInit, ContractTypeOK, CacheTypeOK
<1>2. Cached(cache) = {}
  BY DEF ContractInit, CacheInit, Cached
<1>3. SizeBound
  BY <1>2, FS_EmptySet, CacheAssumption DEF SizeBound
<1> QED
  BY <1>1, <1>3 DEF ContractInit, CacheInit, ContractInv, HitIsLatest, NoAnswer, Miss

\* An operation that only takes entries out, and as many from the history.
LEMMA Removing ==
  ASSUME ContractInv, NEW ks, now' = now, answer' = NoAnswer,
         cache' = Without(cache, ks), latest' = Without(latest, ks)
  PROVE  ContractInv'
<1>1. /\ cache' \in [Key -> Entry \cup {Absent}] /\ Cached(cache') = Cached(cache) \ ks
      /\ latest' \in [Key -> Entry \cup {Absent}]
      /\ \A k \in Key : /\ cache'[k] = IF k \in ks THEN Absent ELSE cache[k]
                        /\ latest'[k] = IF k \in ks THEN Absent ELSE latest[k]
  BY WithoutFacts DEF ContractInv, ContractTypeOK, CacheTypeOK
<1>2. Cardinality(Cached(cache')) <= Cardinality(Cached(cache))
  BY <1>1, CachedIsFinite, FS_Subset
<1>3. SizeBound'
  BY <1>2, CachedIsFinite, CacheAssumption DEF ContractInv, SizeBound
<1> QED
  BY <1>1, <1>3 DEF ContractInv, ContractTypeOK, CacheTypeOK, HitIsLatest, NoAnswer

\* A Put leaves the cache at its size: it adds one entry at most, and takes one
\* out if that is one too many.
LEMMA PutKeepsSize ==
  ASSUME ContractInv, NEW k \in Key, NEW v \in Value, NEW ttl \in Nat, Put(k, v, ttl)
  PROVE  /\ Cardinality(Cached(cache')) <= MaxSize
         /\ cache' = Grown(k, v, ttl)
              \/ /\ k \notin Cached(cache)
                 /\ Cardinality(Cached(cache')) = MaxSize
                 /\ \E old \in Oldest(Grown(k, v, ttl)) :
                      cache' = Without(Grown(k, v, ttl), {old})
<1> DEFINE grown == Grown(k, v, ttl)
<1>1. grown \in [Key -> Entry \cup {Absent}] /\ Cached(grown) = Cached(cache) \cup {k}
  BY GrownFacts DEF ContractInv, ContractTypeOK
<1>2. /\ Cardinality(Cached(cache)) \in Nat /\ Cardinality(Cached(grown)) \in Nat
      /\ MaxSize \in Nat /\ Cardinality(Cached(cache)) <= MaxSize
      /\ IsFiniteSet(Cached(cache)) /\ IsFiniteSet(Cached(grown))
  BY CachedIsFinite, CacheAssumption DEF ContractInv, SizeBound
<1>3. CASE Cardinality(Cached(grown)) <= MaxSize
  BY <1>3, PutSteps
<1>4. CASE ~ (Cardinality(Cached(grown)) <= MaxSize)
  <2>1. k \notin Cached(cache)
    <3>1. k \in Cached(cache) => Cached(grown) = Cached(cache)
      BY <1>1
    <3> QED BY <1>2, <1>4, <3>1
  <2>2. Cardinality(Cached(grown)) = MaxSize + 1
    <3>1. Cardinality(Cached(grown)) = Cardinality(Cached(cache)) + 1
      BY <1>1, <1>2, <2>1, FS_AddElement
    <3> QED BY <1>2, <1>4, <3>1
  <2>3. PICK old \in Oldest(grown) : cache' = Without(grown, {old})
    BY <1>4, PutSteps
  <2>4. old \in Cached(grown) /\ Cached(cache') = Cached(grown) \ {old}
    BY <1>1, <2>3, WithoutFacts DEF Oldest
  <2>5. Cardinality(Cached(cache')) = Cardinality(Cached(grown)) - 1
    <3> HIDE DEF grown
    <3>1. Cardinality(Cached(grown) \ {old}) = Cardinality(Cached(grown)) - 1
      BY <1>2, <2>4, FS_RemoveElement
    <3> QED BY <2>4, <3>1
  <2>6. Cardinality(Cached(cache')) = MaxSize
    BY <1>2, <2>2, <2>5
  <2>7. Cardinality(Cached(cache')) <= MaxSize
    BY <1>2, <2>6
  <2> QED BY <2>1, <2>3, <2>6, <2>7
<1> QED BY <1>3, <1>4

LEMMA PutKeeps ==
  ASSUME ContractInv, NEW k \in Key, NEW v \in Value, NEW ttl \in Ttl, CallPut(k, v, ttl)
  PROVE  ContractInv'
<1> DEFINE entry == [value |-> v, expiry |-> now + ttl]
           grown == Grown(k, v, ttl)
<1>1. ttl \in Nat /\ CacheTypeOK /\ Put(k, v, ttl)
  BY ContractAssumption DEF CallPut, ContractInv, ContractTypeOK
<1>2. /\ grown \in [Key -> Entry \cup {Absent}] /\ grown[k] = entry
      /\ \A j \in Key \ {k} : grown[j] = cache[j]
  BY <1>1, GrownFacts
<1>3. entry \in Entry
  BY <1>1 DEF Entry, CacheTypeOK
<1>4. /\ latest' \in [Key -> Entry \cup {Absent}] /\ latest'[k] = entry
      /\ \A j \in Key \ {k} : latest'[j] = latest[j]
  BY <1>3 DEF CallPut, ContractInv, ContractTypeOK
<1>5. /\ cache' \in [Key -> Entry \cup {Absent}]
      /\ \A j \in Key : cache'[j] # Absent => cache'[j] = grown[j]
  <2>1. CASE cache' = grown
    BY <1>2, <2>1
  <2>2. ASSUME NEW old, cache' = Without(grown, {old})
        PROVE  /\ cache' \in [Key -> Entry \cup {Absent}]
               /\ \A j \in Key : cache'[j] # Absent => cache'[j] = grown[j]
    BY <1>2, <2>2, WithoutFacts
  <2>3. cache' = grown \/ \E old : cache' = Without(grown, {old})
    BY <1>1, PutKeepsSize
  <2> QED BY <2>1, <2>2, <2>3
<1>6. \A j \in Key : cache'[j] # Absent => latest'[j] = cache'[j]
  BY <1>2, <1>4, <1>5 DEF ContractInv
<1>7. SizeBound'
  BY <1>1, PutKeepsSize DEF SizeBound
<1> QED
  BY <1>4, <1>5, <1>6, <1>7
     DEF CallPut, ContractInv, ContractTypeOK, CacheTypeOK, HitIsLatest, NoAnswer

LEMMA GetKeeps ==
  ASSUME ContractInv, NEW k \in Key, CallGet(k)
  PROVE  ContractInv'
<1>1. \/ cache' = cache
      \/ cache' = Without(cache, {k}) /\ cache[k] # Absent /\ Expired(cache[k])
  BY DEF CallGet, Get
<1>2. /\ cache' \in [Key -> Entry \cup {Absent}] /\ Cached(cache') \subseteq Cached(cache)
      /\ \A j \in Key : cache'[j] # Absent => cache'[j] = cache[j]
  BY <1>1, WithoutFacts DEF ContractInv, ContractTypeOK, CacheTypeOK
<1>3. SizeBound'
  <2>1. Cardinality(Cached(cache')) <= Cardinality(Cached(cache))
    BY <1>2, CachedIsFinite, FS_Subset
  <2> QED BY <2>1, CachedIsFinite, CacheAssumption DEF ContractInv, SizeBound
<1>4. CASE Lookup(k) = Miss
  BY <1>2, <1>3, <1>4 DEF CallGet, ContractInv, ContractTypeOK, CacheTypeOK, HitIsLatest
<1>5. CASE Lookup(k) # Miss
  <2>1. /\ cache[k] # Absent /\ ~ Expired(cache[k]) /\ Lookup(k) = cache[k].value
        /\ cache[k] \in Entry
    BY <1>5 DEF Lookup, ContractInv, ContractTypeOK, CacheTypeOK
  <2>2. Lookup(k) \in Value /\ now <= cache[k].expiry
    BY <2>1 DEF Entry, Expired, ContractInv, ContractTypeOK, CacheTypeOK
  <2>3. latest'[k] = cache[k] /\ now' = now /\ answer' = [key |-> k, result |-> Lookup(k)]
    BY <2>1 DEF CallGet, ContractInv
  <2>4. HitIsLatest'
    BY <2>1, <2>2, <2>3 DEF HitIsLatest
  <2>5. ContractTypeOK'
    BY <1>2, <2>2, <2>3 DEF CallGet, ContractInv, ContractTypeOK, CacheTypeOK
  <2> QED BY <1>2, <1>3, <2>4, <2>5 DEF CallGet, ContractInv
<1> QED BY <1>4, <1>5

LEMMA ContractInvNext == ContractInv /\ [ContractNext]_contractVars => ContractInv'
<1> SUFFICES ASSUME ContractInv, [ContractNext]_contractVars PROVE ContractInv'
  OBVIOUS
<1>1. ASSUME NEW k \in Key, CallInvalidate(k) PROVE ContractInv'
  BY <1>1, Removing DEF CallInvalidate, Invalidate
<1>2. ASSUME NEW p \in Pattern, CallInvalidatePattern(p) PROVE ContractInv'
  BY <1>2, Removing DEF CallInvalidatePattern, InvalidatePattern
<1>3. CASE CallClear
  BY <1>3, Removing DEF CallClear, Clear
<1>4. CASE Tick
  BY <1>4, ContractAssumption
     DEF Tick, ContractInv, ContractTypeOK, CacheTypeOK, SizeBound, HitIsLatest, NoAnswer
<1>5. CASE UNCHANGED contractVars
  BY <1>5 DEF contractVars, ContractInv, ContractTypeOK, CacheTypeOK, SizeBound, HitIsLatest
<1> QED BY <1>1, <1>2, <1>3, <1>4, <1>5, PutKeeps, GetKeeps DEF ContractNext

LEMMA AlwaysContract == ContractSpec => []ContractInv
BY ContractInvInit, ContractInvNext, PTL DEF ContractSpec

\* The cache is well typed, whoever calls it in whatever order.
THEOREM ContractTypeCorrect == ContractSpec => []ContractTypeOK
<1>1. ContractInv => ContractTypeOK
  BY DEF ContractInv
<1> QED BY <1>1, AlwaysContract, PTL

\* Storing before evicting never leaves the cache over its maximum size.
THEOREM SizeBounded == ContractSpec => []SizeBound
<1>1. ContractInv => SizeBound
  BY DEF ContractInv
<1> QED BY <1>1, AlwaysContract, PTL

\* A hit is the value of the latest Put that nobody invalidated, within its lifetime.
THEOREM HitsAreLatest == ContractSpec => []HitIsLatest
<1>1. ContractInv => HitIsLatest
  BY DEF ContractInv
<1> QED BY <1>1, AlwaysContract, PTL

\* An entry that nobody removed leaves only when it is over, or when there is no
\* room for it and none that stays would have left sooner.
THEOREM EvictionsAreForced == ContractSpec => EvictionIsForced
<1> DEFINE Forced(k) ==
      \/ Expired(cache[k])
      \/ /\ Cardinality(Cached(cache')) = MaxSize
         /\ \A j \in Cached(cache') : cache[k].expiry <= cache'[j].expiry
<1>1. ASSUME ContractInv, [ContractNext]_contractVars, NEW k \in Key,
             cache[k] # Absent, cache'[k] = Absent, latest'[k] # Absent
      PROVE  Forced(k)
  <2>1. ASSUME NEW j \in Key, CallGet(j) PROVE Expired(cache[k])
    BY <1>1, <2>1, WithoutFacts DEF CallGet, Get, ContractInv, ContractTypeOK, CacheTypeOK
  <2>2. ASSUME NEW j \in Key, NEW v \in Value, NEW ttl \in Ttl, CallPut(j, v, ttl)
        PROVE  Forced(k)
    <3> DEFINE grown == Grown(j, v, ttl)
    <3>1. ttl \in Nat /\ CacheTypeOK /\ Put(j, v, ttl)
      BY <1>1, <2>2, ContractAssumption DEF CallPut, ContractInv, ContractTypeOK
    <3>2. /\ grown \in [Key -> Entry \cup {Absent}]
          /\ \A i \in Key \ {j} : grown[i] = cache[i]
          /\ Cached(grown) = Cached(cache) \cup {j}
      BY <3>1, GrownFacts
    <3>3. k \in Cached(grown)
      BY <1>1, <3>2 DEF Cached
    <3>4. cache' # grown
      BY <1>1, <3>3 DEF Cached
    <3>5. /\ j \notin Cached(cache) /\ Cardinality(Cached(cache')) = MaxSize
          /\ \E old \in Oldest(grown) : cache' = Without(grown, {old})
      BY <1>1, <3>1, <3>4, PutKeepsSize
    <3>6. PICK old \in Oldest(grown) : cache' = Without(grown, {old})
      BY <3>5
    <3>7. k = old /\ k # j
      BY <1>1, <3>2, <3>3, <3>5, <3>6, WithoutFacts DEF Cached
    <3>8. \A i \in Cached(cache') : cache[k].expiry <= cache'[i].expiry
      BY <1>1, <3>2, <3>6, <3>7, WithoutFacts DEF Oldest, Cached
    <3> QED BY <3>5, <3>8
  <2>3. ASSUME NEW ks, cache' = Without(cache, ks), latest' = Without(latest, ks)
        PROVE  FALSE
    BY <1>1, <2>3, WithoutFacts DEF ContractInv, ContractTypeOK, CacheTypeOK
  <2>4. CASE Tick \/ UNCHANGED contractVars
    BY <1>1, <2>4 DEF Tick, contractVars
  <2> QED
    BY <1>1, <2>1, <2>2, <2>3, <2>4
       DEF ContractNext, CallInvalidate, Invalidate, CallInvalidatePattern, InvalidatePattern,
           CallClear, Clear
<1>2. ContractInv /\ [ContractNext]_contractVars =>
        [\A k \in Key :
           (cache[k] # Absent /\ cache'[k] = Absent /\ latest'[k] # Absent) => Forced(k)]_contractVars
  BY <1>1
<1> QED BY <1>2, AlwaysContract, PTL DEF ContractSpec, EvictionIsForced

(***************************************************************************)
(* ReadModel                                                               *)
(***************************************************************************)
USE DEF write, read

LEMMA MapFact == Map = {"users", "folders", "messages"}
                 /\ Order[1] = "users" /\ Order[2] = "folders" /\ Order[3] = "messages"
BY DEF Map, Order

\* An event names an entity and one of its publications.
LEMMA EventFact ==
  ASSUME NEW ev \in Event
  PROVE  ev[1] \in Entity /\ ev[2] \in 1..Last[ev[1]] /\ ev = <<ev[1], ev[2]>>
BY ReadModelAssumption DEF Event

LEMMA EventIntro ==
  ASSUME NEW e \in Entity, NEW n \in 1..Last[e]
  PROVE  <<e, n>> \in Event
BY DEF Event

\* What is in the queue or with a consumer has been published.
Delivered ==
  /\ \A ev \in queue : ev[2] <= published[ev[1]]
  /\ \A c \in Consumer : stage[c] # "idle" =>
       held[c] \in Event /\ held[c][2] <= published[held[c][1]]

\* TypeOK with what it needs to be inductive.
TypeInv == TypeOK /\ Delivered

LEMMA SizeType == ASSUME NEW m PROVE Size(m) \in Nat
<1>1. IsFiniteSet({e \in Entity : MapOf[e] = m /\ model[e] # 0})
  BY ReadModelAssumption, FS_Subset
<1> QED BY <1>1, FS_CardinalityType DEF Size

---------------------------------------------------------------------------
\* Types.

LEMMA TypeInit == Init => TypeInv
<1> SUFFICES ASSUME Init PROVE TypeInv
  OBVIOUS
<1>1. TypeOK
  <2>1. \A e \in Entity : published[e] = 0 /\ model[e] = 0 /\ Last[e] \in Nat
    BY ReadModelAssumption DEF Init
  <2>2. NoCounts \in [Map -> Nat]
    BY DEF NoCounts
  <2>3. /\ published \in [Entity -> Nat] /\ model \in [Entity -> Nat]
        /\ at \in [Reader -> 0..7] /\ clearing \in 0..2 /\ losses \in 0..MaxLosses
    BY ReadModelAssumption DEF Init
  <2>4. /\ queue \subseteq Event /\ orphan \subseteq {c \in Consumer : stage[c] # "idle"}
        /\ held \in [Consumer -> Event \cup {NoEvent}]
        /\ stage \in [Consumer -> {"idle", "taken", "applied"}]
        /\ lock \in [Map -> Reader \cup {Nobody}]
        /\ counts \in [Reader -> [Map -> Nat]]
        /\ lost \subseteq Entity /\ mixed \subseteq Entity
        /\ \A m \in Map : lock[m] = Nobody
    BY <2>2 DEF Init
  <2> QED BY <2>1, <2>3, <2>4 DEF TypeOK
<1>2. Delivered
  BY DEF Init, Delivered
<1> QED BY <1>1, <1>2 DEF TypeInv

\* Removing entries of the read model keeps the types.
LEMMA TypeRemoval ==
  ASSUME TypeInv, UNCHANGED <<write, read, mixed, losses>>, lost' \subseteq Entity,
         clearing' \in 0..2,
         model' \in [Entity -> Nat],
         \A e \in Entity : model'[e] = model[e] \/ model'[e] = 0
  PROVE  TypeInv'
<1>1. TypeOK'
  BY ReadModelAssumption DEF TypeInv, TypeOK
<1>2. Delivered'
  BY DEF TypeInv, Delivered
<1> QED BY <1>1, <1>2 DEF TypeInv

\* Reading changes what readers have only.
LEMMA TypeReading ==
  ASSUME TypeInv, UNCHANGED <<write, model, clearing, lost, mixed, losses>>,
         lock' \in [Map -> Reader \cup {Nobody}],
         at' \in [Reader -> 0..7],
         \A m \in Map : lock'[m] # Nobody => at'[lock'[m]] # 0,
         counts' \in [Reader -> [Map -> Nat]]
  PROVE  TypeInv'
<1>1. TypeOK'
  BY DEF TypeInv, TypeOK
<1>2. Delivered'
  BY DEF TypeInv, Delivered
<1> QED BY <1>1, <1>2 DEF TypeInv

\* What goes back to the queue has been published, and an entity of which an
\* event older than the latest goes back is mixed.
LEMMA BackFact ==
  ASSUME Delivered, NEW cs \in SUBSET Busy, Requeue(cs)
  PROVE  /\ \A ev \in queue' \ queue :
               /\ ev \in Event /\ ev[2] <= published[ev[1]]
               /\ ev[2] < published[ev[1]] => ev[1] \in mixed'
         /\ queue \subseteq queue' /\ mixed \subseteq mixed'
         /\ \A e \in mixed' \ mixed : \E ev \in Event : ev[1] = e
         /\ \A c \in cs \ orphan : held[c] \in queue'
BY DEF Requeue, Busy, Delivered

LEMMA TypeNext == TypeInv /\ [Next]_vars => TypeInv'
<1> SUFFICES ASSUME TypeInv, [Next]_vars PROVE TypeInv'
  OBVIOUS
<1> USE DEF TypeInv
<1>1. ASSUME NEW e \in Entity, Publish(e) PROVE TypeInv'
  <2>1. published[e] + 1 \in 1..Last[e]
    <3>1. Last[e] \in Nat /\ published[e] \in Nat /\ published[e] < Last[e]
      BY <1>1, ReadModelAssumption DEF Publish, TypeOK
    <3> QED BY <3>1
  <2>2. <<e, published[e] + 1>> \in Event
    BY <2>1, EventIntro
  <2>3. /\ published' \in [Entity -> Nat]
        /\ \A f \in Entity : published'[f] <= Last[f] /\ published[f] <= published'[f]
    BY <1>1, <2>1, ReadModelAssumption DEF Publish, TypeOK
  <2>4. TypeOK'
    <3>1. \A f \in Entity : model'[f] <= published'[f]
      BY <1>1, <2>3 DEF Publish, TypeOK
    <3>2. queue' \subseteq Event
      BY <1>1, <2>2 DEF Publish, TypeOK
    <3>3. lost' \subseteq Entity /\ mixed' \subseteq Entity
      BY <1>1 DEF Publish, TypeOK
    <3> QED BY <1>1, <2>3, <3>1, <3>2, <3>3 DEF Publish, TypeOK
  <2>5. \A ev \in queue' : ev[2] <= published'[ev[1]]
    <3> SUFFICES ASSUME NEW ev \in queue' PROVE ev[2] <= published'[ev[1]]
      OBVIOUS
    <3>1. CASE ev \in queue
      BY <3>1, <2>3, EventFact, ReadModelAssumption DEF TypeOK, Delivered
    <3>2. CASE ev = <<e, published[e] + 1>>
      BY <3>2, <1>1, <2>1 DEF Publish, TypeOK
    <3> QED BY <3>1, <3>2, <1>1 DEF Publish
  <2>6. \A c \in Consumer : stage'[c] # "idle" =>
          held'[c] \in Event /\ held'[c][2] <= published'[held'[c][1]]
    <3> SUFFICES ASSUME NEW c \in Consumer, stage[c] # "idle"
                 PROVE held[c] \in Event /\ held[c][2] <= published'[held[c][1]]
      BY <1>1 DEF Publish
    <3>1. held[c] \in Event /\ held[c][2] <= published[held[c][1]]
      BY DEF Delivered
    <3> QED BY <3>1, <2>3, EventFact, ReadModelAssumption DEF TypeOK
  <2> QED BY <2>4, <2>5, <2>6 DEF Delivered
<1>2. ASSUME NEW c \in Consumer, NEW ev \in Event, Take(c, ev) PROVE TypeInv'
  <2>1. TypeOK'
    BY <1>2 DEF Take, history, TypeOK
  <2>2. Delivered'
    BY <1>2 DEF Take, TypeOK, Delivered
  <2> QED BY <2>1, <2>2
<1>3. ASSUME NEW c \in Consumer, Apply(c) PROVE TypeInv'
  <2>1. /\ held[c] \in Event /\ held[c][1] \in Entity
        /\ held[c][2] \in Nat /\ held[c][2] <= published[held[c][1]]
    BY <1>3, EventFact, ReadModelAssumption DEF Apply, Delivered, TypeOK
  <2>2. TypeOK'
    BY <1>3, <2>1 DEF Apply, TypeOK
  <2>3. Delivered'
    BY <1>3 DEF Apply, TypeOK, Delivered
  <2> QED BY <2>2, <2>3
<1>4. ASSUME NEW c \in Consumer, Acknowledge(c) PROVE TypeInv'
  <2>1. TypeOK'
    BY <1>4 DEF Acknowledge, LetGo, history, TypeOK
  <2>2. Delivered'
    BY <1>4 DEF Acknowledge, LetGo, TypeOK, Delivered
  <2> QED BY <2>1, <2>2
<1>5. ASSUME NEW cs \in SUBSET Busy, Requeue(cs)
      PROVE  /\ queue' \subseteq Event
             /\ \A ev \in queue' : ev[2] <= published[ev[1]]
             /\ mixed' \subseteq Entity
  BY <1>5, BackFact, EventFact DEF TypeOK, Delivered
<1>6. CASE ConnectionLost
  <2>1. TypeOK'
    BY <1>5, <1>6, ReadModelAssumption DEF ConnectionLost, Lose, Busy, TypeOK
  <2>2. Delivered'
    BY <1>5, <1>6 DEF ConnectionLost, Busy, Delivered
  <2> QED BY <2>1, <2>2
<1>7. CASE Restart
  <2>1. TypeOK'
    BY <1>5, <1>7, ReadModelAssumption DEF Restart, Lose, TypeOK, NoCounts
  <2>2. Delivered'
    BY <1>5, <1>7 DEF Restart, Busy, Delivered
  <2> QED BY <2>1, <2>2
<1>8. ASSUME NEW r \in Reader, Ask(r) \/ LockNext(r) \/ Count(r) \/ Answer(r)
      PROVE  TypeInv'
  <2>1. CASE Ask(r)
    <3>1. \A m \in Map : lock'[m] # Nobody => at'[lock'[m]] # 0
      BY <2>1 DEF Ask, TypeOK
    <3> QED BY <2>1, <3>1, TypeReading DEF Ask, history, TypeOK
  <2>2. CASE LockNext(r)
    <3>1. at' \in [Reader -> 0..7] /\ counts' \in [Reader -> [Map -> Nat]]
      BY <2>2 DEF LockNext, TypeOK
    <3>2. lock' \in [Map -> Reader \cup {Nobody}]
      BY <2>2 DEF LockNext, TypeOK
    <3>3. UNCHANGED <<write, model, clearing, lost, mixed, losses>>
      BY <2>2 DEF LockNext, history
    <3>4. \A m \in Map : lock'[m] # Nobody => at'[lock'[m]] # 0
      BY <2>2 DEF LockNext, TypeOK
    <3> QED BY <3>1, <3>2, <3>3, <3>4, TypeReading
  <2>3. CASE Count(r)
    <3>1. Size(Order[at[r] - 3]) \in Nat
      BY SizeType
    <3>2. at' \in [Reader -> 0..7] /\ lock' \in [Map -> Reader \cup {Nobody}]
      BY <2>3 DEF Count, TypeOK
    <3>3. counts' \in [Reader -> [Map -> Nat]]
      BY <2>3, <3>1 DEF Count, TypeOK
    <3>4. UNCHANGED <<write, model, clearing, lost, mixed, losses>>
      BY <2>3 DEF Count, history
    <3>5. \A m \in Map : lock'[m] # Nobody => at'[lock'[m]] # 0
      BY <2>3 DEF Count, TypeOK
    <3> QED BY <3>2, <3>3, <3>4, <3>5, TypeReading
  <2>4. CASE Answer(r)
    <3>1. NoCounts \in [Map -> Nat]
      BY DEF NoCounts
    <3>2. \A m \in Map : lock'[m] # Nobody => at'[lock'[m]] # 0
      BY <2>4 DEF Answer, TypeOK
    <3>3. at' \in [Reader -> 0..7] /\ counts' \in [Reader -> [Map -> Nat]]
      BY <2>4, <3>1 DEF Answer, TypeOK
    <3>4. lock' \in [Map -> Reader \cup {Nobody}]
      BY <2>4 DEF Answer, TypeOK
    <3>5. UNCHANGED <<write, model, clearing, lost, mixed, losses>>
      BY <2>4 DEF Answer, history
    <3> QED BY <3>2, <3>3, <3>4, <3>5, TypeReading
  <2> QED BY <1>8, <2>1, <2>2, <2>3, <2>4
<1>9. CASE ClearNext
  BY <1>9, TypeRemoval DEF ClearNext, TypeOK
<1>10. ASSUME NEW e \in Entity, InvalidateReadModel(e) PROVE TypeInv'
  BY <1>10, TypeRemoval DEF InvalidateReadModel, TypeOK
<1>11. CASE UNCHANGED vars
  <2>1. TypeOK'
    BY <1>11 DEF vars, history, TypeOK
  <2>2. Delivered'
    BY <1>11 DEF vars, Delivered
  <2> QED BY <2>1, <2>2
<1>12. ASSUME NEW c \in Consumer, ApplyFails(c) PROVE TypeInv'
  <2>1. {c} \in SUBSET Busy /\ Requeue({c})
    BY <1>12 DEF ApplyFails, Busy
  <2>2. TypeOK'
    BY <1>5, <1>12, <2>1 DEF ApplyFails, LetGo, TypeOK
  <2>3. Delivered'
    BY <1>5, <1>12, <2>1 DEF ApplyFails, LetGo, TypeOK, Delivered
  <2> QED BY <2>2, <2>3
<1> QED BY <1>1, <1>2, <1>3, <1>4, <1>6, <1>7, <1>8, <1>9, <1>10, <1>11, <1>12 DEF Next

\* The read side is well typed, and never shows, queues or processes an event
\* that has not been published.
THEOREM TypeCorrect == Spec => [](TypeOK /\ Delivered)
BY TypeInit, TypeNext, PTL DEF Spec, TypeInv

---------------------------------------------------------------------------
\* Nothing that was published is forgotten.

\* Event ev is in the queue, or with a consumer whose failure brings it back.
OnItsWay(ev) ==
  \/ ev \in queue
  \/ \E c \in Consumer \ orphan : stage[c] = "taken" /\ held[c] = ev

\* The entry of e is made of the n-th event, or will be.
Settles(e, n) == model[e] = n \/ OnItsWay(<<e, n>>)

\* What the history says of e: its entry is there or coming; and, if it is not
\* mixed, that of the latest event, which is the only one still to be applied.
ShownOf(e) ==
  published[e] > 0 =>
    /\ e \notin lost => \E n \in 1..published[e] : Settles(e, n)
    /\ e \notin lost \cup mixed => Settles(e, published[e])
    /\ e \notin mixed => \A ev \in Pending(e) : ev[2] = published[e]
Shown == \A e \in Entity : ShownOf(e)

\* Where e's events are, seen before and after a step.
LEMMA PendingFact ==
  ASSUME NEW e \in Entity
  PROVE  \A ev : ev \in Pending(e) <=>
           \/ ev \in queue /\ ev[1] = e
           \/ \E c \in Consumer : stage[c] = "taken" /\ held[c] = ev /\ ev[1] = e
BY DEF Pending

LEMMA PendingFactNext ==
  ASSUME NEW e \in Entity
  PROVE  \A ev : ev \in Pending(e)' <=>
           \/ ev \in queue' /\ ev[1] = e
           \/ \E c \in Consumer : stage'[c] = "taken" /\ held'[c] = ev /\ ev[1] = e
BY DEF Pending

\* An entry that is there or coming stays so, unless another event of its entity
\* is applied.
LEMMA SettlesKept ==
  ASSUME TypeInv, [Next]_vars, NEW e \in Entity, NEW n \in Nat \ {0},
         Settles(e, n), e \notin lost'
  PROVE  Settles(e, n)' \/ \E c \in Consumer : Apply(c) /\ held[c][1] = e
<1> USE DEF TypeInv
<1>1. ASSUME NEW f \in Entity, Publish(f) PROVE Settles(e, n)'
  BY <1>1 DEF Publish, Settles, OnItsWay
<1>2. ASSUME NEW c \in Consumer, NEW ev \in Event, Take(c, ev) PROVE Settles(e, n)'
  <2>1. c \notin orphan /\ stage'[c] = "taken" /\ held'[c] = ev
    BY <1>2 DEF Take, TypeOK
  <2>2. \A d \in Consumer : stage[d] = "taken" => stage'[d] = "taken" /\ held'[d] = held[d]
    BY <1>2 DEF Take, TypeOK
  <2>3. queue' = queue \ {ev} /\ UNCHANGED <<orphan, model>>
    BY <1>2 DEF Take
  <2> QED BY <2>1, <2>2, <2>3 DEF Settles, OnItsWay
<1>3. ASSUME NEW c \in Consumer, Apply(c), held[c][1] # e PROVE Settles(e, n)'
  <2>1. model'[e] = model[e] /\ UNCHANGED <<queue, held, orphan>>
    BY <1>3 DEF Apply, TypeOK
  <2>2. \A d \in Consumer : d # c => stage'[d] = stage[d]
    BY <1>3 DEF Apply, TypeOK
  <2>3. held[c] # <<e, n>>
    BY <1>3
  <2> QED BY <2>1, <2>2, <2>3 DEF Settles, OnItsWay
<1>4. ASSUME NEW c \in Consumer, ApplyFails(c) PROVE Settles(e, n)'
  <2>1. \A ev \in queue : ev \in queue'
    BY <1>4 DEF ApplyFails, Requeue
  <2>2. c \notin orphan => held[c] \in queue'
    BY <1>4 DEF ApplyFails, Requeue
  <2>3. /\ \A d \in Consumer : d # c => stage'[d] = stage[d] /\ held'[d] = held[d]
        /\ orphan' \subseteq orphan /\ model' = model
    BY <1>4 DEF ApplyFails, LetGo, TypeOK
  <2> QED BY <2>1, <2>2, <2>3 DEF Settles, OnItsWay
<1>5. ASSUME NEW c \in Consumer, Acknowledge(c) PROVE Settles(e, n)'
  <2>1. /\ \A d \in Consumer : d # c => stage'[d] = stage[d] /\ held'[d] = held[d]
        /\ orphan' \subseteq orphan /\ UNCHANGED <<queue, model>> /\ stage[c] = "applied"
    BY <1>5 DEF Acknowledge, LetGo, TypeOK
  <2> QED BY <2>1 DEF Settles, OnItsWay
<1>6. ASSUME Requeue(Busy), model'[e] = model[e] \/ model[e] = 0 PROVE Settles(e, n)'
  <2>1. OnItsWay(<<e, n>>) => <<e, n>> \in queue'
    BY <1>6 DEF Requeue, Busy, OnItsWay
  <2> QED BY <1>6, <2>1 DEF Settles, OnItsWay
<1>7. CASE ConnectionLost
  BY <1>6, <1>7 DEF ConnectionLost
<1>8. CASE Restart
  BY <1>6, <1>8 DEF Restart, TypeOK
<1>9. ASSUME UNCHANGED <<queue, held, stage, orphan>>, model'[e] = model[e] \/ model[e] = 0
      PROVE  Settles(e, n)'
  BY <1>9 DEF Settles, OnItsWay
<1>10. ASSUME NEW r \in Reader, Ask(r) \/ LockNext(r) \/ Count(r) \/ Answer(r)
       PROVE  Settles(e, n)'
  BY <1>9, <1>10 DEF Ask, LockNext, Count, Answer
<1>11. CASE ClearNext
  BY <1>9, <1>11 DEF ClearNext, TypeOK
<1>12. ASSUME NEW f \in Entity, InvalidateReadModel(f) PROVE Settles(e, n)'
  BY <1>9, <1>12 DEF InvalidateReadModel, TypeOK
<1>13. CASE UNCHANGED vars
  BY <1>9, <1>13 DEF vars
<1> QED BY <1>1, <1>2, <1>3, <1>4, <1>5, <1>7, <1>8, <1>10, <1>11, <1>12, <1>13 DEF Next

\* What is still to be applied of an entity that is not mixed is its latest event.
LEMMA PendingKept ==
  ASSUME TypeInv, Shown, [Next]_vars, NEW e \in Entity, e \notin mixed',
         NEW ev \in Pending(e)'
  PROVE  /\ e \notin mixed
         /\ ev[2] = published'[e]
<1> USE DEF TypeInv
<1>1. ASSUME ev \in Pending(e), e \notin mixed PROVE ev[2] = published[e]
  <2>1. ev \in Event /\ ev[1] = e /\ ev[2] <= published[e]
    BY <1>1, PendingFact DEF Delivered, TypeOK
  <2>2. published[e] > 0
    BY <2>1, EventFact, ReadModelAssumption DEF TypeOK
  <2> QED BY <1>1, <2>2 DEF Shown, ShownOf
<1>2. ASSUME NEW f \in Entity, Publish(f)
      PROVE  e \notin mixed /\ ev[2] = published'[e]
  <2>1. CASE f = e
    <3>1. Pending(e) = {} /\ e \notin mixed
      BY <1>2, <2>1 DEF Publish
    <3>2. ev = <<e, published[e] + 1>>
      BY <1>2, <2>1, <3>1, PendingFact, PendingFactNext DEF Publish
    <3> QED BY <1>2, <2>1, <3>1, <3>2 DEF Publish, TypeOK
  <2>2. CASE f # e
    <3>1. e \notin mixed /\ published'[e] = published[e]
      BY <1>2, <2>2 DEF Publish, TypeOK
    <3>2. ev \in Pending(e)
      BY <1>2, <2>2, PendingFact, PendingFactNext DEF Publish
    <3> QED BY <1>1, <3>1, <3>2
  <2> QED BY <2>1, <2>2
<1>3. ASSUME UNCHANGED <<published, mixed>>, ev \in Pending(e)
      PROVE  e \notin mixed /\ ev[2] = published'[e]
  BY <1>1, <1>3
<1>4. ASSUME NEW c \in Consumer, NEW new \in Event, Take(c, new)
      PROVE  e \notin mixed /\ ev[2] = published'[e]
  <2>1. UNCHANGED <<published, mixed>>
    BY <1>4 DEF Take, history
  <2>2. \A d \in Consumer : stage'[d] = "taken" =>
          held'[d] \in queue \/ (stage[d] = "taken" /\ held'[d] = held[d])
    <3>1. /\ held'[c] \in queue
          /\ \A d \in Consumer \ {c} : stage'[d] = stage[d] /\ held'[d] = held[d]
      BY <1>4 DEF Take, TypeOK
    <3> QED BY <3>1
  <2>3. queue' \subseteq queue
    BY <1>4 DEF Take
  <2> QED BY <1>3, <2>1, <2>2, <2>3, PendingFact, PendingFactNext
<1>5. ASSUME NEW c \in Consumer, Apply(c) \/ Acknowledge(c)
      PROVE  e \notin mixed /\ ev[2] = published'[e]
  <2>1. UNCHANGED <<published, mixed, queue>>
    BY <1>5 DEF Apply, Acknowledge, history
  <2>2. \A d \in Consumer : stage'[d] = "taken" => stage[d] = "taken" /\ held'[d] = held[d]
    BY <1>5 DEF Apply, Acknowledge, LetGo, TypeOK
  <2> QED BY <1>3, <2>1, <2>2, PendingFact, PendingFactNext
<1>6. ASSUME NEW cs \in SUBSET Busy, Requeue(cs), UNCHANGED published,
             \A d \in Consumer : stage'[d] = "taken" => stage[d] = "taken" /\ held'[d] = held[d]
      PROVE  e \notin mixed /\ ev[2] = published'[e]
  <2>1. /\ mixed \subseteq mixed'
        /\ \A old \in queue' \ queue :
             /\ old \in Event /\ old[2] <= published[old[1]]
             /\ old[2] < published[old[1]] => old[1] \in mixed'
    BY <1>6, BackFact
  <2>2. CASE ev \in Pending(e)
    BY <1>1, <1>6, <2>1, <2>2
  <2>3. CASE ev \notin Pending(e)
    <3>1. ev \in queue' \ queue /\ ev[1] = e
      BY <1>6, <2>3, PendingFact, PendingFactNext
    <3>2. ev[2] \in Nat /\ published[e] \in Nat
      BY <2>1, <3>1, EventFact, ReadModelAssumption DEF TypeOK
    <3> QED BY <1>6, <2>1, <3>1, <3>2
  <2> QED BY <2>2, <2>3
<1>7. ASSUME NEW c \in Consumer, ApplyFails(c)
      PROVE  e \notin mixed /\ ev[2] = published'[e]
  <2>1. {c} \in SUBSET Busy /\ Requeue({c}) /\ UNCHANGED published
    BY <1>7 DEF ApplyFails, Busy
  <2>2. \A d \in Consumer : stage'[d] = "taken" => stage[d] = "taken" /\ held'[d] = held[d]
    BY <1>7 DEF ApplyFails, LetGo, TypeOK
  <2> QED BY <1>6, <2>1, <2>2
<1>8. CASE ConnectionLost \/ Restart
  <2>1. Busy \in SUBSET Busy /\ Requeue(Busy) /\ UNCHANGED published
    BY <1>8 DEF ConnectionLost, Restart
  <2>2. \A d \in Consumer : stage'[d] = "taken" => stage[d] = "taken" /\ held'[d] = held[d]
    BY <1>8 DEF ConnectionLost, Restart
  <2> QED BY <1>6, <2>1, <2>2
<1>9. ASSUME UNCHANGED <<write, mixed>> PROVE e \notin mixed /\ ev[2] = published'[e]
  BY <1>3, <1>9, PendingFact, PendingFactNext
<1>10. ASSUME NEW r \in Reader, Ask(r) \/ LockNext(r) \/ Count(r) \/ Answer(r)
       PROVE  UNCHANGED <<write, mixed>>
  BY <1>10 DEF Ask, LockNext, Count, Answer, history
<1>11. ASSUME ClearNext \/ (\E f \in Entity : InvalidateReadModel(f)) \/ UNCHANGED vars
       PROVE  UNCHANGED <<write, mixed>>
  BY <1>11 DEF ClearNext, InvalidateReadModel, vars, history
<1> QED BY <1>2, <1>4, <1>5, <1>7, <1>8, <1>9, <1>10, <1>11 DEF Next

\* The history grows by mixed entities and forgets a lost one only when an event
\* of it is published or applied.
LEMMA HistoryFact ==
  ASSUME [Next]_vars, NEW e \in Entity, TypeInv
  PROVE  /\ e \in mixed => e \in mixed'
         /\ \/ e \in lost => e \in lost'
            \/ Publish(e)
            \/ \E c \in Consumer : Apply(c) /\ held[c][1] = e
         /\ Publish(e) \/ published'[e] = published[e]
<1>1. ASSUME NEW f \in Entity, Publish(f)
      PROVE  /\ e \in mixed => e \in mixed'
             /\ e = f \/ ((e \in lost => e \in lost') /\ published'[e] = published[e])
  BY <1>1 DEF Publish, TypeInv, TypeOK
<1>2. ASSUME NEW c \in Consumer, Apply(c)
      PROVE  /\ e \in mixed => e \in mixed'
             /\ held[c][1] = e \/ (e \in lost => e \in lost')
             /\ published'[e] = published[e]
  BY <1>2 DEF Apply
<1>3. ASSUME ClearNext \/ ConnectionLost \/ Restart \/ UNCHANGED vars
      PROVE  /\ e \in mixed => e \in mixed'
             /\ e \in lost => e \in lost'
             /\ published'[e] = published[e]
  BY <1>3 DEF ClearNext, ConnectionLost, Restart, Requeue, vars, history
<1>4. ASSUME NEW c \in Consumer,
             (\E ev \in Event : Take(c, ev)) \/ ApplyFails(c) \/ Acknowledge(c)
      PROVE  /\ e \in mixed => e \in mixed'
             /\ e \in lost => e \in lost'
             /\ published'[e] = published[e]
  BY <1>4 DEF Take, ApplyFails, Requeue, Acknowledge, history
<1>5. ASSUME NEW r \in Reader, Ask(r) \/ LockNext(r) \/ Count(r) \/ Answer(r)
      PROVE  UNCHANGED <<published, history>>
  BY <1>5 DEF Ask, LockNext, Count, Answer
<1>6. ASSUME NEW f \in Entity, InvalidateReadModel(f)
      PROVE  /\ e \in mixed => e \in mixed'
             /\ e \in lost => e \in lost'
             /\ published'[e] = published[e]
  BY <1>6 DEF InvalidateReadModel
<1> QED BY <1>1, <1>2, <1>3, <1>4, <1>5, <1>6 DEF Next, history

LEMMA ShownNext == TypeInv /\ Shown /\ [Next]_vars => Shown'
<1> SUFFICES ASSUME TypeInv, Shown, [Next]_vars, NEW e \in Entity, published'[e] > 0
             PROVE  ShownOf(e)'
  BY DEF Shown, ShownOf
<1>1. TypeInv'
  BY TypeNext
<1>2. published[e] \in Nat /\ published'[e] \in Nat
  BY <1>1 DEF TypeInv, TypeOK
<1>3. e \notin mixed' => \A ev \in Pending(e)' : ev[2] = published'[e]
  BY PendingKept
<1>4. CASE Publish(e)
  <2>1. published'[e] = published[e] + 1 /\ <<e, published'[e]>> \in queue'
    BY <1>4 DEF Publish, TypeInv, TypeOK
  <2>2. Settles(e, published[e])'
    BY <2>1 DEF Settles, OnItsWay
  <2> QED BY <1>2, <1>3, <2>1, <2>2 DEF ShownOf
<1>5. ASSUME ~ Publish(e), NEW c \in Consumer, Apply(c), held[c][1] = e PROVE ShownOf(e)'
  <2>1. held[c] \in Event /\ held[c][2] \in 1..published[e] /\ published'[e] = published[e]
    BY <1>2, <1>5, EventFact, ReadModelAssumption DEF Apply, TypeInv, Delivered, TypeOK
  <2>2. model'[e] = held[c][2]
    BY <1>5 DEF Apply, TypeInv, TypeOK
  <2>3. held[c] \in Pending(e)
    BY <1>5, PendingFact DEF Apply
  <2>4. e \notin mixed' => held[c][2] = published'[e]
    BY <2>1, <2>3, <1>2, HistoryFact DEF Shown, ShownOf
  <2> QED BY <1>3, <2>1, <2>2, <2>4 DEF ShownOf, Settles
<1>6. ASSUME ~ Publish(e), ~ \E c \in Consumer : Apply(c) /\ held[c][1] = e
      PROVE  ShownOf(e)'
  <2>1. published'[e] = published[e] /\ (e \notin lost' => e \notin lost)
        /\ (e \notin mixed' => e \notin mixed)
    BY <1>6, HistoryFact
  <2>2. \A n \in Nat \ {0} : Settles(e, n) /\ e \notin lost' => Settles(e, n)'
    BY <1>6, SettlesKept
  <2>3. ShownOf(e)
    BY DEF Shown
  <2>4. e \notin lost' => \E n \in 1..published'[e] : Settles(e, n)'
    BY <1>2, <2>1, <2>2, <2>3 DEF ShownOf
  <2>5. e \notin lost' \cup mixed' => Settles(e, published[e])'
    <3> SUFFICES ASSUME e \notin lost' \cup mixed' PROVE Settles(e, published[e])'
      OBVIOUS
    <3>1. PICK n \in Nat \ {0} : n = published[e] /\ n = published'[e]
      BY <1>2, <2>1
    <3>2. Settles(e, n)
      BY <2>1, <2>3, <3>1 DEF ShownOf
    <3>3. Settles(e, n)'
      BY <2>2, <3>2
    <3> QED BY <3>1, <3>3 DEF Settles, OnItsWay
  <2> QED BY <1>3, <2>4, <2>5 DEF ShownOf
<1> QED BY <1>4, <1>5, <1>6

\* Unless its entry was removed, an entity is answered once its published events
\* have been processed, in whatever order and however often; and as the latest of
\* them left it, unless an older one was under way or came back after that.
THEOREM CompleteOnceSettled == Spec => []CompleteWhenSettled
<1>1. Init => Shown
  BY DEF Init, Shown, ShownOf
<1>2. TypeInv /\ Shown => CompleteWhenSettled
  <2> SUFFICES ASSUME TypeInv, Shown,
                      NEW e \in Entity, published[e] > 0, Pending(e) = {}, e \notin lost
               PROVE  \E n \in 1..published[e] :
                        /\ e \in mixed \/ n = published[e]
                        /\ <<e, n>> \in HandleRequest([map |-> MapOf[e], all |-> TRUE])
                        /\ \A m \in Map :
                             HandleRequest([map |-> m, id |-> e, all |-> FALSE])
                               = IF m = MapOf[e] THEN {<<e, n>>} ELSE {}
    BY DEF CompleteWhenSettled
  <2>1. \A n : ~ OnItsWay(<<e, n>>)
    BY PendingFact DEF OnItsWay
  <2>2. model[e] \in 1..published[e]
    BY <2>1 DEF Shown, ShownOf, Settles
  <2>3. e \in mixed \/ model[e] = published[e]
    BY <2>1 DEF Shown, ShownOf, Settles
  <2>4. \A m \in Map : ReadModelOf(m, {e}) = IF m = MapOf[e] THEN {<<e, model[e]>>} ELSE {}
    BY <2>2 DEF ReadModelOf
  <2>5. <<e, model[e]>> \in ReadModelOf(MapOf[e], Entity)
    BY <2>2 DEF ReadModelOf
  <2> WITNESS model[e] \in 1..published[e]
  <2> QED BY <2>2, <2>3, <2>4, <2>5 DEF HandleRequest, HandleGetAll, HandleGet
<1> QED BY <1>1, <1>2, TypeInit, TypeNext, ShownNext, PTL DEF Spec

---------------------------------------------------------------------------
\* The statistics.

\* A reader holds the maps it has locked, and what it has counted still holds.
ReaderInv(r) ==
  \A i \in 1..3 : /\ at[r] > i     => lock[Order[i]] = r
                  /\ at[r] > i + 3 => counts[r][Order[i]] = Size(Order[i])
SnapshotInv == \A r \in Reader : ReaderInv(r)

\* The entries of a map somebody has locked stay as they are.
Undisturbed == \A m \in Map : lock[m] # Nobody =>
                 \A e \in Entity : MapOf[e] = m => model'[e] = model[e]

LEMMA LockedIsUndisturbed == TypeInv /\ [Next]_vars => Restart \/ Undisturbed
<1> SUFFICES ASSUME TypeInv, [Next]_vars, ~ Restart,
                    NEW e \in Entity, lock[MapOf[e]] # Nobody
             PROVE  model'[e] = model[e]
  BY DEF Undisturbed
<1> USE DEF TypeInv, TypeOK
<1>1. ASSUME NEW c \in Consumer, Apply(c) PROVE model'[e] = model[e]
  BY <1>1 DEF Apply, Unlocked
<1>2. CASE ClearNext
  BY <1>2 DEF ClearNext, Unlocked
<1>3. ASSUME NEW f \in Entity, InvalidateReadModel(f) PROVE model'[e] = model[e]
  BY <1>3 DEF InvalidateReadModel, Unlocked
<1>4. CASE UNCHANGED model
  BY <1>4
<1> QED BY <1>1, <1>2, <1>3, <1>4
        DEF Next, vars, Publish, Take, ApplyFails, Acknowledge, ConnectionLost,
            Ask, LockNext, Count, Answer

LEMMA SizeKept ==
  ASSUME NEW m, \A e \in Entity : MapOf[e] = m => model'[e] = model[e]
  PROVE  Size(m)' = Size(m)
<1>1. {e \in Entity : MapOf[e] = m /\ model'[e] # 0}
        = {e \in Entity : MapOf[e] = m /\ model[e] # 0}
  OBVIOUS
<1> QED BY <1>1 DEF Size

\* What a reader has is kept by every step that leaves it and its locks alone.
LEMMA ReaderKept ==
  ASSUME TypeInv, Undisturbed, NEW r \in Reader, ReaderInv(r),
         at'[r] = at[r], counts'[r] = counts[r],
         \A m \in Map : lock[m] = r => lock'[m] = r
  PROVE  ReaderInv(r)'
<1> SUFFICES ASSUME NEW i \in 1..3
             PROVE  /\ at'[r] > i     => lock'[Order[i]] = r
                    /\ at'[r] > i + 3 => counts'[r][Order[i]] = Size(Order[i])'
  BY DEF ReaderInv
<1>1. Order[i] \in Map
  BY DEF Map
<1>2. at[r] > i => lock[Order[i]] = r
  BY DEF ReaderInv
<1>3. at[r] > i + 3 => at[r] > i
  BY DEF TypeInv, TypeOK
<1>4. ASSUME lock[Order[i]] = r PROVE Size(Order[i])' = Size(Order[i])
  <2>1. lock[Order[i]] # Nobody
    BY <1>4, ReadModelAssumption
  <2>2. \A e \in Entity : MapOf[e] = Order[i] => model'[e] = model[e]
    BY <1>1, <2>1 DEF Undisturbed
  <2> QED BY <2>2, SizeKept
<1> QED BY <1>1, <1>2, <1>3, <1>4 DEF ReaderInv

LEMMA SnapshotNext == TypeInv /\ SnapshotInv /\ [Next]_vars => SnapshotInv'
<1> SUFFICES ASSUME TypeInv, SnapshotInv, [Next]_vars, NEW r \in Reader
             PROVE  ReaderInv(r)'
  BY DEF SnapshotInv
<1> USE DEF TypeInv
<1>1. ReaderInv(r)
  BY DEF SnapshotInv
<1>2. Restart \/ Undisturbed
  BY LockedIsUndisturbed
<1>3. CASE Restart
  BY <1>3 DEF Restart, ReaderInv
<1>4. CASE Undisturbed /\ UNCHANGED <<lock, at, counts>>
  BY <1>1, <1>4, ReaderKept
<1>5. ASSUME Undisturbed, NEW q \in Reader, Ask(q) PROVE ReaderInv(r)'
  <2>1. CASE q = r
    BY <1>5, <2>1 DEF Ask, ReaderInv, TypeOK
  <2>2. CASE q # r
    BY <1>1, <1>5, <2>2, ReaderKept DEF Ask, TypeOK
  <2> QED BY <2>1, <2>2
<1>6. ASSUME Undisturbed, NEW q \in Reader, LockNext(q) PROVE ReaderInv(r)'
  <2>1. \A m \in Map : lock[m] = r => lock'[m] = r
    BY <1>6, ReadModelAssumption DEF LockNext, Unlocked, TypeOK
  <2>2. CASE q = r
    <3> SUFFICES ASSUME NEW i \in 1..3
                 PROVE  /\ at'[r] > i     => lock'[Order[i]] = r
                        /\ at'[r] > i + 3 => counts'[r][Order[i]] = Size(Order[i])'
      BY DEF ReaderInv
    <3>1. at[r] \in 1..3 /\ at'[r] = at[r] + 1 /\ Order[i] \in Map
      BY <1>6, <2>2 DEF LockNext, TypeOK, Map
    <3>2. CASE i = at[r]
      BY <1>6, <2>2, <3>1, <3>2 DEF LockNext, TypeOK
    <3>3. CASE i # at[r]
      <4>1. at[r] > i => lock[Order[i]] = r
        BY <1>1 DEF ReaderInv
      <4> QED BY <2>1, <3>1, <3>3, <4>1
    <3> QED BY <3>1, <3>2, <3>3
  <2>3. CASE q # r
    BY <1>1, <1>6, <2>1, <2>3, ReaderKept DEF LockNext, TypeOK
  <2> QED BY <2>2, <2>3
<1>7. ASSUME Undisturbed, NEW q \in Reader, Count(q) PROVE ReaderInv(r)'
  <2>1. CASE q = r
    <3> SUFFICES ASSUME NEW i \in 1..3
                 PROVE  /\ at'[r] > i     => lock'[Order[i]] = r
                        /\ at'[r] > i + 3 => counts'[r][Order[i]] = Size(Order[i])'
      BY DEF ReaderInv
    <3>1. at[r] \in 4..6 /\ at'[r] = at[r] + 1 /\ lock' = lock
      BY <1>7, <2>1 DEF Count, TypeOK
    <3>2. Size(Order[i])' = Size(Order[i])
      <4>1. model' = model
        BY <1>7 DEF Count
      <4> QED BY <4>1, SizeKept
    <3>3. lock[Order[i]] = r
      BY <1>1, <3>1 DEF ReaderInv
    <3>4. CASE i = at[r] - 3
      <4>1. counts'[r][Order[i]] = Size(Order[i])
        BY <1>7, <2>1, <3>4 DEF Count, TypeOK, Map
      <4> QED BY <3>1, <3>2, <3>3, <4>1
    <3>5. CASE i # at[r] - 3
      <4>1. Order[i] # Order[at[r] - 3]
        BY <3>1, <3>5 DEF Order
      <4>2. counts'[r][Order[i]] = counts[r][Order[i]]
        BY <1>7, <2>1, <4>1 DEF Count, TypeOK, Map
      <4>3. at[r] > i + 3 => counts[r][Order[i]] = Size(Order[i])
        BY <1>1 DEF ReaderInv
      <4>4. at'[r] > i + 3 => at[r] > i + 3
        BY <3>1, <3>5
      <4> QED BY <3>1, <3>2, <3>3, <4>2, <4>3, <4>4
    <3> QED BY <3>4, <3>5
  <2>2. CASE q # r
    BY <1>1, <1>7, <2>2, ReaderKept DEF Count, TypeOK
  <2> QED BY <2>1, <2>2
<1>8. ASSUME Undisturbed, NEW q \in Reader, Answer(q) PROVE ReaderInv(r)'
  <2>1. CASE q = r
    BY <1>8, <2>1 DEF Answer, ReaderInv, TypeOK
  <2>2. CASE q # r
    BY <1>1, <1>8, <2>2, ReaderKept DEF Answer, TypeOK
  <2> QED BY <2>1, <2>2
<1> QED BY <1>2, <1>3, <1>4, <1>5, <1>6, <1>7, <1>8
        DEF Next, vars, Publish, Take, Apply, ApplyFails, Acknowledge, ConnectionLost,
            ClearNext, InvalidateReadModel

\* The counts of every answer are those of one instant, although each map is
\* locked and counted in a step of its own.
THEOREM AnswersAreSnapshots == Spec => AnswerIsASnapshot
<1>1. Init => SnapshotInv
  BY DEF Init, SnapshotInv, ReaderInv
<1>2. TypeInv /\ SnapshotInv =>
        \A r \in Reader : at[r] = 7 => \A m \in Map : counts[r][m] = Size(m)
  <2> SUFFICES ASSUME TypeInv, SnapshotInv, NEW r \in Reader, at[r] = 7, NEW m \in Map
               PROVE  counts[r][m] = Size(m)
    OBVIOUS
  <2>1. PICK i \in 1..3 : m = Order[i]
    BY DEF Map
  <2> QED BY <2>1 DEF SnapshotInv, ReaderInv
<1>3. TypeInv /\ SnapshotInv =>
        [\A r \in Reader : (at[r] = 7 /\ at'[r] = 0 /\ losses' = losses) =>
           \A m \in Map : counts[r][m] = Size(m)]_vars
  BY <1>2
<1> QED BY <1>1, <1>3, TypeInit, TypeNext, SnapshotNext, PTL DEF Spec, AnswerIsASnapshot
==============================================================================
