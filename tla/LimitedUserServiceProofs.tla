---------------------- MODULE LimitedUserServiceProofs ----------------------
(* Proofs about LimitedUserService, for any calls, forms, limits, lifetimes, *)
(* cache size and number of restarts: what the limiter lets through, what is *)
(* stored, read and logged in with behind it, and that registrations keep    *)
(* the promise of module Creation.                                           *)
EXTENDS LimitedUserService, Sequences, FiniteSetTheorems, TLAPS

---------------------------------------------------------------------------
\* What the constants are, and how tasks are told apart.

LEMMA Config ==
  /\ \A e \in Endpoint : /\ Limit[e] \in Nat /\ Burst[e] \in Nat
                         /\ e # L!Idle /\ Burst[e] > 0
  /\ Window \in Nat /\ Window > 0
  /\ MaxTime \in Nat /\ DefaultTtl \in Nat /\ SearchTtl \in Nat
  /\ IsFiniteSet(Request)
BY LimitedAssumption DEF Endpoint, L!Idle

LEMMA Disjoint ==
  /\ S!Key \cap Credentials = {}
  /\ Form \cap Credentials = {}
  /\ Form \cap S!Key = {}
  /\ S!Nothing \notin Credentials
BY LimitedAssumption DEF S!Key, Credentials, S!LoginKey, S!Nothing

LEMMA LoginKeyFact ==
  ASSUME NEW l \in S!Logins
  PROVE  S!LoginKey(l) \in S!Key /\ S!LoginKey(l).kind = "login" /\ S!LoginKey(l).of = l
BY DEF S!Key, S!LoginKey

LEMMA MaskFact ==
  ASSUME NEW f \in Form
  PROVE  [kind |-> "search", of |-> f.name] \in S!Key
BY DEF S!Key

LEMMA KeyFact ==
  ASSUME NEW k \in S!Key
  PROVE  \/ k.kind = "login" /\ k.of \in S!Logins /\ k = S!LoginKey(k.of)
         \/ k.kind = "search"
BY DEF S!Key, S!LoginKey

---------------------------------------------------------------------------
\* What the cache's operations do to its entries.

\* Nothing enters the cache.
Shrinks ==
  /\ cache' \in [S!Key -> S!Cache!Entry \cup {S!Cache!Absent}]
  /\ \A j \in S!Key : cache'[j] = cache[j] \/ cache'[j] = S!Cache!Absent

LEMMA AbsentFact ==
  ASSUME NEW e \in S!Cache!Entry PROVE e # S!Cache!Absent
BY DEF S!Cache!Entry, S!Cache!Absent

LEMMA CacheGet ==
  ASSUME S!Cache!CacheTypeOK, NEW k \in S!Key, S!Cache!Get(k) PROVE Shrinks
BY DEF S!Cache!CacheTypeOK, S!Cache!Get, S!Cache!Without, Shrinks

LEMMA CacheInvalidate ==
  ASSUME S!Cache!CacheTypeOK, NEW k, S!Cache!Invalidate(k) PROVE Shrinks
BY DEF S!Cache!CacheTypeOK, S!Cache!Invalidate, S!Cache!Without, Shrinks

LEMMA CacheClear ==
  ASSUME S!Cache!CacheTypeOK, S!Cache!Clear PROVE Shrinks
BY DEF S!Cache!CacheTypeOK, S!Cache!Clear, S!Cache!Without, Shrinks

\* A hit returns the value of an entry.
LEMMA CacheHit ==
  ASSUME S!Cache!CacheTypeOK, NEW k \in S!Key, S!Cache!Lookup(k) # S!Cache!Miss
  PROVE  /\ cache[k] # S!Cache!Absent /\ cache[k] \in S!Cache!Entry
         /\ S!Cache!Lookup(k) = cache[k].value /\ S!Cache!Lookup(k) \in S!List
BY DEF S!Cache!CacheTypeOK, S!Cache!Lookup, S!Cache!Entry

\* Only what is put enters the cache, and it need not stay.
LEMMA CachePut ==
  ASSUME S!Cache!CacheTypeOK, NEW k \in S!Key, NEW v \in S!List, NEW ttl \in Nat,
         S!Cache!Put(k, v, ttl)
  PROVE  /\ cache' \in [S!Key -> S!Cache!Entry \cup {S!Cache!Absent}]
         /\ \A j \in S!Key : \/ cache'[j] = cache[j] \/ cache'[j] = S!Cache!Absent
                             \/ j = k /\ cache'[j] = [value |-> v, expiry |-> now + ttl]
<1> DEFINE new == [value |-> v, expiry |-> now + ttl]
           grown == [cache EXCEPT ![k] = new]
<1>1. new \in S!Cache!Entry
  BY DEF S!Cache!CacheTypeOK, S!Cache!Entry
<1>2. /\ grown \in [S!Key -> S!Cache!Entry \cup {S!Cache!Absent}]
      /\ \A j \in S!Key : grown[j] = cache[j] \/ (j = k /\ grown[j] = new)
  BY <1>1 DEF S!Cache!CacheTypeOK
<1>3. cache' = grown \/ \E old : cache' = S!Cache!Without(grown, {old})
  BY DEF S!Cache!Put
<1> QED BY <1>2, <1>3 DEF S!Cache!Without

---------------------------------------------------------------------------
\* The limiter.


At(e) == <<e, Gateway>>

\* A check finds the bucket of its endpoint, for everybody comes from the gateway.
LEMMA Keys ==
  ASSUME NEW r \in Request, NEW e \in Endpoint
  PROVE  L!KeyOf(r, e) = At(e) /\ At(e) \in L!Key /\ At(e)[1] = e
BY DEF L!KeyOf, L!Key, At

\* The quotient of a division of naturals.
LEMMA Quotient ==
  ASSUME NEW a \in Nat, NEW d \in Nat, d > 0
  PROVE  a \div d \in Nat /\ (a \div d) * d <= a
OBVIOUS

LEMMA ByOne == \A a \in Nat : a \div 1 = a
OBVIOUS

\* At time t the bucket is not above its capacity, nor refilled in the future.
Sound(e, b, t) == b \in L!Bucket /\ b.tokens <= Burst[e] /\ b.last <= t

\* n admissions and the tokens left, covered by a burst at each of 1 + s starts and
\* by the time the bucket has accounted for.
Covered(e, n, b, s) ==
  (n + b.tokens) * Window <= Burst[e] * Window * (1 + s) + Limit[e] * b.last

Paid(e) ==
  LET n == Len(admitted[At(e)])
      b == buckets[At(e)]
  IN IF b = L!NoBucket
       THEN n * Window <= Burst[e] * Window * restarts + Limit[e] * now
       ELSE Sound(e, b, now) /\ Covered(e, n, b, restarts)

\* A refill earns what the time since the last one pays for.
LEMMA RefillPaid ==
  ASSUME NEW e \in Endpoint, NEW n \in Nat, NEW b,
         Sound(e, b, now), Covered(e, n, b, restarts),
         now \in Nat, restarts \in Nat
  PROVE  Sound(e, L!Refill(e, b), now) /\ Covered(e, n, L!Refill(e, b), restarts)
<1> DEFINE s == now - b.last
           gain == (s * Limit[e]) \div Window
           c == L!Refill(e, b)
<1>1. /\ Limit[e] \in Nat /\ Burst[e] \in Nat /\ Window \in Nat /\ Window > 0
      /\ b.tokens \in Nat /\ b.last \in Nat /\ s \in Nat
  BY Config DEF Sound, L!Bucket
<1>2. L!Elapsed(b) = s
  BY <1>1, ByOne DEF L!Elapsed
<1>3. CASE s = 0
  BY <1>2, <1>3 DEF L!Refill
<1>4. CASE s > 0
  <2>1. c = [tokens |-> L!Lesser(Burst[e], b.tokens + gain), last |-> now]
    BY <1>2, <1>4 DEF L!Refill
  <2>2. gain \in Nat /\ gain * Window <= s * Limit[e]
    BY <1>1, Quotient
  <2> HIDE DEF gain
  <2>3. /\ c.tokens \in Nat /\ c.tokens <= Burst[e] /\ c.tokens <= b.tokens + gain
        /\ c.last = now /\ c \in L!Bucket
    BY <1>1, <2>1, <2>2 DEF L!Lesser, L!Bucket
  <2>4. Sound(e, c, now)
    BY <2>3 DEF Sound
  <2> DEFINE due == Burst[e] * Window * (1 + restarts)
  <2>5. due \in Nat /\ (n + b.tokens) * Window <= due + Limit[e] * b.last
    BY <1>1 DEF Covered
  <2> HIDE DEF due, c
  <2>6. (n + c.tokens) * Window <= due + Limit[e] * now
    <3>1. (n + c.tokens) * Window <= (n + b.tokens + gain) * Window
      BY <1>1, <2>2, <2>3
    <3>2. (n + b.tokens + gain) * Window = (n + b.tokens) * Window + gain * Window
      BY <1>1, <2>2
    <3>3. Limit[e] * now = Limit[e] * b.last + s * Limit[e]
      BY <1>1
    <3>4. /\ (n + c.tokens) * Window \in Int /\ (n + b.tokens) * Window \in Int
          /\ gain * Window \in Int /\ Limit[e] * b.last \in Int /\ s * Limit[e] \in Int
      BY <1>1, <2>2, <2>3
    <3> QED BY <2>2, <2>5, <3>1, <3>2, <3>3, <3>4
  <2>7. Covered(e, n, c, restarts)
    BY <2>3, <2>6 DEF Covered, due
  <2> QED BY <2>4, <2>7 DEF c
<1> QED BY <1>1, <1>3, <1>4

\* What a check finds, whether it had to create the bucket or not.
LEMMA ReadyPaid ==
  ASSUME L!TypeOK, restarts \in Nat, NEW e \in Endpoint, Paid(e)
  PROVE  /\ Sound(e, L!Ready(At(e)), now)
         /\ Covered(e, Len(admitted[At(e)]), L!Ready(At(e)), restarts)
<1> DEFINE n == Len(admitted[At(e)])
           b == buckets[At(e)]
<1>1. At(e) \in L!Key /\ At(e)[1] = e /\ n \in Nat /\ now \in Nat
  BY Config DEF L!TypeOK, L!Key, At
<1>2. CASE b = L!NoBucket
  <2>1. /\ L!NewBucket(e) = [tokens |-> Burst[e], last |-> now]
        /\ Sound(e, L!NewBucket(e), now)
    BY <1>1, Config DEF L!NewBucket, Sound, L!Bucket
  <2>2. Covered(e, n, L!NewBucket(e), restarts)
    <3> DEFINE w == Burst[e] * Window
    <3>1. n * Window <= w * restarts + Limit[e] * now
      BY <1>2 DEF Paid
    <3>2. w \in Nat /\ (n + Burst[e]) * Window = n * Window + w
      BY <1>1, Config
    <3>3. w * (1 + restarts) = w * restarts + w
      BY <3>2
    <3>4. n * Window \in Int /\ w * restarts \in Int /\ Limit[e] * now \in Int
      BY <1>1, <3>2, Config
    <3> HIDE DEF w
    <3>5. (n + Burst[e]) * Window <= w * (1 + restarts) + Limit[e] * now
      BY <3>1, <3>2, <3>3, <3>4
    <3> QED BY <2>1, <3>5 DEF Covered, w
  <2>3. L!Ready(At(e)) = L!Refill(e, L!NewBucket(e))
    BY <1>1, <1>2 DEF L!Ready
  <2> QED BY <1>1, <2>1, <2>2, <2>3, RefillPaid
<1>3. CASE b # L!NoBucket
  <2>1. L!Ready(At(e)) = L!Refill(e, b)
    BY <1>1, <1>3 DEF L!Ready
  <2>2. Sound(e, b, now) /\ Covered(e, n, b, restarts)
    BY <1>3 DEF Paid
  <2> QED BY <1>1, <2>1, <2>2, RefillPaid
<1> QED BY <1>2, <1>3

LimiterInv ==
  /\ L!TypeOK /\ restarts \in Nat
  /\ \A e \in Endpoint : Paid(e)

\* A step that leaves the buckets and the admissions alone.
LEMMA PaidKept ==
  ASSUME LimiterInv, UNCHANGED <<buckets, admitted, restarts>>,
         now' \in Nat, now <= now'
  PROVE  \A e \in Endpoint : Paid(e)'
<1> SUFFICES ASSUME NEW e \in Endpoint PROVE Paid(e)'
  OBVIOUS
<1>1. Paid(e) /\ now \in Nat /\ Limit[e] \in Nat
  BY Config DEF LimiterInv, L!TypeOK
<1>2. Limit[e] * now <= Limit[e] * now'
  BY <1>1
<1> DEFINE n == Len(admitted[At(e)]) * Window
           b == Burst[e] * Window * restarts
<1>3. CASE buckets[At(e)] = L!NoBucket
  <2>1. n <= b + Limit[e] * now
    BY <1>1, <1>3 DEF Paid
  <2>2. n \in Int /\ b \in Int /\ Limit[e] * now \in Int /\ Limit[e] * now' \in Int
    BY <1>1, Config DEF LimiterInv, L!TypeOK, L!Key, At
  <2> HIDE DEF n, b
  <2>3. n <= b + Limit[e] * now'
    BY <1>2, <2>1, <2>2
  <2> QED BY <1>3, <2>3 DEF Paid, n, b
<1>4. CASE buckets[At(e)] # L!NoBucket
  BY <1>1, <1>4 DEF Paid, Sound, Covered, L!Bucket
<1> QED BY <1>3, <1>4

LEMMA AdmitFacts ==
  ASSUME LimiterInv, NEW r \in Request, NEW e \in Endpoint, L!Admit(r, e),
         UNCHANGED restarts
  PROVE  /\ LimiterInv' /\ UNCHANGED <<now, request>> /\ request[r] = L!Idle
         /\ Len(admitted'[At(e)]) = Len(admitted[At(e)]) + 1
         /\ \A d \in Endpoint \ {e} : admitted'[At(d)] = admitted[At(d)]
<1> DEFINE k == At(e)
           c == L!Ready(k)
           n == Len(admitted[k])
<1>1. /\ L!KeyOf(r, e) = k /\ k \in L!Key
      /\ \A d \in Endpoint \ {e} : At(d) \in L!Key /\ At(d) # k
  BY Keys DEF At, L!Key
<1>2. /\ request[r] = L!Idle /\ c.tokens >= 1
      /\ buckets' = [buckets EXCEPT ![k] = [tokens |-> c.tokens - 1, last |-> c.last]]
      /\ admitted' = [admitted EXCEPT ![k] = Append(@, now)]
      /\ refusal' = [refusal EXCEPT ![k] = L!NoRefusal]
      /\ reply' = [reply EXCEPT ![r] = [L!NoReply EXCEPT !.status = 200, !.endpoint = e]]
      /\ UNCHANGED <<now, request>>
  BY <1>1 DEF L!Admit
<1>3. Sound(e, c, now) /\ Covered(e, n, c, restarts)
  BY ReadyPaid DEF LimiterInv
<1> HIDE DEF k, c, n
<1>4. n \in Nat /\ now \in Nat /\ c.tokens \in Nat /\ c.last \in Nat /\ now \in 0..MaxTime
  BY <1>1, <1>3, Config DEF LimiterInv, L!TypeOK, Sound, L!Bucket, n
<1> DEFINE b == [tokens |-> c.tokens - 1, last |-> c.last]
<1>5. b \in L!Bucket
  BY <1>2, <1>4 DEF L!Bucket
<1>6. L!TypeOK'
  <2>1. buckets' \in [L!Key -> L!Bucket \cup {L!NoBucket}]
    BY <1>2, <1>5 DEF LimiterInv, L!TypeOK
  <2>2. admitted' \in [L!Key -> Seq(Nat)]
    BY <1>1, <1>2, <1>4 DEF LimiterInv, L!TypeOK
  <2> QED BY <1>2, <2>1, <2>2 DEF LimiterInv, L!TypeOK, L!NoReply, L!Idle
<1>7. /\ buckets'[k] = b /\ Len(admitted'[k]) = n + 1
      /\ \A d \in Endpoint \ {e} : /\ buckets'[At(d)] = buckets[At(d)]
                                   /\ admitted'[At(d)] = admitted[At(d)]
  BY <1>1, <1>2, <1>4 DEF LimiterInv, L!TypeOK, n
<1>8. Paid(e)'
  <2>1. b # L!NoBucket
    BY <1>4 DEF L!NoBucket
  <2>2. Sound(e, b, now')
    BY <1>2, <1>3, <1>4, <1>5, Config DEF Sound
  <2>3. (n + 1) + b.tokens = n + c.tokens
    BY <1>4
  <2>4. Covered(e, n + 1, b, restarts')
    BY <1>3, <2>3 DEF Covered
  <2> QED BY <1>7, <2>1, <2>2, <2>4 DEF Paid, k
<1>9. ASSUME NEW d \in Endpoint, d # e PROVE Paid(d)'
  <2>1. Paid(d)
    BY DEF LimiterInv
  <2> QED BY <1>2, <1>7, <1>9, <2>1 DEF Paid, Sound, Covered
<1> QED BY <1>2, <1>6, <1>7, <1>8, <1>9 DEF LimiterInv, k, n

LEMMA RefuseFacts ==
  ASSUME LimiterInv, NEW r \in Request, NEW e \in Endpoint, L!Refuse(r, e),
         UNCHANGED restarts
  PROVE  /\ LimiterInv' /\ UNCHANGED <<now, admitted>> /\ request[r] = L!Idle
         /\ request' = [request EXCEPT ![r] = e]
<1> DEFINE k == At(e)
           c == L!Ready(k)
<1>1. /\ L!KeyOf(r, e) = k /\ k \in L!Key
      /\ \A d \in Endpoint \ {e} : At(d) \in L!Key /\ At(d) # k
  BY Keys DEF At, L!Key
<1>2. /\ request[r] = L!Idle
      /\ buckets' = [buckets EXCEPT ![k] = c]
      /\ request' = [request EXCEPT ![r] = e]
      /\ refusal' = [refusal EXCEPT ![k] =
                       [first |-> IF @ = L!NoRefusal THEN now ELSE @.first,
                        latest |-> now]]
      /\ UNCHANGED <<now, reply, admitted>>
  BY <1>1 DEF L!Refuse
<1>3. Sound(e, c, now) /\ Covered(e, Len(admitted[k]), c, restarts)
  BY ReadyPaid DEF LimiterInv
<1> HIDE DEF k, c
<1>4. now \in Nat /\ c \in L!Bucket /\ c # L!NoBucket
  BY <1>3, Config DEF LimiterInv, L!TypeOK, Sound, L!Bucket, L!NoBucket
<1>5. L!TypeOK'
  <2>1. buckets' \in [L!Key -> L!Bucket \cup {L!NoBucket}]
    BY <1>2, <1>4 DEF LimiterInv, L!TypeOK
  <2>2. refusal' \in [L!Key -> [first : Nat, latest : Nat] \cup {L!NoRefusal}]
    <3>1. [first |-> IF refusal[k] = L!NoRefusal THEN now ELSE refusal[k].first,
           latest |-> now] \in [first : Nat, latest : Nat]
      BY <1>1, <1>4 DEF LimiterInv, L!TypeOK
    <3> QED BY <1>1, <1>2, <3>1 DEF LimiterInv, L!TypeOK
  <2> QED BY <1>2, <2>1, <2>2 DEF LimiterInv, L!TypeOK
<1>6. buckets'[k] = c /\ \A d \in Endpoint \ {e} : buckets'[At(d)] = buckets[At(d)]
  BY <1>1, <1>2 DEF LimiterInv, L!TypeOK
<1>7. Paid(e)'
  BY <1>2, <1>3, <1>4, <1>6 DEF Paid, Sound, Covered, k
<1>8. ASSUME NEW d \in Endpoint, d # e PROVE Paid(d)'
  <2>1. Paid(d)
    BY DEF LimiterInv
  <2> QED BY <1>2, <1>6, <1>8, <2>1 DEF Paid, Sound, Covered
<1> QED BY <1>2, <1>5, <1>7, <1>8 DEF LimiterInv

LEMMA InformFacts ==
  ASSUME LimiterInv, NEW r \in Request, L!Inform(r), UNCHANGED restarts
  PROVE  /\ LimiterInv' /\ UNCHANGED <<now, admitted>>
         /\ request' = [request EXCEPT ![r] = L!Idle]
<1>1. /\ UNCHANGED <<now, buckets, admitted, refusal>>
      /\ request[r] # L!Idle /\ request' = [request EXCEPT ![r] = L!Idle]
  BY DEF L!Inform
<1>2. request[r] \in Endpoint /\ now \in Nat
  BY <1>1, Config DEF LimiterInv, L!TypeOK
<1>3. L!KeyOf(r, request[r]) = At(request[r]) /\ At(request[r]) \in L!Key
  BY <1>2, Keys
<1> DEFINE b == buckets[At(request[r])]
           said == IF b = L!NoBucket
                     THEN [status |-> 429, endpoint |-> request[r],
                           remaining |-> Limit[request[r]], reset |-> now + Window * 1]
                     ELSE [status |-> 429, endpoint |-> request[r],
                           remaining |-> b.tokens, reset |-> b.last + Window * 1]
<1>4. reply' = [reply EXCEPT ![r] = said]
  BY <1>3 DEF L!Inform
<1>5. said \in [status : {0, 200, 429}, endpoint : Endpoint \cup {L!Idle},
                remaining : Nat, reset : Nat]
  BY <1>2, <1>3, Config DEF LimiterInv, L!TypeOK, L!Bucket
<1> HIDE DEF said
<1>6. L!TypeOK'
  BY <1>1, <1>4, <1>5 DEF LimiterInv, L!TypeOK
<1>7. \A e \in Endpoint : Paid(e)'
  BY <1>1, <1>2, PaidKept
<1> QED BY <1>1, <1>6, <1>7 DEF LimiterInv

\* A restart forgets the buckets and pays for it with a burst.
LEMMA RestartFacts ==
  ASSUME LimiterInv, Restart
  PROVE  /\ LimiterInv' /\ UNCHANGED <<now, admitted>>
         /\ request' = [r \in Request |-> L!Idle]
<1>1. /\ restarts' = restarts + 1 /\ UNCHANGED <<now, reply, admitted, refusal>>
      /\ buckets' = [k \in L!Key |-> L!NoBucket]
      /\ request' = [r \in Request |-> L!Idle]
  BY DEF Restart
<1>2. L!TypeOK'
  BY <1>1 DEF LimiterInv, L!TypeOK
<1>3. ASSUME NEW e \in Endpoint PROVE Paid(e)'
  <2> DEFINE n == Len(admitted[At(e)])
             b == buckets[At(e)]
             w == Burst[e] * Window
  <2>1. /\ buckets'[At(e)] = L!NoBucket /\ n \in Nat /\ Paid(e) /\ restarts \in Nat
        /\ now \in Nat /\ w \in Nat /\ Window \in Nat /\ Limit[e] \in Nat
    BY <1>1, Config DEF LimiterInv, L!TypeOK, L!Key, At
  <2>2. n * Window <= w * (1 + restarts) + Limit[e] * now
    <3>1. CASE b = L!NoBucket
      <4>1. n * Window <= w * restarts + Limit[e] * now
        BY <2>1, <3>1 DEF Paid
      <4>2. w * (1 + restarts) = w * restarts + w
        BY <2>1
      <4>3. n * Window \in Int /\ w * restarts \in Int /\ Limit[e] * now \in Int
        BY <2>1
      <4> HIDE DEF w, n
      <4> QED BY <2>1, <4>1, <4>2, <4>3
    <3>2. CASE b # L!NoBucket
      <4>1. /\ (n + b.tokens) * Window <= w * (1 + restarts) + Limit[e] * b.last
            /\ b.tokens \in Nat /\ b.last \in Nat /\ b.last <= now
        BY <2>1, <3>2 DEF Paid, Sound, Covered, L!Bucket
      <4> HIDE DEF w, n, b
      <4>2. n * Window <= (n + b.tokens) * Window /\ Limit[e] * b.last <= Limit[e] * now
        BY <2>1, <4>1
      <4>3. /\ n * Window \in Int /\ (n + b.tokens) * Window \in Int
            /\ w * (1 + restarts) \in Int
            /\ Limit[e] * b.last \in Int /\ Limit[e] * now \in Int
        BY <2>1, <4>1
      <4> QED BY <4>1, <4>2, <4>3
    <3> QED BY <3>1, <3>2
  <2> QED BY <1>1, <2>1, <2>2 DEF Paid
<1> QED BY <1>1, <1>2, <1>3 DEF LimiterInv

LEMMA TickFacts ==
  ASSUME LimiterInv, Tick
  PROVE  LimiterInv' /\ UNCHANGED <<admitted, request>>
<1>1. /\ UNCHANGED <<buckets, request, reply, admitted, refusal, restarts>>
      /\ now \in 0..MaxTime /\ now < MaxTime /\ now' = now + 1
  BY DEF Tick, L!Tick, LimiterInv, L!TypeOK
<1>2. L!TypeOK'
  BY <1>1, Config DEF LimiterInv, L!TypeOK
<1>3. \A e \in Endpoint : Paid(e)'
  BY <1>1, Config, PaidKept
<1> QED BY <1>1, <1>2, <1>3 DEF LimiterInv

LEMMA LimiterKept ==
  ASSUME LimiterInv, UNCHANGED <<now, limiter, restarts>>
  PROVE  LimiterInv'
BY DEF LimiterInv, L!TypeOK, limiter, Paid, Sound, Covered

---------------------------------------------------------------------------
\* Types, and what the place of a request says about the rest of it.

Registering == {"checkLogin", "checkEmail", "insert"}

Placed ==
  \A r \in Request :
    /\ pc[r] \in Registering \cup {"invalidate"} => task[r] \in Form
    /\ pc[r] \in {"read", "fill"} => task[r] \in S!Key
    /\ pc[r] = "fill" => held[r] \in S!List
    /\ pc[r] = "authenticate" => task[r] \in Credentials
    /\ pc[r] # "publish"
    /\ pc[r] # "done" => answer[r] = 0
    /\ answer[r] = 200 => held[r] \in S!List /\ task[r] \in S!Key \cup Credentials
    /\ answer[r] = 201 => task[r] \in Form
    /\ answer[r] = 401 => task[r] \in Credentials

TypeInv == TypeOK /\ Placed /\ LimiterInv

LEMMA TypeInit == Init => TypeInv
<1> SUFFICES ASSUME Init PROVE TypeInv
  OBVIOUS
<1> USE DEF Init, S!Init, L!Init
<1>1. L!TypeOK
  BY Config DEF L!TypeOK, L!NoReply, L!Idle
<1>2. \A e \in Endpoint : Paid(e)
  <2> SUFFICES ASSUME NEW e \in Endpoint PROVE Paid(e)
    OBVIOUS
  <2>1. /\ buckets[At(e)] = L!NoBucket /\ admitted[At(e)] = <<>>
        /\ restarts = 0 /\ now = 0
    BY DEF L!Key, At
  <2>2. Len(admitted[At(e)]) = 0
    BY <2>1
  <2> QED BY <2>1, <2>2, Config DEF Paid
<1>3. TypeOK
  BY <1>1, LimitedAssumption
     DEF TypeOK, S!Place, S!Cache!CacheInit, S!Cache!CacheTypeOK
<1>4. Placed
  BY DEF Placed, Registering
<1> QED BY <1>1, <1>2, <1>3, <1>4 DEF TypeInv, LimiterInv

\* What a request remembers when it begins are logins.
LEMMA BeginTypes ==
  ASSUME TypeInv, NEW r \in Request, NEW what \in Form \cup S!Key \cup Credentials,
         S!Begin(r, what)
  PROVE  /\ known' \in [Request -> SUBSET S!Logins]
         /\ task' \in [Request -> Form \cup S!Key \cup Credentials \cup {S!Nothing}]
         /\ pc[r] = "new" /\ answer[r] = 0 /\ task'[r] = what
         /\ \A q \in Request \ {r} : task'[q] = task[q]
<1>1. {task[c].login : c \in S!Created} \subseteq S!Logins
  BY DEF S!Created, TypeInv, Placed, S!Logins
<1> QED BY <1>1 DEF S!Begin, TypeInv, TypeOK, Placed

LEMMA TypeNext == TypeInv /\ [Next]_vars => TypeInv'
<1> SUFFICES ASSUME TypeInv, [Next]_vars PROVE TypeInv'
  OBVIOUS
<1> USE DEF TypeInv
<1>0. /\ now \in Nat /\ MaxTime \in Nat /\ SearchTtl \in Nat /\ DefaultTtl \in Nat
      /\ S!Cache!CacheTypeOK /\ LimiterInv
  BY Config DEF TypeOK
<1> USE DEF service, S!Place, Registering, L!Idle
<1>1. CASE UNCHANGED vars
  <2>1. LimiterInv'
    BY <1>1, LimiterKept DEF vars
  <2> QED BY <1>1, <2>1 DEF vars, limiter, TypeOK, Placed, S!Cache!CacheTypeOK, LimiterInv
\* A request that is checked by the limiter.
<1>2. ASSUME NEW r \in Request, NEW e \in Endpoint,
             NEW to \in {"checkLogin", "authenticate"}, NEW what, S!Begin(r, what),
             \/ to = "checkLogin" /\ what \in Form
             \/ to = "authenticate" /\ what \in Credentials,
             \/ Check(r, e, TRUE) /\ S!Proceed(r, "new", to)
             \/ Check(r, e, FALSE) /\ S!Proceed(r, "new", "refused"),
             UNCHANGED <<cache, users, held, restarts>>
      PROVE  TypeInv'
  <2>0. /\ known' \in [Request -> SUBSET S!Logins]
        /\ task' \in [Request -> Form \cup S!Key \cup Credentials \cup {S!Nothing}]
        /\ pc[r] = "new" /\ answer[r] = 0 /\ task'[r] = what
        /\ \A q \in Request \ {r} : task'[q] = task[q]
    BY <1>2, BeginTypes
  <2>1. CASE Check(r, e, TRUE) /\ S!Proceed(r, "new", to)
    <3>1. LimiterInv' /\ UNCHANGED <<now, request>> /\ request[r] = L!Idle
      BY <1>0, <1>2, <2>1, AdmitFacts DEF Check
    <3> QED BY <1>2, <2>0, <2>1, <3>1
            DEF S!Proceed, TypeOK, Placed, S!Cache!CacheTypeOK, LimiterInv
  <2>2. CASE Check(r, e, FALSE) /\ S!Proceed(r, "new", "refused")
    <3>1. LimiterInv' /\ UNCHANGED now /\ request' = [request EXCEPT ![r] = e]
      BY <1>0, <1>2, <2>2, RefuseFacts DEF Check
    <3>2. request \in [Request -> Endpoint \cup {L!Idle}] /\ e # L!Idle
      BY <1>0, Config DEF LimiterInv, L!TypeOK
    <3> QED BY <1>2, <2>0, <2>2, <3>1, <3>2
            DEF S!Proceed, TypeOK, Placed, S!Cache!CacheTypeOK, LimiterInv
  <2> QED BY <1>2, <2>1, <2>2
<1>3. ASSUME NEW r \in Request, NEW f \in Form, CreateUser(r, f) PROVE TypeInv'
  <2>1. "user_reg" \in Endpoint
    BY DEF Endpoint
  <2> QED BY <1>2, <1>3, <2>1 DEF CreateUser
<1>4. ASSUME NEW r \in Request, NEW c \in Credentials, Login(r, c) PROVE TypeInv'
  <2>1. "login" \in Endpoint
    BY DEF Endpoint
  <2> QED BY <1>2, <1>4, <2>1 DEF Login
<1>5. ASSUME NEW r \in Request, MalformedRegistration(r) PROVE TypeInv'
  <2>1. LimiterInv' /\ UNCHANGED <<now, request>> /\ request[r] = L!Idle
    BY <1>0, <1>5, AdmitFacts DEF MalformedRegistration, Check, Endpoint
  <2> QED BY <1>5, <2>1 DEF MalformedRegistration, S!Answer, TypeOK, Placed,
                            S!Cache!CacheTypeOK, LimiterInv
<1>6. ASSUME NEW r \in Request, TooManyRequests(r) PROVE TypeInv'
  <2>1. LimiterInv' /\ UNCHANGED now /\ request' = [request EXCEPT ![r] = L!Idle]
    BY <1>0, <1>6, InformFacts DEF TooManyRequests
  <2>2. request \in [Request -> Endpoint \cup {L!Idle}]
    BY <1>0 DEF LimiterInv, L!TypeOK
  <2> QED BY <1>6, <2>1, <2>2 DEF TooManyRequests, S!Answer, TypeOK, Placed,
                                  S!Cache!CacheTypeOK, LimiterInv
<1>7. ASSUME UNCHANGED <<now, limiter, restarts>>
      PROVE  /\ LimiterInv' /\ L!TypeOK' /\ request' = request
             /\ now' \in 0..MaxTime /\ restarts' \in 0..MaxRestarts
  BY <1>0, <1>7, LimiterKept DEF limiter, TypeOK, LimiterInv
<1>8. ASSUME NEW r \in Request, StoreUser(r) PROVE TypeInv'
  <2>1. /\ UNCHANGED <<now, cache, task, held, known, limiter, restarts>>
        /\ pc[r] \in Registering
        /\ users' = users \/ users' = users \cup {S!Mine(r)}
        /\ \/ pc' = [pc EXCEPT ![r] = "checkEmail"] /\ answer' = answer
           \/ pc' = [pc EXCEPT ![r] = "insert"] /\ answer' = answer
           \/ pc' = [pc EXCEPT ![r] = "invalidate"] /\ answer' = answer
           \/ /\ pc' = [pc EXCEPT ![r] = "done"]
              /\ answer' = [answer EXCEPT ![r] = 409]
    BY <1>8 DEF StoreUser, S!CheckLogin, S!CheckEmail, S!Store, S!InsertUnacknowledged,
                S!Proceed, S!Answer
  <2>2. users' \subseteq S!User
    BY <2>1 DEF S!Mine, S!User, TypeOK, Placed
  <2>3. LimiterInv' /\ L!TypeOK' /\ now' \in 0..MaxTime /\ restarts' \in 0..MaxRestarts
        /\ request' = request
    BY <1>7, <2>1
  <2>4. TypeOK'
    BY <2>1, <2>2, <2>3 DEF TypeOK, S!Cache!CacheTypeOK
  <2>5. Placed'
    BY <2>1 DEF TypeOK, Placed
  <2> QED BY <2>3, <2>4, <2>5
<1>9. ASSUME NEW r \in Request, UserExists(r) \/ Malformed(r) PROVE TypeInv'
  BY <1>7, <1>9 DEF UserExists, S!Conflict, Malformed, S!Answer, TypeOK, Placed,
                    S!Cache!CacheTypeOK
<1>10. ASSUME Shrinks, UNCHANGED now PROVE S!Cache!CacheTypeOK'
  BY <1>0, <1>10 DEF Shrinks, S!Cache!CacheTypeOK
<1>11. ASSUME NEW r \in Request, Created(r) PROVE TypeInv'
  <2>1. S!Cache!CacheTypeOK'
    BY <1>0, <1>10, <1>11, CacheInvalidate DEF Created, S!Invalidate
  <2>2. UNCHANGED <<now, limiter, restarts>>
    BY <1>11 DEF Created, S!Invalidate
  <2> QED BY <1>7, <1>11, <2>1, <2>2
          DEF Created, S!Invalidate, S!Answer, TypeOK, Placed
<1>12. ASSUME NEW r \in Request, NEW k \in S!Key, S!Hit(r, k) \/ S!Missed(r, k),
              UNCHANGED <<limiter, restarts>>
       PROVE  TypeInv'
  <2>0. UNCHANGED <<now, limiter, restarts>>
    BY <1>12 DEF S!Hit, S!Missed
  <2>1. /\ known' \in [Request -> SUBSET S!Logins]
        /\ task' \in [Request -> Form \cup S!Key \cup Credentials \cup {S!Nothing}]
        /\ pc[r] = "new" /\ answer[r] = 0 /\ task'[r] = k
        /\ \A q \in Request \ {r} : task'[q] = task[q]
    BY <1>12, BeginTypes DEF S!Hit, S!Missed
  <2>2. S!Cache!CacheTypeOK'
    BY <1>0, <1>10, <1>12, CacheGet DEF S!Hit, S!Missed
  <2>3. S!Cache!Lookup(k) # S!Cache!Miss => S!Cache!Lookup(k) \in S!List
    BY <1>0, CacheHit
  <2>4. CASE S!Hit(r, k)
    <3>1. /\ held' = [held EXCEPT ![r] = S!Cache!Lookup(k)] /\ S!Answer(r, 200)
          /\ S!Cache!Lookup(k) \in S!List /\ UNCHANGED users
      BY <2>3, <2>4 DEF S!Hit
    <3> QED BY <1>7, <2>0, <2>1, <2>2, <3>1 DEF S!Answer, TypeOK, Placed
  <2>5. CASE S!Missed(r, k)
    <3>1. S!Proceed(r, "new", "read") /\ UNCHANGED <<users, held>>
      BY <2>5 DEF S!Missed
    <3> QED BY <1>7, <2>0, <2>1, <2>2, <3>1 DEF S!Proceed, TypeOK, Placed
  <2> QED BY <1>12, <2>4, <2>5
<1>13. ASSUME NEW r \in Request, NEW l \in S!Logins, FindUserByLogin(r, l) PROVE TypeInv'
  BY <1>12, <1>13, LoginKeyFact DEF FindUserByLogin
<1>14. ASSUME NEW r \in Request, NEW f \in Form, SearchUsersByName(r, f.name) PROVE TypeInv'
  BY <1>12, <1>14, MaskFact DEF SearchUsersByName
<1>15. ASSUME NEW r \in Request, NEW failed \in BOOLEAN, S!Read(r, failed),
              UNCHANGED <<limiter, restarts>>
       PROVE  TypeInv'
  <2> DEFINE found == IF failed THEN {} ELSE S!Matching(task[r])
             list == [found |-> found, readAt |-> now, filledAt |-> now,
                      failed |-> failed]
  <2>1. list \in S!List
    BY <1>0 DEF S!Matching, S!List, TypeOK
  <2>2. /\ held' = [held EXCEPT ![r] = list] /\ pc[r] = "read"
        /\ UNCHANGED <<now, cache, users, task, known, limiter, restarts>>
        /\ S!Answer(r, 404) \/ S!Proceed(r, "read", "fill")
    BY <1>15 DEF S!Read
  <2> HIDE DEF list
  <2>3. S!Cache!CacheTypeOK'
    BY <1>0, <2>2 DEF S!Cache!CacheTypeOK
  <2>4. CASE S!Answer(r, 404)
    BY <1>7, <2>1, <2>2, <2>3, <2>4 DEF S!Answer, TypeOK, Placed
  <2>5. CASE S!Proceed(r, "read", "fill")
    BY <1>7, <2>1, <2>2, <2>3, <2>5 DEF S!Proceed, TypeOK, Placed
  <2> QED BY <2>2, <2>4, <2>5
<1>16. ASSUME NEW r \in Request, CacheUsers(r) PROVE TypeInv'
  <2> DEFINE list == [held[r] EXCEPT !.filledAt = now]
  <2>1. /\ pc[r] = "fill" /\ S!Cache!Put(task[r], list, S!Ttl(task[r]))
        /\ held' = [held EXCEPT ![r] = list] /\ S!Answer(r, 200)
        /\ UNCHANGED <<now, users, task, known, limiter, restarts>>
    BY <1>16 DEF CacheUsers, S!Fill
  <2>2. held[r] \in S!List /\ task[r] \in S!Key
    BY <2>1 DEF Placed
  <2>3. list \in S!List
    BY <2>2 DEF S!List, TypeOK
  <2>4. S!Ttl(task[r]) \in Nat
    BY <1>0 DEF S!Ttl
  <2> HIDE DEF list
  <2>5. S!Cache!CacheTypeOK'
    BY <1>0, <2>1, <2>2, <2>3, <2>4, CachePut DEF S!Cache!CacheTypeOK
  <2> QED BY <1>7, <2>1, <2>2, <2>3, <2>5 DEF S!Answer, TypeOK, Placed
<1>17. ASSUME NEW r \in Request, NEW failed \in BOOLEAN, Authenticate(r, failed)
       PROVE  TypeInv'
  <2> DEFINE found == IF failed THEN {} ELSE WithCredentials(task[r])
             list == [found |-> found, readAt |-> now, filledAt |-> now,
                      failed |-> failed]
  <2>1. list \in S!List
    BY <1>0 DEF WithCredentials, S!List, TypeOK
  <2>2. /\ held' = [held EXCEPT ![r] = list] /\ pc[r] = "authenticate"
        /\ UNCHANGED <<now, cache, users, task, known, limiter, restarts>>
        /\ S!Answer(r, 401) \/ S!Answer(r, 200)
    BY <1>17 DEF Authenticate
  <2> HIDE DEF list
  <2>3. S!Cache!CacheTypeOK'
    BY <1>0, <2>2 DEF S!Cache!CacheTypeOK
  <2> QED BY <1>7, <2>1, <2>2, <2>3 DEF S!Answer, TypeOK, Placed
<1>18. CASE Restart
  <2>1. LimiterInv' /\ UNCHANGED now /\ request' = [r \in Request |-> L!Idle]
    BY <1>0, <1>18, RestartFacts
  <2>2. S!Cache!CacheTypeOK'
    BY <1>0, <1>10, <1>18, <2>1, CacheClear DEF Restart
  <2>3. restarts' \in 0..MaxRestarts
    BY <1>18, LimitedAssumption DEF Restart, TypeOK
  <2> QED BY <1>18, <2>1, <2>2, <2>3 DEF Restart, TypeOK, Placed, LimiterInv
<1>19. CASE Tick
  <2>1. LimiterInv' /\ request' = request
    BY <1>0, <1>19, TickFacts
  <2> QED BY <1>0, <1>19, <2>1 DEF Tick, L!Tick, TypeOK, Placed, LimiterInv,
                                   S!Cache!CacheTypeOK
<1> QED BY <1>1, <1>3, <1>4, <1>5, <1>6, <1>8, <1>9, <1>11, <1>13, <1>14, <1>15,
           <1>16, <1>17, <1>18, <1>19 DEF Next, ReadUsers

\* The service, its cache and its limiter are well typed, and a request waits for
\* the headers of its 429 exactly when the limiter has refused it.
THEOREM TypeCorrect == Spec => []TypeOK
BY TypeInit, TypeNext, PTL DEF Spec, TypeInv

---------------------------------------------------------------------------
\* What is stored.

Early == {"new", "refused"} \cup Registering

\* A user is the only one with its login or e-mail and is what its request asked
\* for, which is past the insert; a request past the insert has a user.
Stored ==
  /\ \A u \in users : pc[u.id] \notin Early /\ task[u.id] = u.form
  /\ \A u, v \in users :
       (u.form.login = v.form.login \/ u.form.email = v.form.email) => u = v
  /\ \A r \in Request : (pc[r] = "invalidate" \/ answer[r] = 201) => S!Own(r) # {}

LEMMA StoredInit == Init => Stored
BY DEF Init, S!Init, Stored, S!Own

\* A step that stores and acknowledges nobody.
LEMMA StoredKept ==
  ASSUME TypeInv, Stored, UNCHANGED users,
         \A r \in Request :
           /\ pc[r] \notin Early => pc'[r] \notin Early /\ task'[r] = task[r]
           /\ pc'[r] = "invalidate" => pc[r] = "invalidate"
           /\ answer'[r] = 201 => answer[r] = 201
  PROVE  Stored'
BY DEF TypeInv, TypeOK, Stored, S!Own, S!User

\* A new user, met by no unique index.
LEMMA StoredInsert ==
  ASSUME TypeInv, Stored, NEW r \in Request, S!Store(r), UNCHANGED task,
         S!Proceed(r, "insert", "invalidate") \/ S!Answer(r, 409)
  PROVE  Stored'
<1> USE DEF TypeInv
<1>1. /\ users' = users \cup {S!Mine(r)} /\ pc[r] = "insert"
      /\ S!Mine(r).id = r /\ S!Mine(r).form = task[r]
      /\ \A u \in users : /\ u.form.login # task[r].login
                          /\ u.form.email # task[r].email
  BY DEF S!Store, S!Mine, S!Indexed
<1>2. /\ pc'[r] \in {"invalidate", "done"} /\ answer'[r] # 201
      /\ \A q \in Request \ {r} : pc'[q] = pc[q] /\ answer'[q] = answer[q]
  BY <1>1 DEF S!Proceed, S!Answer, TypeOK, Placed, Registering
<1>3. \A u \in users : u.id \in Request /\ u.id # r
  BY <1>1 DEF Stored, TypeOK, S!User, Early, Registering
<1>4. \A u \in users' : pc'[u.id] \notin Early /\ task'[u.id] = u.form
  BY <1>1, <1>2, <1>3 DEF Stored, Early, Registering
<1>5. \A u, v \in users' :
        (u.form.login = v.form.login \/ u.form.email = v.form.email) => u = v
  BY <1>1 DEF Stored
<1>6. ASSUME NEW q \in Request, pc'[q] = "invalidate" \/ answer'[q] = 201
      PROVE  S!Own(q)' # {}
  <2>1. CASE q = r
    BY <1>1, <2>1 DEF S!Own
  <2>2. CASE q # r
    BY <1>1, <1>2, <1>6, <2>2 DEF Stored, S!Own
  <2> QED BY <2>1, <2>2
<1> QED BY <1>4, <1>5, <1>6 DEF Stored

\* What a step of StoreUser does: it stores the user, or nobody.
LEMMA StoreSteps ==
  ASSUME TypeInv, NEW r \in Request, StoreUser(r)
  PROVE  /\ UNCHANGED <<now, cache, task, held, known, limiter, restarts>>
         /\ pc[r] \in Registering
         /\ \A q \in Request \ {r} : pc'[q] = pc[q] /\ answer'[q] = answer[q]
         /\ \/ /\ UNCHANGED <<users, answer>> /\ pc'[r] \in Registering
            \/ /\ S!Store(r)
               /\ S!Proceed(r, "insert", "invalidate") \/ S!Answer(r, 409)
BY DEF StoreUser, S!CheckLogin, S!CheckEmail, S!InsertUnacknowledged, S!Store,
       S!Proceed, S!Answer, TypeInv, TypeOK, Registering


\* The steps of a request that register nobody: those that begin a creation or a
\* login or are answered with an error, and those that find or log in.
Plain(r) ==
  \/ \E f \in Form : CreateUser(r, f)
  \/ \E c \in Credentials : Login(r, c)
  \/ MalformedRegistration(r) \/ UserExists(r) \/ Malformed(r) \/ TooManyRequests(r)

Elsewhere(r) ==
  \/ Plain(r)
  \/ \E k \in S!Key : (S!Hit(r, k) \/ S!Missed(r, k)) /\ UNCHANGED <<limiter, restarts>>
  \/ ReadUsers(r) \/ CacheUsers(r)
  \/ \E failed \in BOOLEAN : Authenticate(r, failed)

LEMMA NextCases ==
  ASSUME Next
  PROVE  \/ \E r \in Request : StoreUser(r) \/ Created(r) \/ Elsewhere(r)
         \/ Restart
         \/ Tick
BY LoginKeyFact, MaskFact
   DEF Next, Elsewhere, Plain, FindUserByLogin, SearchUsersByName

LEMMA PlainSteps ==
  ASSUME NEW r \in Request, Plain(r)
  PROVE  /\ UNCHANGED <<cache, users, held, restarts>>
         /\ \/ \E what, to : /\ S!Begin(r, what) /\ S!Proceed(r, "new", to)
                            /\ to \in {"checkLogin", "authenticate", "refused"}
            \/ \E status \in {400, 409, 429} :
                 /\ S!Answer(r, status) /\ UNCHANGED <<task, known>>
                 /\ pc[r] \in {"new", "refused"} \cup Registering
<1>1. CASE \E f \in Form : CreateUser(r, f)
  BY <1>1 DEF CreateUser
<1>2. CASE \E c \in Credentials : Login(r, c)
  BY <1>2 DEF Login
<1>3. CASE MalformedRegistration(r)
  BY <1>3 DEF MalformedRegistration
<1>4. CASE UserExists(r)
  BY <1>4 DEF UserExists, S!Conflict, Registering
<1>5. CASE Malformed(r)
  BY <1>5 DEF Malformed
<1>6. CASE TooManyRequests(r)
  BY <1>6 DEF TooManyRequests
<1> QED BY <1>1, <1>2, <1>3, <1>4, <1>5, <1>6 DEF Plain

\* They leave the other requests and what is stored alone.
Aside(r) ==
  /\ UNCHANGED <<users, restarts>>
  /\ pc[r] \in {"new", "refused", "read", "fill", "authenticate"} \cup Registering
  /\ pc'[r] \in {"checkLogin", "refused", "read", "fill", "authenticate", "done"}
  /\ pc'[r] \in {"checkLogin", "refused"} => pc[r] = "new"
  /\ answer'[r] # 201
  /\ \/ task'[r] = task[r] /\ known'[r] = known[r]
     \/ /\ pc[r] = "new"
        /\ known'[r] = {task[c].login : c \in S!Created}
  /\ \A q \in Request \ {r} :
       /\ pc'[q] = pc[q] /\ task'[q] = task[q] /\ held'[q] = held[q]
       /\ answer'[q] = answer[q] /\ known'[q] = known[q]

LEMMA ElsewhereAside ==
  ASSUME TypeInv, NEW r \in Request, Elsewhere(r)
  PROVE  Aside(r)
<1> USE DEF Aside, TypeInv, TypeOK, Placed, Registering
<1> USE DEF S!Begin, S!Proceed, S!Answer
<1>1. ASSUME UNCHANGED <<users, held, restarts>>,
             NEW what, NEW to \in {"checkLogin", "authenticate", "refused"},
             S!Begin(r, what), S!Proceed(r, "new", to)
      PROVE  Aside(r)
  BY <1>1
<1>2. ASSUME UNCHANGED <<users, task, held, known, restarts>>,
             NEW status \in {400, 409, 429}, S!Answer(r, status),
             pc[r] \in {"new", "refused"} \cup Registering
      PROVE  Aside(r)
  BY <1>2
<1>3. CASE Plain(r)
  BY <1>1, <1>2, <1>3, PlainSteps
<1>4. ASSUME NEW k \in S!Key, S!Hit(r, k) \/ S!Missed(r, k), UNCHANGED <<limiter, restarts>>
      PROVE  Aside(r)
  BY <1>4 DEF S!Hit, S!Missed
<1>5. CASE ReadUsers(r)
  BY <1>5 DEF ReadUsers, S!Read
<1>6. CASE CacheUsers(r)
  BY <1>6 DEF CacheUsers, S!Fill
<1>7. ASSUME NEW failed \in BOOLEAN, Authenticate(r, failed) PROVE Aside(r)
  BY <1>7 DEF Authenticate
<1> QED BY <1>3, <1>4, <1>5, <1>6, <1>7 DEF Elsewhere

LEMMA CreatedSteps ==
  ASSUME TypeInv, NEW r \in Request, Created(r)
  PROVE  /\ UNCHANGED <<now, users, task, held, known, limiter, restarts>>
         /\ Shrinks
         /\ pc[r] = "invalidate" /\ pc'[r] = "done"
         /\ answer' = [answer EXCEPT ![r] = 201]
         /\ \A q \in Request \ {r} : pc'[q] = pc[q] /\ answer'[q] = answer[q]
BY CacheInvalidate DEF Created, S!Invalidate, S!Answer, TypeInv, TypeOK

LEMMA RestartSteps ==
  ASSUME TypeInv, Restart
  PROVE  /\ UNCHANGED <<now, users, task, held, answer, known, admitted>>
         /\ Shrinks
         /\ \A r \in Request : pc'[r] = IF pc[r] = "new" THEN "new" ELSE "done"
BY CacheClear DEF Restart, TypeInv, TypeOK

LEMMA StoredNext == TypeInv /\ Stored /\ [Next]_vars => Stored'
<1> SUFFICES ASSUME TypeInv, Stored, [Next]_vars PROVE Stored'
  OBVIOUS
<1>1. CASE UNCHANGED vars
  BY <1>1, StoredKept DEF vars, service
<1>2. ASSUME NEW r \in Request, StoreUser(r) PROVE Stored'
  <2>1. CASE UNCHANGED <<users, answer>> /\ pc'[r] \in Registering
    BY <1>2, <2>1, StoreSteps, StoredKept DEF Early, Registering
  <2>2. CASE /\ S!Store(r)
             /\ S!Proceed(r, "insert", "invalidate") \/ S!Answer(r, 409)
    BY <1>2, <2>2, StoreSteps, StoredInsert
  <2> QED BY <1>2, <2>1, <2>2, StoreSteps
<1>3. ASSUME NEW r \in Request, Created(r) PROVE Stored'
  <2>1. \A q \in Request : S!Own(q)' = S!Own(q)
    BY <1>3, CreatedSteps DEF S!Own
  <2> QED BY <1>3, <2>1, CreatedSteps
          DEF Stored, Early, Registering, TypeInv, TypeOK, S!User
<1>4. ASSUME NEW r \in Request, Elsewhere(r) PROVE Stored'
  BY <1>4, ElsewhereAside, StoredKept DEF Aside, Early, Registering
<1>5. CASE Restart
  BY <1>5, RestartSteps, StoredKept DEF Early, Registering
<1>6. CASE Tick
  BY <1>6, StoredKept DEF Tick, service
<1> QED BY <1>1, <1>2, <1>3, <1>4, <1>5, <1>6, NextCases

---------------------------------------------------------------------------
\* How much work the limiter lets through.

\* The requests that are registering somebody or have, and those that are trying a
\* password or have.
Registered == {r \in Request : pc[r] \in Registering} \cup {u.id : u \in users}
Tried == {r \in Request : pc[r] = "authenticate"} \cup LoginsTried

Admissions(e) == Len(admitted[At(e)])

\* Each of them has been admitted.
Counted ==
  /\ Cardinality(Registered) <= Admissions("user_reg")
  /\ Cardinality(Tried) <= Admissions("login")

LEMMA CountTypes ==
  ASSUME TypeInv
  PROVE  /\ IsFiniteSet(Registered) /\ Cardinality(Registered) \in Nat
         /\ IsFiniteSet(Tried) /\ Cardinality(Tried) \in Nat
         /\ \A e \in Endpoint : Admissions(e) \in Nat
<1>1. Registered \subseteq Request
  BY DEF Registered, TypeInv, TypeOK, S!User
<1>2. Tried \subseteq Request
  BY DEF Tried, LoginsTried
<1>3. \A e \in Endpoint : Admissions(e) \in Nat
  BY DEF Admissions, TypeInv, LimiterInv, L!TypeOK, L!Key, At
<1> QED BY <1>1, <1>2, <1>3, Config, FS_Subset, FS_CardinalityType

\* At most one request more, for one admission more.
LEMMA CountGrows ==
  ASSUME NEW T, NEW U, NEW r, NEW n \in Nat, NEW m \in Nat,
         IsFiniteSet(T), Cardinality(T) <= n,
         \/ U \subseteq T /\ n <= m
         \/ U \subseteq T \cup {r} /\ n + 1 <= m
  PROVE  Cardinality(U) <= m
<1>1. Cardinality(T) \in Nat
  BY FS_CardinalityType
<1>2. CASE U \subseteq T /\ n <= m
  <2>1. Cardinality(U) <= Cardinality(T) /\ Cardinality(U) \in Nat
    BY <1>2, FS_Subset, FS_CardinalityType
  <2> QED BY <1>1, <1>2, <2>1
<1>3. CASE U \subseteq T \cup {r} /\ n + 1 <= m
  <2>1. IsFiniteSet(T \cup {r}) /\ Cardinality(T \cup {r}) <= Cardinality(T) + 1
    BY <1>1, FS_AddElement
  <2>2. Cardinality(U) <= Cardinality(T \cup {r}) /\ Cardinality(U) \in Nat
    BY <1>3, <2>1, FS_Subset, FS_CardinalityType
  <2>3. Cardinality(T \cup {r}) \in Nat
    BY <2>1, FS_CardinalityType
  <2> QED BY <1>1, <1>3, <2>1, <2>2, <2>3
<1> QED BY <1>2, <1>3

LEMMA CountedKept ==
  ASSUME TypeInv, TypeInv', Counted, NEW r,
         \/ /\ Registered' \subseteq Registered
            /\ Admissions("user_reg") <= Admissions("user_reg")'
         \/ /\ Registered' \subseteq Registered \cup {r}
            /\ Admissions("user_reg") + 1 <= Admissions("user_reg")',
         \/ /\ Tried' \subseteq Tried
            /\ Admissions("login") <= Admissions("login")'
         \/ /\ Tried' \subseteq Tried \cup {r}
            /\ Admissions("login") + 1 <= Admissions("login")'
  PROVE  Counted'
<1>1. /\ Admissions("user_reg") \in Nat /\ Admissions("login") \in Nat
      /\ IsFiniteSet(Registered) /\ IsFiniteSet(Tried)
  BY CountTypes DEF Endpoint
<1>2. Admissions("user_reg")' \in Nat /\ Admissions("login")' \in Nat
  BY DEF Admissions, TypeInv, LimiterInv, L!TypeOK, L!Key, At, Endpoint
<1> DEFINE a == Admissions("user_reg")'
           b == Admissions("login")'
           c == Registered'
           d == Tried'
<1> HIDE DEF a, b, c, d
<1>3. Cardinality(c) <= a
  BY <1>1, <1>2, CountGrows DEF Counted, a, c
<1>4. Cardinality(d) <= b
  BY <1>1, <1>2, CountGrows DEF Counted, b, d
<1> QED BY <1>3, <1>4 DEF Counted, a, b, c, d

LEMMA CountedInit == Init => Counted
<1> SUFFICES ASSUME Init PROVE Counted
  OBVIOUS
<1>1. Registered = {} /\ Tried = {}
  BY DEF Init, S!Init, Registered, Tried, LoginsTried, Registering
<1>2. Admissions("user_reg") \in Nat /\ Admissions("login") \in Nat
  BY TypeInit, CountTypes DEF Endpoint
<1> QED BY <1>1, <1>2, FS_EmptySet DEF Counted

LEMMA CountedNext ==
  TypeInv /\ TypeInv' /\ Counted /\ [Next]_vars => Counted'
<1> SUFFICES ASSUME TypeInv, TypeInv', Counted, [Next]_vars PROVE Counted'
  OBVIOUS
<1>0. /\ Admissions("user_reg") \in Nat /\ Admissions("login") \in Nat
      /\ {"user_reg", "login"} = Endpoint
  BY CountTypes DEF Endpoint
\* A step that admits nobody.
<1>1. ASSUME UNCHANGED admitted, Registered' \subseteq Registered, Tried' \subseteq Tried
      PROVE  Counted'
  BY <1>0, <1>1, CountedKept DEF Admissions
<1>2. CASE UNCHANGED vars
  BY <1>1, <1>2 DEF vars, service, limiter, Registered, Tried, LoginsTried
<1>3. ASSUME NEW r \in Request, StoreUser(r) PROVE Counted'
  <2>1. UNCHANGED admitted
    BY <1>3, StoreSteps DEF limiter
  <2>2. Registered' \subseteq Registered
    BY <1>3, StoreSteps
       DEF Registered, Registering, S!Store, S!Mine, S!Proceed, S!Answer, TypeInv, TypeOK
  <2>3. Tried' \subseteq Tried
    BY <1>3, StoreSteps
       DEF Tried, LoginsTried, Registering, S!Proceed, S!Answer, TypeInv, TypeOK, Placed
  <2> QED BY <1>1, <2>1, <2>2, <2>3
<1>4. ASSUME NEW r \in Request, Created(r) PROVE Counted'
  <2>1. UNCHANGED admitted
    BY <1>4, CreatedSteps DEF limiter
  <2>2. Registered' \subseteq Registered /\ Tried' \subseteq Tried
    BY <1>4, CreatedSteps
       DEF Registered, Registering, Tried, LoginsTried, TypeInv, TypeOK
  <2> QED BY <1>1, <2>1, <2>2
\* A step of one request that registers nobody.
<1>5. ASSUME NEW r \in Request, Elsewhere(r)
      PROVE  /\ Registered' \subseteq Registered \cup {r}
             /\ pc'[r] # "checkLogin" => Registered' \subseteq Registered
             /\ Tried' \subseteq Tried \cup {r}
             /\ r \notin Tried' \/ r \in Tried => Tried' \subseteq Tried
  <2>1. Aside(r)
    BY <1>5, ElsewhereAside
  <2>2. \A q \in Request \ {r} : q \in Tried' => q \in Tried
    BY <2>1 DEF Aside, Tried, LoginsTried
  <2>3. Tried' \subseteq Request
    BY DEF Tried, LoginsTried
  <2>4. Registered' \subseteq Registered \cup {r}
    BY <2>1 DEF Aside, Registered
  <2>5. pc'[r] # "checkLogin" => Registered' \subseteq Registered
    BY <2>1 DEF Aside, Registered, Registering
  <2> QED BY <2>2, <2>3, <2>4, <2>5
<1>6. ASSUME NEW r \in Request, answer'[r] \notin {200, 401}, pc'[r] # "authenticate"
      PROVE  r \notin Tried'
  BY <1>6 DEF Tried, LoginsTried
<1>7. ASSUME NEW r \in Request, NEW e \in Endpoint, L!Admit(r, e), UNCHANGED restarts
      PROVE  /\ Admissions(e)' = Admissions(e) + 1
             /\ \A d \in Endpoint \ {e} : Admissions(d)' = Admissions(d)
  BY <1>7, AdmitFacts DEF Admissions, TypeInv
<1>8. ASSUME NEW r \in Request, NEW f \in Form, CreateUser(r, f) PROVE Counted'
  <2>0. Elsewhere(r) /\ UNCHANGED restarts /\ S!Begin(r, f)
    BY <1>8 DEF Elsewhere, Plain, CreateUser
  <2>1. CASE L!Admit(r, "user_reg") /\ S!Proceed(r, "new", "checkLogin")
    <3>1. /\ Admissions("user_reg")' = Admissions("user_reg") + 1
          /\ Admissions("login")' = Admissions("login")
      BY <1>0, <1>7, <2>0, <2>1
    <3>2. r \notin Tried'
      BY <1>6, <2>1 DEF S!Proceed, TypeInv, TypeOK, Placed
    <3> QED BY <1>0, <1>5, <2>0, <3>1, <3>2, CountedKept
  <2>2. CASE L!Refuse(r, "user_reg") /\ S!Proceed(r, "new", "refused")
    <3>1. UNCHANGED admitted /\ pc'[r] = "refused" /\ answer'[r] = 0
      BY <2>2 DEF L!Refuse, S!Proceed, TypeInv, TypeOK, Placed
    <3> QED BY <1>1, <1>5, <1>6, <2>0, <3>1
  <2> QED BY <1>8, <2>1, <2>2 DEF CreateUser, Check
<1>9. ASSUME NEW r \in Request, NEW c \in Credentials, Login(r, c) PROVE Counted'
  <2>0. Elsewhere(r) /\ UNCHANGED restarts
    BY <1>9 DEF Elsewhere, Plain, Login
  <2>1. CASE L!Admit(r, "login") /\ S!Proceed(r, "new", "authenticate")
    <3>1. /\ Admissions("login")' = Admissions("login") + 1
          /\ Admissions("user_reg")' = Admissions("user_reg")
      BY <1>0, <1>7, <2>0, <2>1
    <3>2. pc'[r] # "checkLogin"
      BY <2>1 DEF S!Proceed, TypeInv, TypeOK
    <3>3. Registered' \subseteq Registered /\ Tried' \subseteq Tried \cup {r}
      BY <1>5, <2>0, <3>2
    <3>4. /\ Admissions("user_reg") <= Admissions("user_reg")'
          /\ Admissions("login") + 1 <= Admissions("login")'
      BY <1>0, <3>1
    <3> QED BY <3>3, <3>4, CountedKept
  <2>2. CASE L!Refuse(r, "login") /\ S!Proceed(r, "new", "refused")
    <3>1. UNCHANGED admitted /\ pc'[r] = "refused" /\ answer'[r] = 0
      BY <2>2 DEF L!Refuse, S!Proceed, TypeInv, TypeOK, Placed
    <3> QED BY <1>1, <1>5, <1>6, <2>0, <3>1
  <2> QED BY <1>9, <2>1, <2>2 DEF Login, Check
<1>10. ASSUME NEW r \in Request, MalformedRegistration(r) PROVE Counted'
  <2>1. /\ Elsewhere(r) /\ UNCHANGED restarts /\ L!Admit(r, "user_reg")
        /\ pc'[r] = "done" /\ answer'[r] = 400
    BY <1>10 DEF Elsewhere, Plain, MalformedRegistration, Check, S!Answer, TypeInv, TypeOK
  <2>2. /\ Admissions("user_reg")' = Admissions("user_reg") + 1
        /\ Admissions("login")' = Admissions("login")
    BY <1>0, <1>7, <2>1
  <2> QED BY <1>0, <1>5, <1>6, <2>1, <2>2, CountedKept
<1>11. ASSUME NEW r \in Request, Elsewhere(r), UNCHANGED admitted,
              pc'[r] # "checkLogin", r \notin Tried' \/ r \in Tried
       PROVE  Counted'
  BY <1>1, <1>5, <1>11
<1>12. ASSUME NEW r \in Request, UserExists(r) \/ Malformed(r) \/ TooManyRequests(r)
       PROVE  Counted'
  <2>1. UNCHANGED admitted
    BY <1>12 DEF UserExists, Malformed, TooManyRequests, L!Inform, limiter
  <2>2. pc'[r] = "done" /\ answer'[r] \in {400, 409, 429} /\ Elsewhere(r)
    BY <1>12 DEF UserExists, S!Conflict, Malformed, TooManyRequests, S!Answer,
                 Elsewhere, Plain, TypeInv, TypeOK
  <2> QED BY <1>6, <1>11, <2>1, <2>2
<1>13. ASSUME NEW r \in Request, NEW k \in S!Key, S!Hit(r, k) \/ S!Missed(r, k),
              UNCHANGED <<limiter, restarts>>
       PROVE  Counted'
  <2>1. /\ UNCHANGED admitted /\ pc'[r] \in {"done", "read"} /\ task'[r] = k
        /\ Elsewhere(r)
    BY <1>13 DEF limiter, S!Hit, S!Missed, S!Begin, S!Proceed, S!Answer, Elsewhere,
                 TypeInv, TypeOK
  <2>2. r \notin Tried'
    BY <2>1, Disjoint DEF Tried, LoginsTried
  <2> QED BY <1>11, <2>1, <2>2
<1>14. ASSUME NEW r \in Request, ReadUsers(r) \/ CacheUsers(r) PROVE Counted'
  <2>1. /\ UNCHANGED <<admitted, task>> /\ pc'[r] \in {"done", "fill"}
        /\ task[r] \in S!Key /\ Elsewhere(r)
    BY <1>14 DEF limiter, ReadUsers, CacheUsers, S!Read, S!Fill, S!Proceed, S!Answer,
                 Elsewhere, TypeInv, TypeOK, Placed
  <2>2. r \notin Tried'
    BY <2>1, Disjoint DEF Tried, LoginsTried
  <2> QED BY <1>11, <2>1, <2>2
<1>15. ASSUME NEW r \in Request, NEW failed \in BOOLEAN, Authenticate(r, failed)
       PROVE  Counted'
  <2>0. Elsewhere(r)
    BY <1>15 DEF Elsewhere, Plain
  <2>1. UNCHANGED admitted /\ pc[r] = "authenticate" /\ pc'[r] = "done"
    BY <1>15 DEF limiter, Authenticate, S!Answer, TypeInv, TypeOK
  <2>2. r \in Tried
    BY <2>1 DEF Tried
  <2> QED BY <1>11, <2>0, <2>1, <2>2
<1>16. CASE Restart
  <2>1. UNCHANGED admitted
    BY <1>16, RestartSteps
  <2>2. Registered' \subseteq Registered /\ Tried' \subseteq Tried
    BY <1>16, RestartSteps DEF Registered, Registering, Tried, LoginsTried
  <2> QED BY <1>1, <2>1, <2>2
<1>17. CASE Tick
  BY <1>1, <1>17 DEF Tick, L!Tick, service, Registered, Tried, LoginsTried
<1> QED BY <1>2, <1>3, <1>4, <1>8, <1>9, <1>10, <1>12, <1>13, <1>14, <1>15, <1>16,
           <1>17, NextCases DEF Elsewhere, Plain

\* No two users have one id.
LEMMA UsersCounted ==
  ASSUME TypeInv, Stored
  PROVE  IsFiniteSet(users) /\ Cardinality(users) <= Cardinality(Registered)
<1> DEFINE id == [u \in users |-> u.id]
<1>1. id \in [users -> Registered]
  BY DEF Registered
<1>2. \A u, v \in users : id[u] = id[v] => u = v
  BY DEF Stored
<1>3. id \in Injection(users, Registered)
  BY <1>1, <1>2 DEF Injection, IsInjective
<1> QED BY <1>3, CountTypes, FS_Injection

\* What is admitted is covered by what the bucket has paid for.
LEMMA AdmissionsWithin ==
  ASSUME TypeInv, NEW e \in Endpoint
  PROVE  Within(e, Admissions(e))
<1> DEFINE n == Admissions(e)
           b == buckets[At(e)]
           w == Burst[e] * Window
<1>1. /\ n \in Nat /\ now \in Nat /\ restarts \in Nat /\ Window \in Nat
      /\ w \in Nat /\ Limit[e] \in Nat /\ Paid(e)
  BY CountTypes, Config DEF TypeInv, LimiterInv, L!TypeOK
<1>2. n * Window <= w * (1 + restarts) + Limit[e] * now
  <2>1. CASE b = L!NoBucket
    <3>1. n * Window <= w * restarts + Limit[e] * now
      BY <1>1, <2>1 DEF Paid, Admissions
    <3>2. w * (1 + restarts) = w * restarts + w
      BY <1>1
    <3>3. n * Window \in Int /\ w * restarts \in Int /\ Limit[e] * now \in Int
      BY <1>1
    <3> HIDE DEF n, w
    <3> QED BY <1>1, <3>1, <3>2, <3>3
  <2>2. CASE b # L!NoBucket
    <3>1. /\ (n + b.tokens) * Window <= w * (1 + restarts) + Limit[e] * b.last
          /\ b.tokens \in Nat /\ b.last \in Nat /\ b.last <= now
      BY <1>1, <2>2 DEF Paid, Sound, Covered, L!Bucket, Admissions
    <3> HIDE DEF n, w, b
    <3>2. n * Window <= (n + b.tokens) * Window /\ Limit[e] * b.last <= Limit[e] * now
      BY <1>1, <3>1
    <3>3. /\ n * Window \in Int /\ (n + b.tokens) * Window \in Int
          /\ w * (1 + restarts) \in Int
          /\ Limit[e] * b.last \in Int /\ Limit[e] * now \in Int
      BY <1>1, <3>1
    <3> QED BY <3>1, <3>2, <3>3
  <2> QED BY <2>1, <2>2
<1> QED BY <1>2 DEF Within

LEMMA WithinLess ==
  ASSUME TypeInv, NEW e \in Endpoint, NEW n \in Nat, NEW m \in Nat, n <= m, Within(e, m)
  PROVE  Within(e, n)
<1>1. /\ Window \in Nat /\ Burst[e] * Window * (1 + restarts) + Limit[e] * now \in Int
  BY Config DEF TypeInv, LimiterInv, L!TypeOK
<1>2. n * Window <= m * Window /\ n * Window \in Int /\ m * Window \in Int
  BY <1>1
<1> QED BY <1>1, <1>2 DEF Within

\* However requests, queries, ticks and restarts interleave, no more users are
\* registered and no more passwords tried than the limits allow, where a restart
\* gives every endpoint its burst once more.
THEOREM WorkBounded == Spec => []WorkBound
<1>1. TypeInv /\ Stored /\ Counted => WorkBound
  <2> SUFFICES ASSUME TypeInv, Stored, Counted PROVE WorkBound
    OBVIOUS
  <2>1. /\ Cardinality(users) <= Cardinality(Registered) /\ Cardinality(users) \in Nat
        /\ Cardinality(Registered) \in Nat /\ Cardinality(Tried) \in Nat
        /\ Admissions("user_reg") \in Nat /\ Admissions("login") \in Nat
    BY UsersCounted, CountTypes, FS_CardinalityType DEF Endpoint
  <2>2. Cardinality(LoginsTried) <= Cardinality(Tried) /\ Cardinality(LoginsTried) \in Nat
    BY CountTypes, FS_Subset, FS_CardinalityType DEF Tried
  <2>3. /\ Cardinality(users) <= Admissions("user_reg")
        /\ Cardinality(LoginsTried) <= Admissions("login")
    BY <2>1, <2>2 DEF Counted
  <2>4. "user_reg" \in Endpoint /\ "login" \in Endpoint
    BY DEF Endpoint
  <2> QED BY <2>1, <2>2, <2>3, <2>4, AdmissionsWithin, WithinLess DEF WorkBound
<1> QED BY <1>1, TypeInit, TypeNext, StoredInit, StoredNext, CountedInit, CountedNext,
           PTL DEF Spec

---------------------------------------------------------------------------
\* What a find answers with, and a login.

\* The list is the one of these users with the login.
Names(those, list, l) == \E u \in those : list.found = {u} /\ u.form.login = l

\* Such a list is all that the cache has for a login, and that a find of it has read
\* or is answered with.
Listed ==
  /\ \A l \in S!Logins :
       cache[S!LoginKey(l)] # S!Cache!Absent
         => Names(users, cache[S!LoginKey(l)].value, l)
  /\ \A r \in Request : \A l \in S!Logins :
       (pc[r] = "fill" \/ answer[r] = 200) /\ task[r] = S!LoginKey(l)
         => Names(users, held[r], l)

LEMMA NamesMore ==
  ASSUME NEW those, NEW more, those \subseteq more, NEW list, NEW l, Names(those, list, l)
  PROVE  Names(more, list, l)
BY DEF Names

LEMMA ListedInit == Init => Listed
BY LoginKeyFact DEF Init, S!Init, Listed, S!Cache!CacheInit

\* A step that puts nothing into the cache and, for the rest, answers with what it
\* did or with a list of the stored user.
LEMMA ListedKept ==
  ASSUME Listed, Shrinks \/ UNCHANGED cache, users \subseteq users',
         \A r \in Request :
           pc'[r] = "fill" \/ answer'[r] = 200 =>
             \/ /\ pc[r] = "fill" \/ answer[r] = 200
                /\ held'[r] = held[r] /\ task'[r] = task[r]
             \/ \A l \in S!Logins : task'[r] = S!LoginKey(l) => Names(users, held'[r], l)
  PROVE  Listed'
<1>1. \A l \in S!Logins : cache'[S!LoginKey(l)] # S!Cache!Absent
                            => Names(users', cache'[S!LoginKey(l)].value, l)
  <2>1. \A l \in S!Logins : cache'[S!LoginKey(l)] # S!Cache!Absent
                              => cache'[S!LoginKey(l)] = cache[S!LoginKey(l)]
    BY LoginKeyFact DEF Shrinks
  <2> QED BY <2>1, NamesMore DEF Listed
<1>2. ASSUME NEW r \in Request, NEW l \in S!Logins,
             pc'[r] = "fill" \/ answer'[r] = 200, task'[r] = S!LoginKey(l)
      PROVE  Names(users', held'[r], l)
  <2>1. Names(users, held'[r], l)
    BY <1>2 DEF Listed
  <2> QED BY <2>1, NamesMore
<1> QED BY <1>1, <1>2 DEF Listed

\* A step of one request that leaves the cache alone and does not answer it 200.
LEMMA ListedAside ==
  ASSUME TypeInv, Listed, NEW r \in Request, Aside(r), Shrinks \/ UNCHANGED cache,
         pc'[r] # "fill", answer'[r] # 200
  PROVE  Listed'
BY ListedKept DEF Aside

\* Who has a login is the only one.
LEMMA OnlyOne ==
  ASSUME Stored, NEW l, NEW those, those # {},
         those \subseteq {u \in users : u.form.login = l}
  PROVE  \E u \in users : those = {u} /\ u.form.login = l
BY DEF Stored

LEMMA ListedNext == TypeInv /\ Stored /\ Listed /\ [Next]_vars => Listed'
<1> SUFFICES ASSUME TypeInv, Stored, Listed, [Next]_vars PROVE Listed'
  OBVIOUS
<1>0. S!Cache!CacheTypeOK
  BY DEF TypeInv, TypeOK
<1>1. CASE UNCHANGED vars
  BY <1>1, ListedKept DEF vars, service
<1>2. ASSUME NEW r \in Request, StoreUser(r) PROVE Listed'
  <2>1. users \subseteq users'
    BY <1>2, StoreSteps DEF S!Store
  <2>2. pc'[r] # "fill" /\ answer'[r] # 200
    BY <1>2, StoreSteps
       DEF Registering, S!Proceed, S!Answer, TypeInv, TypeOK, Placed
  <2> QED BY <1>2, <2>1, <2>2, StoreSteps, ListedKept
<1>3. ASSUME NEW r \in Request, Created(r) PROVE Listed'
  BY <1>3, CreatedSteps, ListedKept DEF TypeInv, TypeOK
<1>4. ASSUME NEW r \in Request, NEW k \in S!Key, S!Hit(r, k) \/ S!Missed(r, k),
             Elsewhere(r)
      PROVE  Listed'
  <2>1. Shrinks
    BY <1>0, <1>4, CacheGet DEF S!Hit, S!Missed
  <2>2. Aside(r) /\ task'[r] = k
    BY <1>4, ElsewhereAside DEF S!Hit, S!Missed, S!Begin, TypeInv, TypeOK
  <2>3. CASE S!Hit(r, k)
    <3>1. cache[k] # S!Cache!Absent /\ cache[k].value = held'[r]
      BY <1>0, <2>3, CacheHit DEF S!Hit, TypeInv, TypeOK
    <3>2. \A l \in S!Logins : task'[r] = S!LoginKey(l) => Names(users, held'[r], l)
      BY <2>2, <3>1 DEF Listed
    <3> QED BY <2>1, <2>2, <3>2, ListedKept DEF Aside
  <2>4. CASE S!Missed(r, k)
    <3>1. pc'[r] # "fill" /\ answer'[r] # 200
      BY <2>4 DEF S!Missed, S!Proceed, TypeInv, TypeOK, Placed
    <3> QED BY <2>1, <2>2, <3>1, ListedAside
  <2> QED BY <1>4, <2>3, <2>4
<1>5. ASSUME NEW r \in Request, ReadUsers(r) PROVE Listed'
  <2>0. Aside(r)
    BY <1>5, ElsewhereAside DEF Elsewhere
  <2>1. PICK failed \in BOOLEAN : S!Read(r, failed)
    BY <1>5 DEF ReadUsers
  <2> DEFINE found == IF failed THEN {} ELSE S!Matching(task[r])
  <2>2. /\ task[r] \in S!Key /\ UNCHANGED <<cache, users, task>>
        /\ held'[r].found = found
        /\ IF task[r].kind = "login" /\ found = {}
             THEN S!Answer(r, 404) ELSE S!Proceed(r, "read", "fill")
    BY <2>1 DEF S!Read, TypeInv, TypeOK, Placed
  <2>3. CASE task[r].kind = "login" /\ found = {}
    <3>1. pc'[r] # "fill" /\ answer'[r] # 200
      BY <2>2, <2>3 DEF S!Answer, TypeInv, TypeOK
    <3> QED BY <2>0, <2>2, <3>1, ListedAside
  <2>4. CASE ~ (task[r].kind = "login" /\ found = {})
    <3>1. ASSUME NEW l \in S!Logins, task'[r] = S!LoginKey(l)
          PROVE  Names(users, held'[r], l)
      <4>1. task[r].kind = "login" /\ task[r].of = l
        BY <2>2, <3>1, LoginKeyFact
      <4>2. found # {} /\ found \subseteq {u \in users : u.form.login = l}
        BY <2>4, <4>1 DEF S!Matching
      <4> HIDE DEF found
      <4> QED BY <2>2, <4>2, OnlyOne DEF Names
    <3> QED BY <2>0, <2>2, <3>1, ListedKept DEF Aside
  <2> QED BY <2>3, <2>4
<1>6. ASSUME NEW r \in Request, CacheUsers(r) PROVE Listed'
  <2> DEFINE list == [held[r] EXCEPT !.filledAt = now]
  <2>0. Aside(r)
    BY <1>6, ElsewhereAside DEF Elsewhere
  <2>1. /\ pc[r] = "fill" /\ S!Cache!Put(task[r], list, S!Ttl(task[r]))
        /\ held'[r] = list /\ UNCHANGED <<users, task>>
    BY <1>6 DEF CacheUsers, S!Fill, TypeInv, TypeOK
  <2>2. task[r] \in S!Key /\ held[r] \in S!List
    BY <2>1 DEF TypeInv, Placed
  <2>3. list \in S!List /\ list.found = held[r].found
    BY <2>2 DEF S!List, TypeInv, TypeOK
  <2>4. S!Ttl(task[r]) \in Nat
    BY Config DEF S!Ttl
  <2> HIDE DEF list
  <2>5. \A j \in S!Key :
          \/ cache'[j] = cache[j] \/ cache'[j] = S!Cache!Absent
          \/ j = task[r] /\ cache'[j].value = list
    <3>1. \A j \in S!Key :
            \/ cache'[j] = cache[j] \/ cache'[j] = S!Cache!Absent
            \/ /\ j = task[r]
               /\ cache'[j] = [value |-> list, expiry |-> now + S!Ttl(task[r])]
      BY <1>0, <2>1, <2>2, <2>3, <2>4, CachePut
    <3> QED BY <3>1
  <2>6. \A l \in S!Logins : task[r] = S!LoginKey(l) => Names(users, list, l)
    BY <2>1, <2>3 DEF Listed, Names
  <2>7. \A l \in S!Logins : cache'[S!LoginKey(l)] # S!Cache!Absent
                              => Names(users', cache'[S!LoginKey(l)].value, l)
    BY <2>1, <2>5, <2>6, LoginKeyFact DEF Listed
  <2>8. \A q \in Request : \A l \in S!Logins :
          (pc'[q] = "fill" \/ answer'[q] = 200) /\ task'[q] = S!LoginKey(l)
            => Names(users', held'[q], l)
    BY <2>0, <2>1, <2>6 DEF Aside, Listed
  <2> QED BY <2>7, <2>8 DEF Listed
<1>7. ASSUME NEW r \in Request, NEW failed \in BOOLEAN, Authenticate(r, failed)
      PROVE  Listed'
  <2>1. Aside(r) /\ UNCHANGED <<cache, task>> /\ task[r] \in Credentials
    BY <1>7, ElsewhereAside DEF Elsewhere, Authenticate, TypeInv, Placed
  <2>2. \A l \in S!Logins : task'[r] # S!LoginKey(l)
    BY <2>1, Disjoint, LoginKeyFact
  <2> QED BY <2>1, <2>2, ListedKept DEF Aside
<1>8. ASSUME NEW r \in Request, Plain(r) PROVE Listed'
  <2>1. Aside(r)
    BY <1>8, ElsewhereAside DEF Elsewhere
  <2>2. UNCHANGED cache /\ pc'[r] # "fill" /\ answer'[r] # 200
    BY <1>8, PlainSteps DEF S!Proceed, S!Answer, TypeInv, TypeOK, Placed
  <2> QED BY <2>1, <2>2, ListedAside
<1>9. CASE Restart
  BY <1>9, RestartSteps, ListedKept
<1>10. CASE Tick
  BY <1>10, ListedKept DEF Tick, service
<1>11. ASSUME NEW r \in Request, Elsewhere(r) PROVE Listed'
  BY <1>4, <1>5, <1>6, <1>7, <1>8, <1>11 DEF Elsewhere
<1> QED BY <1>1, <1>2, <1>3, <1>9, <1>10, <1>11, NextCases

\* What a request remembers is stored.
Remembered ==
  \A r \in Request : \A l \in known[r] : \E u \in users : u.form.login = l

LEMMA RememberedInit == Init => Remembered
BY DEF Init, S!Init, Remembered

LEMMA RememberedNext == TypeInv /\ Stored /\ Remembered /\ [Next]_vars => Remembered'
<1> SUFFICES ASSUME TypeInv, Stored, Remembered, [Next]_vars PROVE Remembered'
  OBVIOUS
<1>1. ASSUME users \subseteq users', UNCHANGED known PROVE Remembered'
  BY <1>1 DEF Remembered
<1>2. CASE UNCHANGED vars \/ Restart \/ Tick
  BY <1>1, <1>2, RestartSteps DEF vars, service, Tick
<1>3. ASSUME NEW r \in Request, StoreUser(r) PROVE Remembered'
  BY <1>1, <1>3, StoreSteps DEF S!Store
<1>4. ASSUME NEW r \in Request, Created(r) PROVE Remembered'
  BY <1>1, <1>4, CreatedSteps
<1>5. ASSUME NEW r \in Request, Elsewhere(r) PROVE Remembered'
  <2>1. \A c \in S!Created : \E u \in users : u.form.login = task[c].login
    BY DEF S!Created, Stored, S!Own
  <2> QED BY <1>5, <2>1, ElsewhereAside DEF Aside, Remembered
<1> QED BY <1>2, <1>3, <1>4, <1>5, NextCases

\* A token is that of the stored user with the login, whose password was given.  Who
\* knew of the login and gave a password without one, gave another user's.
Authenticated ==
  \A r \in Request : task[r] \in Credentials =>
    /\ answer[r] = 200 => /\ Names(users, held[r], task[r].login)
                          /\ \A u \in held[r].found : u.form = task[r].password
    /\ answer[r] = 401 /\ ~held[r].failed /\ task[r].login \in known[r] =>
         \E u \in users : u.form.login = task[r].login /\ u.form # task[r].password

LEMMA AuthenticatedInit == Init => Authenticated
BY DEF Init, S!Init, Authenticated

\* A step that answers no login.
LEMMA AuthenticatedKept ==
  ASSUME Authenticated, users \subseteq users',
         \A r \in Request : task'[r] \in Credentials /\ answer'[r] \in {200, 401} =>
           /\ answer'[r] = answer[r] /\ held'[r] = held[r]
           /\ task'[r] = task[r] /\ known'[r] = known[r]
  PROVE  Authenticated'
<1> SUFFICES ASSUME NEW r \in Request, task'[r] \in Credentials, answer'[r] \in {200, 401}
             PROVE  /\ answer'[r] = 200 =>
                         /\ Names(users', held'[r], task'[r].login)
                         /\ \A u \in held'[r].found : u.form = task'[r].password
                    /\ answer'[r] = 401 /\ ~held'[r].failed /\ task'[r].login \in known'[r]
                         => \E u \in users' : /\ u.form.login = task'[r].login
                                              /\ u.form # task'[r].password
  BY DEF Authenticated
<1> QED BY NamesMore DEF Authenticated

LEMMA AuthenticatedNext ==
  TypeInv /\ Stored /\ Remembered /\ Authenticated /\ [Next]_vars => Authenticated'
<1> SUFFICES ASSUME TypeInv, Stored, Remembered, Authenticated, [Next]_vars
             PROVE  Authenticated'
  OBVIOUS
<1>1. CASE UNCHANGED vars \/ Restart \/ Tick
  BY <1>1, RestartSteps, AuthenticatedKept DEF vars, service, Tick
<1>2. ASSUME NEW r \in Request, StoreUser(r) PROVE Authenticated'
  <2>1. users \subseteq users' /\ answer'[r] \notin {200, 401}
    BY <1>2, StoreSteps
       DEF S!Store, Registering, S!Proceed, S!Answer, TypeInv, TypeOK, Placed
  <2> QED BY <1>2, <2>1, StoreSteps, AuthenticatedKept
<1>3. ASSUME NEW r \in Request, Created(r) PROVE Authenticated'
  BY <1>3, CreatedSteps, AuthenticatedKept DEF TypeInv, TypeOK
<1>4. ASSUME NEW r \in Request, Elsewhere(r),
             task'[r] \notin Credentials \/ answer'[r] \notin {200, 401}
      PROVE  Authenticated'
  BY <1>4, ElsewhereAside, AuthenticatedKept DEF Aside
<1>5. ASSUME NEW r \in Request, Elsewhere(r), Plain(r) PROVE Authenticated'
  <2>1. answer'[r] \notin {200, 401}
    BY <1>5, PlainSteps DEF S!Proceed, S!Answer, TypeInv, TypeOK, Placed
  <2> QED BY <1>4, <1>5, <2>1
<1>6. ASSUME NEW r \in Request, Elsewhere(r),
             \/ \E k \in S!Key : S!Hit(r, k) \/ S!Missed(r, k)
             \/ ReadUsers(r) \/ CacheUsers(r)
      PROVE  Authenticated'
  <2>1. task'[r] \in S!Key
    BY <1>6 DEF S!Hit, S!Missed, S!Begin, ReadUsers, CacheUsers, S!Read, S!Fill,
                TypeInv, TypeOK, Placed
  <2> QED BY <1>4, <1>6, <2>1, Disjoint
<1>7. ASSUME NEW r \in Request, NEW failed \in BOOLEAN, Authenticate(r, failed)
      PROVE  Authenticated'
  <2> DEFINE found == IF failed THEN {} ELSE WithCredentials(task[r])
  <2>1. /\ Aside(r) /\ UNCHANGED <<users, task, known>>
        /\ held'[r].found = found /\ held'[r].failed = failed
        /\ answer'[r] = IF found = {} THEN 401 ELSE 200
    <3>1. Aside(r)
      BY <1>7, ElsewhereAside DEF Elsewhere
    <3>2. /\ UNCHANGED <<users, task, known>>
          /\ held' = [held EXCEPT ![r] = [found |-> found, readAt |-> now,
                                          filledAt |-> now, failed |-> failed]]
          /\ answer' = [answer EXCEPT ![r] = IF found = {} THEN 401 ELSE 200]
      BY <1>7 DEF Authenticate, S!Answer
    <3> HIDE DEF found
    <3> QED BY <3>1, <3>2 DEF TypeInv, TypeOK
  <2>2. ASSUME found # {}
        PROVE  /\ Names(users, held'[r], task[r].login)
               /\ \A u \in held'[r].found : u.form = task[r].password
    <3>1. /\ found \subseteq {u \in users : u.form.login = task[r].login}
          /\ \A u \in found : u.form = task[r].password
      BY DEF WithCredentials
    <3> HIDE DEF found
    <3> QED BY <2>1, <2>2, <3>1, OnlyOne DEF Names
  <2>3. ASSUME found = {}, ~failed, task[r].login \in known[r]
        PROVE  \E u \in users : u.form.login = task[r].login /\ u.form # task[r].password
    <3>1. PICK u \in users : u.form.login = task[r].login
      BY <2>3 DEF Remembered
    <3> QED BY <2>3, <3>1 DEF WithCredentials
  <2> HIDE DEF found
  <2>4. /\ answer'[r] = 200 => /\ Names(users', held'[r], task'[r].login)
                               /\ \A u \in held'[r].found : u.form = task'[r].password
        /\ answer'[r] = 401 /\ ~held'[r].failed /\ task'[r].login \in known'[r] =>
             \E u \in users' : /\ u.form.login = task'[r].login
                               /\ u.form # task'[r].password
    BY <2>1, <2>2, <2>3
  <2> QED BY <2>1, <2>4 DEF Aside, Authenticated
<1>8. ASSUME NEW r \in Request, Elsewhere(r) PROVE Authenticated'
  BY <1>5, <1>6, <1>7, <1>8 DEF Elsewhere
<1> QED BY <1>1, <1>2, <1>3, <1>8, NextCases

\* A token is that of the user whom every find of the login names, from the
\* collection or the cache, before or after a restart, and only whoever gives its
\* password has it; who registered before is not turned away with it but by the
\* limiter or by a query that failed.
THEOREM LoginsAgree == Spec => []LoginAgrees
<1>1. TypeInv /\ Stored /\ Listed /\ Authenticated => LoginAgrees
  <2> SUFFICES ASSUME TypeInv, Stored, Listed, Authenticated,
                      NEW r \in Request, task[r] \in Credentials
               PROVE  /\ \A s \in Request :
                           LoggedIn(r, task[r].login) /\ S!FoundByLogin(s, task[r].login)
                             => held[s].found = held[r].found
                      /\ answer[r] = 200 =>
                           \A u \in held[r].found : u \in users /\ u.form = task[r].password
                      /\ answer[r] = 401 /\ ~held[r].failed /\ task[r].login \in known[r] =>
                           \A u \in users : u.form.login = task[r].login
                                              => u.form # task[r].password
    BY DEF LoginAgrees
  <2>1. ASSUME NEW s \in Request, LoggedIn(r, task[r].login),
               S!FoundByLogin(s, task[r].login)
        PROVE  held[s].found = held[r].found
    <3>1. Names(users, held[r], task[r].login)
      BY <2>1 DEF LoggedIn, Authenticated
    <3>2. task[r].login \in S!Logins
      BY DEF Credentials
    <3>3. Names(users, held[s], task[r].login)
      BY <2>1, <3>2 DEF S!FoundByLogin, Listed
    <3> QED BY <3>1, <3>3 DEF Names, Stored
  <2>2. ASSUME answer[r] = 200
        PROVE  \A u \in held[r].found : u \in users /\ u.form = task[r].password
    BY <2>2 DEF Authenticated, Names
  <2>3. ASSUME answer[r] = 401, ~held[r].failed, task[r].login \in known[r]
        PROVE  \A u \in users : u.form.login = task[r].login => u.form # task[r].password
    BY <2>3 DEF Authenticated, Stored
  <2> QED BY <2>1, <2>2, <2>3
<1> QED BY <1>1, TypeInit, TypeNext, StoredInit, StoredNext, ListedInit, ListedNext,
           RememberedInit, RememberedNext, AuthenticatedInit, AuthenticatedNext,
           PTL DEF Spec

---------------------------------------------------------------------------
\* The service keeps the promise of module Creation.

\* A step that stores nobody leaves what was made alone, and one that acknowledges
\* nobody besides, what was told.
LEMMA MadeKept ==
  ASSUME UNCHANGED users
  PROVE  /\ \A r \in Request : S!Own(r)' = S!Own(r)
         /\ made' = made
         /\ S!Created' = S!Created => told' = told
BY DEF made, told, S!Own

\* The new user is made for a request that had none.
LEMMA StoringMakes ==
  ASSUME TypeInv, Stored, Stored', NEW r \in Request, S!Store(r),
         S!Created' = S!Created
  PROVE  Abstract!Make(r) /\ UNCHANGED told
<1>1. users' = users \cup {S!Mine(r)} /\ pc[r] = "insert" /\ S!Mine(r).id = r
  BY DEF S!Store, S!Mine
<1>2. S!Own(r) = {}
  BY <1>1 DEF Stored, S!Own, Early, Registering
<1>3. S!Own(r)' = {S!Mine(r)} /\ \A q \in Request \ {r} : S!Own(q)' = S!Own(q)
  BY <1>1, <1>2 DEF S!Own
<1>4. r \notin S!Created
  BY <1>1 DEF S!Created, TypeInv, Placed
<1>5. told' = told /\ told[r] = {}
  BY <1>3, <1>4 DEF told
<1>6. /\ made[r] = {} /\ made'[r] = {S!Mine(r)}
      /\ \A q \in Request \ {r} : made'[q] = made[q]
  BY <1>2, <1>3 DEF made
<1>7. Abstract!Distinct(made')
  <2> SUFFICES ASSUME NEW p \in Request, NEW q \in Request, p # q,
                      NEW x \in made'[p], NEW y \in made'[q]
               PROVE  ~SameLoginOrEmail(x, y)
    BY DEF Abstract!Distinct
  <2>1. x \in users' /\ x.id = p /\ y \in users' /\ y.id = q
    BY DEF made, S!Own
  <2> QED BY <2>1 DEF Stored, SameLoginOrEmail
<1>8. Cardinality(made'[r]) = 1
  BY <1>6, FS_Singleton
<1> QED BY <1>5, <1>6, <1>7, <1>8
        DEF Abstract!Make, Abstract!Cardinality, Cardinality

LEMMA StepsKeepPromise ==
  TypeInv /\ Stored /\ Stored' /\ [Next]_vars => [Abstract!Next]_<<made, told>>
<1> SUFFICES ASSUME TypeInv, Stored, Stored', [Next]_vars
             PROVE  Abstract!Next \/ UNCHANGED <<made, told>>
  OBVIOUS
<1>1. CASE UNCHANGED vars \/ Restart \/ Tick
  <2>1. users' = users /\ S!Created' = S!Created
    BY <1>1, RestartSteps DEF vars, service, Tick, S!Created
  <2> QED BY <2>1, MadeKept
<1>2. ASSUME NEW r \in Request, StoreUser(r)
      PROVE  Abstract!Next \/ UNCHANGED <<made, told>>
  <2>1. S!Created' = S!Created
    BY <1>2, StoreSteps
       DEF S!Created, Registering, S!Proceed, S!Answer, TypeInv, TypeOK, Placed
  <2>2. CASE UNCHANGED users
    BY <2>1, <2>2, MadeKept
  <2>3. CASE S!Store(r)
    BY <2>1, <2>3, StoringMakes DEF Abstract!Next
  <2> QED BY <1>2, <2>2, <2>3, StoreSteps
<1>3. ASSUME NEW r \in Request, Created(r) PROVE Abstract!Next
  <2>1. /\ UNCHANGED users /\ pc[r] = "invalidate"
        /\ answer' = [answer EXCEPT ![r] = 201]
    BY <1>3, CreatedSteps
  <2>2. S!Created' = S!Created \cup {r} /\ r \notin S!Created
    BY <2>1 DEF S!Created, TypeInv, TypeOK, Placed
  <2>3. made' = made /\ \A q \in Request : S!Own(q)' = S!Own(q)
    BY <2>1, MadeKept
  <2>4. told[r] = {} /\ made[r] = S!Own(r) /\ S!Own(r) # {}
    BY <2>1, <2>2 DEF told, made, Stored, S!Own
  <2>5. told' = [told EXCEPT ![r] = made[r]]
    BY <2>2, <2>3, <2>4 DEF told, S!Own
  <2> QED BY <2>3, <2>4, <2>5 DEF Abstract!Next, Abstract!Tell
<1>4. ASSUME NEW r \in Request, Elsewhere(r) PROVE UNCHANGED <<made, told>>
  <2>1. Aside(r)
    BY <1>4, ElsewhereAside
  <2>2. r \notin S!Created
    BY <2>1 DEF Aside, S!Created, Registering, TypeInv, Placed
  <2>3. S!Created' = S!Created
    BY <2>1, <2>2 DEF Aside, S!Created
  <2> QED BY <2>1, <2>3, MadeKept DEF Aside
<1> QED BY <1>1, <1>2, <1>3, <1>4, NextCases

\* With the limiter before it and without events behind it a registration keeps what
\* module Creation promises: two that race for a login or an e-mail never both get
\* it, each is stored once, and a 201 comes after its user.
THEOREM Implementation == Spec => KeepsPromise
<1>1. Init => Abstract!Init
  BY DEF Init, S!Init, Abstract!Init, told, S!Created
<1> QED BY <1>1, TypeInit, TypeNext, StoredInit, StoredNext, StepsKeepPromise,
           PTL DEF Spec, KeepsPromise
=============================================================================
