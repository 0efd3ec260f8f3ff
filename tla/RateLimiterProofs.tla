------------------------- MODULE RateLimiterProofs -------------------------
(* What holds of RateLimiter for every configuration: types, the bound on  *)
(* the admitted checks of a key, the transparency of the sweep, and what a *)
(* refused client may rely on: its burst, a retry after one token's time,  *)
(* and resets that never recede.                                           *)
EXTENDS RateLimiter, TLAPS

---------------------------------------------------------------------------
\* Arithmetic.

\* The quotient and the remainder of a division of naturals.
LEMMA DivBounds ==
  ASSUME NEW a \in Nat, NEW d \in Nat, d > 0
  PROVE  /\ a \div d \in Nat
         /\ (a \div d) * d <= a
         /\ a < (a \div d) * d + d
OBVIOUS

\* Multiplying by a natural keeps an order.
LEMMA MulMono ==
  ASSUME NEW a \in Int, NEW b \in Int, NEW c \in Nat, a <= b
  PROVE  a * c <= b * c
OBVIOUS

\* Order is transitive, whatever the terms look like.
LEMMA LeqTrans ==
  ASSUME NEW a \in Int, NEW b \in Int, NEW c \in Int, a <= b, b <= c
  PROVE  a <= c
OBVIOUS

\* Three factors may be taken in either order.
LEMMA MulSwap ==
  ASSUME NEW a \in Int, NEW b \in Int, NEW c \in Int
  PROVE  (a * b) * c = (a * c) * b /\ a * b = b * a
         /\ a * (b * c) = (a * b) * c
OBVIOUS

---------------------------------------------------------------------------
\* The bucket's arithmetic.

\* A bucket as its key's history leaves it: never above its capacity, never
\* refilled in the future.
Sound(e, b) == /\ b \in Bucket
               /\ b.tokens <= Burst[e]
               /\ b.last <= now

\* What Refill earns is paid for by the time it accounts for, and leaves less
\* than a second unaccounted.
LEMMA RefillCredit ==
  ASSUME NEW e \in Endpoint, NEW b, Sound(e, b), now \in Nat
  PROVE  /\ Sound(e, Refill(e, b))
         /\ now - Refill(e, b).last < TicksPerSecond
         /\ b.last <= Refill(e, b).last
         /\ b.tokens <= Refill(e, b).tokens
         /\ (Refill(e, b).tokens - b.tokens) * WindowTicks
              <= Limit[e] * (Refill(e, b).last - b.last)
<1> DEFINE s == Elapsed(b)
           gain == (s * Limit[e]) \div Window
           dt == now - b.last
<1>1. /\ Limit[e] \in Nat /\ Burst[e] \in Nat
      /\ Window \in Nat /\ Window > 0
      /\ TicksPerSecond \in Nat /\ TicksPerSecond > 0
      /\ WindowTicks \in Nat
  BY ConfigAssumption DEF WindowTicks
<1>2. b.tokens \in Nat /\ b.last \in Nat /\ dt \in Nat
  BY DEF Sound, Bucket
<1>3. s \in Nat /\ s * TicksPerSecond <= dt /\ dt < s * TicksPerSecond + TicksPerSecond
  <2> HIDE DEF dt
  <2>1. s = dt \div TicksPerSecond
    BY DEF Elapsed, dt
  <2>2. QED BY <1>1, <1>2, <2>1, DivBounds
<1>4. CASE s = 0
  <2>1. Refill(e, b) = b
    BY <1>4 DEF Refill
  <2>2. dt < TicksPerSecond
    BY <1>1, <1>2, <1>3, <1>4
  <2>3. QED BY <1>1, <1>2, <2>1, <2>2 DEF Sound
<1>5. CASE s > 0
  <2> DEFINE r == Refill(e, b)
  <2>1. r = [tokens |-> Lesser(Burst[e], b.tokens + gain), last |-> now]
    BY <1>5 DEF Refill
  <2>2. s * Limit[e] \in Nat
    BY <1>1, <1>3
  <2>3. gain \in Nat /\ gain * Window <= s * Limit[e]
    BY <1>1, <2>2, DivBounds
  <2>4. gain * WindowTicks <= Limit[e] * dt
    <3> HIDE DEF gain, s, dt
    <3>1. (gain * Window) * TicksPerSecond <= (s * Limit[e]) * TicksPerSecond
      BY <1>1, <2>2, <2>3, MulMono
    <3>2. (s * Limit[e]) * TicksPerSecond = (s * TicksPerSecond) * Limit[e]
      BY <1>1, <1>3, MulSwap
    <3>3. (s * TicksPerSecond) * Limit[e] <= dt * Limit[e]
      BY <1>1, <1>2, <1>3, MulMono
    <3>4. (gain * Window) * TicksPerSecond = gain * WindowTicks
      BY <1>1, <2>3, MulSwap DEF WindowTicks
    <3>5. dt * Limit[e] = Limit[e] * dt
      BY <1>1, <1>2, MulSwap
    <3>6. gain * WindowTicks \in Int /\ dt * Limit[e] \in Int
      BY <1>1, <1>2, <2>3
    <3>7. gain * WindowTicks <= (s * TicksPerSecond) * Limit[e]
      BY <3>1, <3>2, <3>4
    <3>8. (s * TicksPerSecond) * Limit[e] <= Limit[e] * dt
      BY <3>3, <3>5
    <3>9. (s * TicksPerSecond) * Limit[e] \in Int /\ Limit[e] * dt \in Int
      BY <1>1, <1>2, <1>3
    <3>10. QED BY <3>6, <3>7, <3>8, <3>9, LeqTrans
  <2> HIDE DEF gain, s
  <2>5. /\ r.tokens \in Nat /\ r.tokens <= Burst[e]
        /\ b.tokens <= r.tokens /\ r.tokens - b.tokens <= gain
        /\ r.last = now /\ r \in Bucket
    BY <1>1, <1>2, <2>1, <2>3 DEF Lesser, Bucket, Sound
  <2>6. (r.tokens - b.tokens) * WindowTicks <= gain * WindowTicks
    BY <1>1, <1>2, <2>3, <2>5, MulMono
  <2>7. (r.tokens - b.tokens) * WindowTicks <= Limit[e] * (r.last - b.last)
    <3> HIDE DEF r
    <3>1. Limit[e] * dt \in Int /\ gain * WindowTicks \in Int
          /\ (r.tokens - b.tokens) * WindowTicks \in Int
      BY <1>1, <1>2, <2>3, <2>5
    <3>2. dt = r.last - b.last
      BY <2>5
    <3>3. QED BY <2>4, <2>6, <3>1, <3>2
  <2>8. QED BY <1>1, <1>2, <2>5, <2>7 DEF Sound
<1>6. QED BY <1>3, <1>4, <1>5
---------------------------------------------------------------------------
\* The accounts of a key.  n counts admissions, t and r tokens, w is the
\* window, p the capacity, q the limit; l and m are refill instants, a an
\* admission, d the second of slack.

\* A refill keeps the account balanced.
LEMMA RefillBalances ==
  ASSUME NEW n \in Nat, NEW t \in Nat, NEW r \in Nat, NEW w \in Nat,
         NEW p \in Nat, NEW q \in Nat, NEW d \in Nat,
         NEW l \in Int, NEW m \in Int, NEW a \in Int,
         (n + t) * w <= p * w + q * (l - a + d),
         (r - t) * w <= q * (m - l)
  PROVE  (n + r) * w <= p * w + q * (m - a + d)
<1>1. (n + r) * w = (n + t) * w + (r - t) * w
  OBVIOUS
<1>2. q * (m - a + d) = q * (l - a + d) + q * (m - l)
  OBVIOUS
<1>3. /\ (n + t) * w \in Int /\ (r - t) * w \in Int /\ p * w \in Int
      /\ q * (l - a + d) \in Int /\ q * (m - l) \in Int
  OBVIOUS
<1>4. QED BY <1>1, <1>2, <1>3

\* Half of two windows' worth of tokens fills a bucket: the sweep balances.
LEMMA SweepBalances ==
  ASSUME NEW n \in Nat, NEW t \in Nat, NEW w \in Nat,
         NEW p \in Nat, NEW q \in Nat, NEW d \in Nat,
         NEW l \in Int, NEW m \in Int, NEW a \in Int,
         (n + t) * w <= p * w + q * (l - a + d),
         m - l > 2 * w, p <= 2 * q
  PROVE  n * w <= q * (m - a + d)
<1>1. n * w + t * w = (n + t) * w /\ t * w \in Nat
  OBVIOUS
<1>2. q * (m - a + d) = q * (l - a + d) + q * (m - l)
  OBVIOUS
<1>3. p * w <= (2 * q) * w
  BY MulMono
<1>4. (2 * w) * q <= (m - l) * q
  BY MulMono
<1>5. (2 * q) * w = (2 * w) * q /\ (m - l) * q = q * (m - l)
  OBVIOUS
<1>6. /\ n * w \in Int /\ (n + t) * w \in Int /\ p * w \in Int
      /\ (2 * w) * q \in Int /\ q * (l - a + d) \in Int /\ q * (m - l) \in Int
  OBVIOUS
<1>7. QED BY <1>1, <1>2, <1>3, <1>4, <1>5, <1>6
---------------------------------------------------------------------------
\* Types.

LEMMA TypeInit == Init => TypeOK
BY ConfigAssumption DEF Init, TypeOK, NoReply, Idle

LEMMA ConfigTypes ==
  /\ \A e \in Endpoint : Limit[e] \in Nat /\ Burst[e] \in Nat /\ Burst[e] > 0
  /\ Window \in Nat /\ Window > 0
  /\ TicksPerSecond \in Nat /\ TicksPerSecond > 0
  /\ WindowTicks \in Nat
  /\ MaxTime \in Nat
  /\ \A e \in Endpoint : Burst[e] <= 2 * Limit[e]
  /\ \A c \in Client, e \in Endpoint : KeyOf(c, e) \in Key /\ KeyOf(c, e)[1] = e
BY ConfigAssumption, SweepAssumption DEF WindowTicks, KeyOf, Key

---------------------------------------------------------------------------
\* The inductive invariant: sound buckets, admissions in the past, and the
\* account of every admission of every key.

Buckets == \A k \in Key : buckets[k] # NoBucket => Sound(k[1], buckets[k])

Past == \A k \in Key : \A i \in 1..Len(admitted[k]) : admitted[k][i] <= now

\* From admission i on, the checks admitted and the tokens left are covered by
\* one burst and the time the bucket has accounted for.
Balanced(k) ==
  \A i \in 1..Len(admitted[k]) :
    LET n == Len(admitted[k]) - i + 1
        a == admitted[k][i]
    IN IF buckets[k] = NoBucket
         THEN n * WindowTicks <= Limit[k[1]] * (now - a + TicksPerSecond)
         ELSE (n + buckets[k].tokens) * WindowTicks
                <= Burst[k[1]] * WindowTicks
                     + Limit[k[1]] * (buckets[k].last - a + TicksPerSecond)

Accounts == \A k \in Key : Balanced(k)

IInv == TypeOK /\ Buckets /\ Past /\ Accounts

\* What a check finds in the bucket it has readied, whether it had to create
\* it or not.
LEMMA ReadyCredit ==
  ASSUME IInv, NEW k \in Key
  PROVE  /\ Sound(k[1], Ready(k))
         /\ now - Ready(k).last < TicksPerSecond
         /\ \A i \in 1..Len(admitted[k]) :
              (Len(admitted[k]) - i + 1 + Ready(k).tokens) * WindowTicks
                <= Burst[k[1]] * WindowTicks
                     + Limit[k[1]] * (Ready(k).last - admitted[k][i] + TicksPerSecond)
<1> DEFINE e == k[1]
<1>1. e \in Endpoint
  BY DEF Key
<1>2. now \in Nat /\ Len(admitted[k]) \in Nat
      /\ \A i \in 1..Len(admitted[k]) : admitted[k][i] \in Nat
  BY ConfigTypes DEF IInv, TypeOK
<1> HIDE DEF e
<1>3. CASE buckets[k] = NoBucket
  <2> DEFINE b == NewBucket(e)
  <2>1. b = [tokens |-> Burst[e], last |-> now] /\ Sound(e, b)
    BY <1>1, <1>2, ConfigTypes DEF NewBucket, Sound, Bucket
  <2>2. Ready(k) = Refill(e, b)
    BY <1>3 DEF Ready, e
  <2>3. Elapsed(b) = 0
    <3>1. now - b.last = 0
      BY <1>2, <2>1
    <3>2. QED BY <3>1, ConfigTypes, DivBounds DEF Elapsed
  <2>4. Ready(k) = b
    BY <2>2, <2>3 DEF Refill
  <2>5. ASSUME NEW i \in 1..Len(admitted[k])
        PROVE  (Len(admitted[k]) - i + 1 + b.tokens) * WindowTicks
                 <= Burst[e] * WindowTicks
                      + Limit[e] * (b.last - admitted[k][i] + TicksPerSecond)
    <3> DEFINE n == Len(admitted[k]) - i + 1
    <3>1. n \in Nat /\ admitted[k][i] \in Nat
      BY <1>2
    <3>2. n * WindowTicks <= Limit[e] * (now - admitted[k][i] + TicksPerSecond)
      BY <1>3 DEF IInv, Accounts, Balanced, e
    <3>3. (n + Burst[e]) * WindowTicks = n * WindowTicks + Burst[e] * WindowTicks
      <4> HIDE DEF n
      <4>1. QED BY <1>1, <3>1, ConfigTypes
    <3>4. /\ n * WindowTicks \in Int /\ Burst[e] * WindowTicks \in Int
          /\ Limit[e] * (now - admitted[k][i] + TicksPerSecond) \in Int
      <4> HIDE DEF n
      <4>1. QED BY <1>1, <1>2, <3>1, ConfigTypes
    <3> HIDE DEF n
    <3>5. (n + Burst[e]) * WindowTicks
            <= Burst[e] * WindowTicks
                 + Limit[e] * (now - admitted[k][i] + TicksPerSecond)
      BY <3>2, <3>3, <3>4
    <3>6. QED BY <2>1, <3>5 DEF n
  <2>6. QED BY <1>2, <2>1, <2>4, <2>5, ConfigTypes DEF e
<1>4. CASE buckets[k] # NoBucket
  <2> DEFINE b == buckets[k]
             r == Refill(e, b)
  <2>1. Sound(e, b)
    BY <1>4 DEF IInv, Buckets, e
  <2>2. Ready(k) = r
    BY <1>4 DEF Ready, e
  <2>3. /\ Sound(e, r)
        /\ now - r.last < TicksPerSecond
        /\ (r.tokens - b.tokens) * WindowTicks <= Limit[e] * (r.last - b.last)
    BY <1>1, <1>2, <2>1, RefillCredit
  <2> HIDE DEF r
  <2>4. /\ b.tokens \in Nat /\ b.last \in Nat /\ r.tokens \in Nat /\ r.last \in Nat
    BY <2>1, <2>3 DEF Sound, Bucket
  <2>5. ASSUME NEW i \in 1..Len(admitted[k])
        PROVE  (Len(admitted[k]) - i + 1 + r.tokens) * WindowTicks
                 <= Burst[e] * WindowTicks
                      + Limit[e] * (r.last - admitted[k][i] + TicksPerSecond)
    <3> DEFINE n == Len(admitted[k]) - i + 1
    <3>1. n \in Nat /\ admitted[k][i] \in Nat
      BY <1>2
    <3>2. (n + b.tokens) * WindowTicks
            <= Burst[e] * WindowTicks
                 + Limit[e] * (b.last - admitted[k][i] + TicksPerSecond)
      BY <1>4 DEF IInv, Accounts, Balanced, e
    <3> HIDE DEF n, b
    <3>3. (n + r.tokens) * WindowTicks
            <= Burst[e] * WindowTicks
                 + Limit[e] * (r.last - admitted[k][i] + TicksPerSecond)
      <4> DEFINE a == admitted[k][i]
                 p == Burst[e]
                 q == Limit[e]
                 d == TicksPerSecond
                 w == WindowTicks
      <4>1. /\ n \in Nat /\ a \in Int /\ p \in Nat /\ q \in Nat
            /\ d \in Nat /\ w \in Nat
            /\ b.last \in Int /\ r.last \in Int
            /\ b.tokens \in Nat /\ r.tokens \in Nat
        BY <1>1, <2>4, <3>1, ConfigTypes DEF b
      <4>2. /\ (n + b.tokens) * w <= p * w + q * (b.last - a + d)
            /\ (r.tokens - b.tokens) * w <= q * (r.last - b.last)
        BY <2>3, <3>2 DEF b
      <4> HIDE DEF a, p, q, d, w
      <4>3. (n + r.tokens) * w <= p * w + q * (r.last - a + d)
        BY <4>1, <4>2, RefillBalances
      <4>4. QED BY <4>3 DEF a, p, q, d, w
    <3>4. QED BY <3>3 DEF n
  <2>6. QED BY <2>2, <2>3, <2>5 DEF e
<1>5. QED BY <1>3, <1>4
LEMMA IInvInit == Init => IInv
<1> SUFFICES ASSUME Init PROVE IInv
  OBVIOUS
<1>1. TypeOK
  BY TypeInit
<1>2. \A k \in Key : buckets[k] = NoBucket /\ admitted[k] = <<>>
  BY DEF Init
<1>3. QED BY <1>1, <1>2 DEF IInv, Buckets, Past, Accounts, Balanced

\* Nothing but the clock moves: absent buckets gain slack, the rest keep it.
LEMMA TickKeeps == IInv /\ Tick => IInv'
<1> SUFFICES ASSUME IInv, Tick PROVE IInv'
  OBVIOUS
<1>1. /\ now \in Nat /\ now' = now + 1 /\ now' \in 0..MaxTime
      /\ buckets' = buckets /\ admitted' = admitted
  BY ConfigTypes DEF Tick, IInv, TypeOK
<1>2. TypeOK'
  BY <1>1 DEF Tick, IInv, TypeOK
<1>3. Buckets'
  BY <1>1 DEF Buckets, IInv, Sound, Bucket
<1>4. Past'
  BY <1>1 DEF Past, IInv, TypeOK
<1>5. ASSUME NEW k \in Key, NEW i \in 1..Len(admitted[k]), buckets[k] = NoBucket
      PROVE  (Len(admitted[k]) - i + 1) * WindowTicks
               <= Limit[k[1]] * (now' - admitted[k][i] + TicksPerSecond)
  <2> DEFINE left == (Len(admitted[k]) - i + 1) * WindowTicks
             x == now - admitted[k][i] + TicksPerSecond
             y == now' - admitted[k][i] + TicksPerSecond
             q == Limit[k[1]]
  <2>1. left <= q * x
    BY <1>5 DEF IInv, Accounts, Balanced
  <2>2. /\ x \in Int /\ y \in Int /\ x <= y /\ q \in Nat /\ left \in Int
    BY <1>1, ConfigTypes DEF IInv, TypeOK, Key
  <2> HIDE DEF left, x, y, q
  <2>3. q * x <= q * y
    BY <2>2, MulMono, MulSwap
  <2>4. q * x \in Int /\ q * y \in Int
    BY <2>2
  <2>5. left <= q * y
    BY <2>1, <2>2, <2>3, <2>4, LeqTrans
  <2>6. QED BY <2>5 DEF left, y, q
<1>6. Accounts'
  BY <1>1, <1>5 DEF Accounts, Balanced, IInv
<1>7. QED BY <1>2, <1>3, <1>4, <1>6 DEF IInv

\* A refused check only keeps the refill.
LEMMA RefuseKeeps ==
  ASSUME IInv, NEW c \in Client, NEW e \in Endpoint, Refuse(c, e)
  PROVE  IInv'
<1> DEFINE k == KeyOf(c, e)
           r == Ready(k)
<1>1. k \in Key /\ k[1] = e
  BY ConfigTypes
<1> HIDE DEF k
<1>2. /\ Sound(e, r)
      /\ \A i \in 1..Len(admitted[k]) :
           (Len(admitted[k]) - i + 1 + r.tokens) * WindowTicks
             <= Burst[e] * WindowTicks
                  + Limit[e] * (r.last - admitted[k][i] + TicksPerSecond)
  BY <1>1, ReadyCredit
<1> HIDE DEF r
<1>3. /\ buckets' = [buckets EXCEPT ![k] = r]
      /\ now' = now /\ admitted' = admitted /\ reply' = reply
      /\ request' = [request EXCEPT ![c] = e]
      /\ refusal' = [refusal EXCEPT ![k] =
                   [first |-> IF @ = NoRefusal THEN now ELSE @.first,
                    latest |-> now]]
  BY DEF Refuse, k, r
<1>4. r \in Bucket /\ r # NoBucket
  BY <1>2 DEF Sound, Bucket, NoBucket
<1>5. TypeOK'
  <2>1. buckets' \in [Key -> Bucket \cup {NoBucket}]
    BY <1>1, <1>3, <1>4 DEF IInv, TypeOK
  <2>2. refusal' \in [Key -> [first : Nat, latest : Nat] \cup {NoRefusal}]
    BY <1>1, <1>3, ConfigTypes DEF IInv, TypeOK
  <2>3. QED BY <1>3, <2>1, <2>2 DEF IInv, TypeOK
<1>6. Buckets'
  BY <1>1, <1>2, <1>3 DEF Buckets, IInv, TypeOK, Sound
<1>7. Past'
  BY <1>3 DEF Past, IInv
<1>8. Accounts'
  <2> SUFFICES ASSUME NEW j \in Key PROVE Balanced(j)'
    BY DEF Accounts
  <2>1. CASE j = k
    BY <1>1, <1>2, <1>3, <1>4, <2>1 DEF Balanced, IInv, TypeOK
  <2>2. CASE j # k
    BY <1>3, <2>2 DEF Balanced, Accounts, IInv, TypeOK
  <2>3. QED BY <2>1, <2>2
<1>9. QED BY <1>5, <1>6, <1>7, <1>8 DEF IInv
\* An admitted check spends the token it adds to every account, and opens an
\* account of its own that one burst covers.
LEMMA AdmitKeeps ==
  ASSUME IInv, NEW c \in Client, NEW e \in Endpoint, Admit(c, e)
  PROVE  IInv'
<1> DEFINE k == KeyOf(c, e)
           r == Ready(k)
           log == admitted[k]
<1>1. k \in Key /\ k[1] = e
  BY ConfigTypes
<1> HIDE DEF k
<1>2. /\ Sound(e, r)
      /\ now - r.last < TicksPerSecond
      /\ \A i \in 1..Len(log) :
           (Len(log) - i + 1 + r.tokens) * WindowTicks
             <= Burst[e] * WindowTicks
                  + Limit[e] * (r.last - log[i] + TicksPerSecond)
  BY <1>1, ReadyCredit
<1> HIDE DEF r
<1> DEFINE rest == [tokens |-> r.tokens - 1, last |-> r.last]
<1>3. /\ buckets' = [buckets EXCEPT ![k] = rest]
      /\ now' = now /\ request' = request
      /\ admitted' = [admitted EXCEPT ![k] = Append(log, now)]
      /\ reply' = [reply EXCEPT ![c] =
                     [NoReply EXCEPT !.status = 200, !.endpoint = e]]
      /\ refusal' = [refusal EXCEPT ![k] = NoRefusal]
      /\ r.tokens >= 1
  BY DEF Admit, k, r
<1>4. /\ rest \in Bucket /\ rest # NoBucket
      /\ rest.tokens = r.tokens - 1 /\ rest.last = r.last
      /\ r.last \in Nat /\ r.last <= now /\ r.tokens \in Nat
      /\ r.tokens <= Burst[e] /\ rest.tokens <= Burst[e]
  BY <1>2, <1>3, ConfigTypes DEF Sound, Bucket, NoBucket
<1> HIDE DEF rest
<1>5. now \in Nat /\ log \in Seq(Nat) /\ Len(log) \in Nat
      /\ Append(log, now) \in Seq(Nat)
      /\ Len(Append(log, now)) = Len(log) + 1
      /\ Append(log, now)[Len(log) + 1] = now
      /\ \A i \in 1..Len(log) : Append(log, now)[i] = log[i]
  BY <1>1, ConfigTypes DEF IInv, TypeOK
<1>6. TypeOK'
  <2>1. buckets' \in [Key -> Bucket \cup {NoBucket}]
    BY <1>1, <1>3, <1>4 DEF IInv, TypeOK
  <2>2. admitted' \in [Key -> Seq(Nat)]
    BY <1>1, <1>3, <1>5 DEF IInv, TypeOK
  <2>3. reply' \in [Client -> [status : {0, 200, 429},
                               endpoint : Endpoint \cup {Idle},
                               remaining : Nat, reset : Nat]]
    BY <1>3 DEF IInv, TypeOK, NoReply
  <2>4. refusal' \in [Key -> [first : Nat, latest : Nat] \cup {NoRefusal}]
    BY <1>1, <1>3 DEF IInv, TypeOK
  <2>5. QED BY <1>3, <2>1, <2>2, <2>3, <2>4 DEF IInv, TypeOK
<1>7. Buckets'
  BY <1>1, <1>3, <1>4 DEF Buckets, IInv, TypeOK, Sound
<1> HIDE DEF log
<1>8. admitted'[k] = Append(log, now) /\ buckets'[k] = rest
  BY <1>1, <1>3 DEF IInv, TypeOK
<1>9. ASSUME NEW i \in 1..Len(log) + 1
      PROVE  (Len(log) + 1 - i + 1 + rest.tokens) * WindowTicks
               <= Burst[e] * WindowTicks
                    + Limit[e] * (rest.last - Append(log, now)[i] + TicksPerSecond)
  <2>1. CASE i \in 1..Len(log)
    <3>0. Len(log) \in Int /\ i \in Int /\ r.tokens \in Int
      BY <1>4, <1>5
    <3>1. Len(log) + 1 - i + 1 + rest.tokens = Len(log) - i + 1 + r.tokens
      BY <1>4, <3>0
    <3>2. rest.last - Append(log, now)[i] + TicksPerSecond
            = r.last - log[i] + TicksPerSecond
      BY <1>4, <1>5, <2>1
    <3>3. (Len(log) - i + 1 + r.tokens) * WindowTicks
            <= Burst[e] * WindowTicks
                 + Limit[e] * (r.last - log[i] + TicksPerSecond)
      BY <1>2, <2>1
    <3>4. QED BY <3>1, <3>2, <3>3
  <2>2. CASE i = Len(log) + 1
    <3>1. Len(log) + 1 - i + 1 + rest.tokens = r.tokens
      BY <1>4, <1>5, <2>2
    <3>2. r.tokens * WindowTicks <= Burst[e] * WindowTicks
      BY <1>4, ConfigTypes, MulMono
    <3>3. rest.last - now + TicksPerSecond \in Nat
      BY <1>2, <1>4, <1>5, ConfigTypes
    <3>4. Limit[e] * (rest.last - now + TicksPerSecond) \in Nat
      BY <3>3, ConfigTypes
    <3>5. r.tokens * WindowTicks \in Int /\ Burst[e] * WindowTicks \in Int
      BY <1>4, ConfigTypes
    <3>6. r.tokens * WindowTicks
            <= Burst[e] * WindowTicks
                 + Limit[e] * (rest.last - now + TicksPerSecond)
      BY <3>2, <3>4, <3>5
    <3>7. QED BY <1>5, <2>2, <3>1, <3>6
  <2>3. QED BY <1>5, <2>1, <2>2
<1>10. Past'
  <2> SUFFICES ASSUME NEW j \in Key, NEW i \in 1..Len(admitted'[j])
               PROVE  admitted'[j][i] <= now
    BY <1>3 DEF Past
  <2>1. CASE j = k
    <3>1. \A h \in 1..Len(log) : log[h] <= now
      BY <1>1 DEF Past, IInv, log
    <3>2. admitted'[j] = Append(log, now) /\ now \in Int
      BY <1>8, <2>1 DEF IInv, TypeOK
    <3>3. CASE i \in 1..Len(log)
      BY <1>5, <3>1, <3>2, <3>3
    <3>4. CASE i = Len(log) + 1
      BY <1>5, <3>2, <3>4
    <3>5. Len(admitted'[j]) = Len(log) + 1
      BY <1>5, <3>2
    <3> QED BY <1>5, <3>3, <3>4, <3>5
  <2>2. CASE j # k
    BY <1>3, <2>2 DEF Past, IInv, TypeOK
  <2>3. QED BY <2>1, <2>2
<1>11. Accounts'
  <2> SUFFICES ASSUME NEW j \in Key PROVE Balanced(j)'
    BY DEF Accounts
  <2>1. CASE j = k
    <3>1. admitted'[j] = Append(log, now) /\ buckets'[j] = rest /\ j[1] = e
      BY <1>1, <1>8, <2>1
    <3>2. Len(admitted'[j]) = Len(log) + 1 /\ buckets'[j] # NoBucket
      BY <1>4, <1>5, <3>1
    <3>3. SUFFICES
            ASSUME NEW i \in 1..Len(admitted'[j])
            PROVE  (Len(admitted'[j]) - i + 1 + buckets'[j].tokens) * WindowTicks
                     <= Burst[j[1]] * WindowTicks
                          + Limit[j[1]]
                              * (buckets'[j].last - admitted'[j][i] + TicksPerSecond)
      BY <3>2 DEF Balanced, WindowTicks
    <3>4. QED BY <1>9, <3>1, <3>2
  <2>2. CASE j # k
    BY <1>3, <2>2 DEF Balanced, Accounts, IInv, TypeOK
  <2>3. QED BY <2>1, <2>2
<1>12. QED BY <1>6, <1>7, <1>10, <1>11 DEF IInv

\* Answering a refused request reads the bucket and changes none.
LEMMA InformKeeps ==
  ASSUME IInv, NEW c \in Client, Inform(c)
  PROVE  IInv'
<1> DEFINE e == request[c]
           b == buckets[KeyOf(c, e)]
<1>1. e \in Endpoint /\ KeyOf(c, e) \in Key
  BY ConfigTypes DEF Inform, IInv, TypeOK
<1>2. b \in Bucket \cup {NoBucket}
  BY <1>1 DEF IInv, TypeOK
<1>3. now \in Nat /\ WindowTicks \in Nat /\ Limit[e] \in Nat
  BY <1>1, ConfigTypes DEF IInv, TypeOK
<1>4. /\ now' = now /\ buckets' = buckets /\ admitted' = admitted
      /\ refusal' = refusal /\ request' = [request EXCEPT ![c] = Idle]
  BY DEF Inform
<1>5. reply' \in [Client -> [status : {0, 200, 429},
                             endpoint : Endpoint \cup {Idle},
                             remaining : Nat, reset : Nat]]
  <2> DEFINE answer ==
        IF b = NoBucket
          THEN [status |-> 429, endpoint |-> e, remaining |-> Limit[e],
                reset |-> now + Window * TicksPerSecond]
          ELSE [status |-> 429, endpoint |-> e, remaining |-> b.tokens,
                reset |-> b.last + Window * TicksPerSecond]
  <2>1. reply' = [reply EXCEPT ![c] = answer]
    BY DEF Inform
  <2>2. answer \in [status : {0, 200, 429}, endpoint : Endpoint \cup {Idle},
                    remaining : Nat, reset : Nat]
    BY <1>1, <1>2, <1>3 DEF Bucket, WindowTicks
  <2> HIDE DEF answer
  <2>3. QED BY <2>1, <2>2 DEF IInv, TypeOK
<1>6. TypeOK'
  BY <1>4, <1>5 DEF IInv, TypeOK
<1>7. QED BY <1>4, <1>6 DEF IInv, Buckets, Past, Accounts, Balanced, Sound
\* Forgetting a bucket that two windows have refilled leaves every account of
\* its key covered by time alone.
LEMMA CleanupKeeps == IInv /\ Cleanup => IInv'
<1> SUFFICES ASSUME IInv, Cleanup PROVE IInv'
  OBVIOUS
<1>1. /\ now' = now /\ request' = request /\ reply' = reply
      /\ admitted' = admitted /\ refusal' = refusal
      /\ buckets' = [k \in Key |-> IF Stale(buckets[k]) THEN NoBucket
                                                        ELSE buckets[k]]
  BY DEF Cleanup
<1>2. TypeOK'
  BY <1>1 DEF IInv, TypeOK
<1>3. Buckets'
  BY <1>1 DEF Buckets, IInv, Sound
<1>4. ASSUME NEW k \in Key, Stale(buckets[k])
      PROVE  Balanced(k)'
  <2> DEFINE b == buckets[k]
  <2>1. /\ b # NoBucket /\ b.tokens \in Nat /\ b.last \in Nat
        /\ now - b.last > 2 * WindowTicks
    <3>1. b # NoBucket /\ now - b.last > 2 * Window * TicksPerSecond
      BY <1>4 DEF Stale
    <3>2. 2 * Window * TicksPerSecond = 2 * WindowTicks
      BY ConfigTypes, MulSwap DEF WindowTicks
    <3>3. QED BY <3>1, <3>2 DEF IInv, Buckets, Sound, Bucket
  <2>2. buckets'[k] = NoBucket
    BY <1>1, <1>4
  <2>3. SUFFICES ASSUME NEW i \in 1..Len(admitted[k])
                 PROVE  (Len(admitted[k]) - i + 1) * WindowTicks
                          <= Limit[k[1]] * (now - admitted[k][i] + TicksPerSecond)
    BY <1>1, <2>2 DEF Balanced
  <2> DEFINE n == Len(admitted[k]) - i + 1
             a == admitted[k][i]
             p == Burst[k[1]]
             q == Limit[k[1]]
             w == WindowTicks
             d == TicksPerSecond
             t == b.tokens
             l == b.last
  <2>4. (n + t) * w <= p * w + q * (l - a + d)
    BY <2>1 DEF IInv, Accounts, Balanced
  <2>5. /\ n \in Nat /\ t \in Nat /\ w \in Nat /\ p \in Nat /\ q \in Nat
        /\ d \in Nat /\ l \in Int /\ now \in Int /\ a \in Int
        /\ now - l > 2 * w /\ p <= 2 * q
    BY <2>1, ConfigTypes DEF IInv, TypeOK, Key
  <2> HIDE DEF n, a, p, q, w, d, t, l
  <2>6. n * w <= q * (now - a + d)
    BY <2>4, <2>5, SweepBalances
  <2>7. QED BY <2>6 DEF n, a, q, w, d
<1>5. ASSUME NEW k \in Key, ~ Stale(buckets[k])
      PROVE  Balanced(k)'
  <2>1. buckets'[k] = buckets[k]
    BY <1>1, <1>5
  <2>2. QED BY <1>1, <2>1 DEF IInv, Accounts, Balanced, WindowTicks
<1>6. Accounts'
  BY <1>4, <1>5 DEF Accounts
<1>7. Past'
  BY <1>1 DEF Past, IInv
<1>8. QED BY <1>2, <1>3, <1>6, <1>7 DEF IInv

LEMMA StutterKeeps == IInv /\ UNCHANGED vars => IInv'
BY DEF vars, IInv, TypeOK, Buckets, Sound, Past, Accounts, Balanced, WindowTicks

LEMMA Inductive == IInv /\ [Next]_vars => IInv'
<1> SUFFICES ASSUME IInv, [Next]_vars PROVE IInv'
  OBVIOUS
<1>1. ASSUME NEW c \in Client, NEW e \in Endpoint, Admit(c, e) PROVE IInv'
  BY <1>1, AdmitKeeps
<1>2. ASSUME NEW c \in Client, NEW e \in Endpoint, Refuse(c, e) PROVE IInv'
  BY <1>2, RefuseKeeps
<1>3. ASSUME NEW c \in Client, Inform(c) PROVE IInv'
  BY <1>3, InformKeeps
<1>4. CASE Cleanup
  BY <1>4, CleanupKeeps
<1>5. CASE Tick
  BY <1>5, TickKeeps
<1>6. CASE UNCHANGED vars
  BY <1>6, StutterKeeps
<1>7. QED BY <1>1, <1>2, <1>3, <1>4, <1>5, <1>6 DEF Next

LEMMA Invariance == Spec => []IInv
BY IInvInit, Inductive, PTL DEF Spec
---------------------------------------------------------------------------
\* The theorems.

\* Every variable keeps its type: buckets are buckets, admitted checks are
\* instants, answers are well formed.
THEOREM TypeCorrect == Spec => []TypeOK
<1>1. IInv => TypeOK
  BY DEF IInv
<1>2. QED BY <1>1, Invariance, PTL

\* CheckRateLimit enforces its limit: over any stretch that ends now, a key is
\* admitted one burst plus the refill rate times the stretch and a second.
THEOREM RateBounded == Spec => []RateBound
<1>1. ASSUME IInv, NEW k \in Key, NEW i \in 1..Len(admitted[k])
      PROVE  (Len(admitted[k]) - i + 1) * WindowTicks
               <= Burst[k[1]] * WindowTicks
                    + Limit[k[1]] * (now - admitted[k][i] + TicksPerSecond)
  <2> DEFINE n == Len(admitted[k]) - i + 1
             a == admitted[k][i]
             p == Burst[k[1]]
             q == Limit[k[1]]
             w == WindowTicks
             d == TicksPerSecond
             b == buckets[k]
  <2>1. n \in Nat /\ a \in Nat /\ p \in Nat /\ q \in Nat /\ w \in Nat
        /\ d \in Nat /\ now \in Nat /\ b \in Bucket \cup {NoBucket}
    BY <1>1, ConfigTypes DEF IInv, TypeOK, Key
  <2>2. CASE b = NoBucket
    <3>1. n * w <= q * (now - a + d)
      BY <1>1, <2>2 DEF IInv, Accounts, Balanced
    <3> HIDE DEF n, a, p, q, w, d, b
    <3>2. p * w \in Nat /\ n * w \in Int /\ q * (now - a + d) \in Int
      BY <2>1
    <3>3. n * w <= p * w + q * (now - a + d)
      BY <3>1, <3>2
    <3>4. QED BY <3>3 DEF n, a, p, q, w, d
  <2>3. CASE b # NoBucket
    <3>1. (n + b.tokens) * w <= p * w + q * (b.last - a + d)
      BY <1>1, <2>3 DEF IInv, Accounts, Balanced
    <3>2. b.tokens \in Nat /\ b.last \in Nat /\ b.last <= now
      BY <1>1, <2>3 DEF IInv, Buckets, Sound, Bucket
    <3> HIDE DEF n, a, p, q, w, d, b
    <3>3. q * (now - b.last) \in Nat /\ b.tokens * w \in Nat
      BY <2>1, <3>2
    <3>4. q * (now - a + d) = q * (b.last - a + d) + q * (now - b.last)
      BY <2>1, <3>2
    <3>5. (n + b.tokens) * w = n * w + b.tokens * w
      BY <2>1, <3>2
    <3>6. /\ n * w \in Int /\ p * w \in Int
          /\ q * (b.last - a + d) \in Int /\ q * (now - a + d) \in Int
      BY <2>1, <3>2
    <3>7. n * w <= p * w + q * (now - a + d)
      BY <3>1, <3>3, <3>4, <3>5, <3>6
    <3>8. QED BY <3>7 DEF n, a, p, q, w, d
  <2>4. QED BY <2>2, <2>3
<1>2. IInv => RateBound
  BY <1>1 DEF RateBound
<1>3. QED BY <1>2, Invariance, PTL

\* A bucket that the sweep may drop would be found full by the next check.
LEMMA StaleIsFull ==
  ASSUME IInv, NEW k \in Key, Stale(buckets[k])
  PROVE  Ready(k).tokens = Burst[k[1]]
<1> DEFINE e == k[1]
           b == buckets[k]
           s == Elapsed(b)
           gain == (s * Limit[e]) \div Window
<1>1. e \in Endpoint /\ now \in Nat
  BY DEF Key, IInv, TypeOK
<1>2. b # NoBucket /\ b.tokens \in Nat /\ b.last \in Nat
      /\ now - b.last > 2 * Window * TicksPerSecond
  BY DEF Stale, IInv, Buckets, Sound, Bucket
<1> HIDE DEF e
<1>3. s \in Nat /\ s >= 2 * Window
  <2> DEFINE dt == now - b.last
  <2>1. dt \in Nat
    BY <1>1, <1>2 DEF IInv, Buckets, Sound
  <2>2. s = dt \div TicksPerSecond
    BY DEF Elapsed
  <2> HIDE DEF dt, s
  <2>3. s \in Nat /\ dt < s * TicksPerSecond + TicksPerSecond
    BY <2>1, <2>2, ConfigTypes, DivBounds
  <2>4. (2 * Window) * TicksPerSecond < (s + 1) * TicksPerSecond
    <3>1. (s + 1) * TicksPerSecond = s * TicksPerSecond + TicksPerSecond
      BY <2>3, ConfigTypes
    <3>2. (2 * Window) * TicksPerSecond < dt
      BY <1>2 DEF dt
    <3>3. (2 * Window) * TicksPerSecond \in Int /\ s * TicksPerSecond \in Int
      BY <2>3, ConfigTypes
    <3>4. QED BY <2>1, <2>3, <3>1, <3>2, <3>3, ConfigTypes
  <2>5. ASSUME s < 2 * Window PROVE FALSE
    <3>1. (s + 1) * TicksPerSecond <= (2 * Window) * TicksPerSecond
      BY <2>3, <2>5, ConfigTypes, MulMono
    <3>2. QED BY <2>3, <2>4, <3>1, ConfigTypes
  <2>6. QED BY <2>3, <2>5, ConfigTypes
<1> HIDE DEF s
<1>4. gain \in Nat /\ gain >= 2 * Limit[e]
  <2> DEFINE q == Limit[e]
  <2>1. q \in Nat /\ Window \in Nat /\ Window > 0
    BY <1>1, ConfigTypes
  <2> HIDE DEF q
  <2>2. s * q \in Nat
    BY <1>3, <2>1
  <2>3. (s * q) \div Window \in Nat
        /\ s * q < ((s * q) \div Window) * Window + Window
    BY <2>1, <2>2, DivBounds
  <2>4. (2 * Window) * q <= s * q
    BY <1>3, <2>1, MulMono
  <2> DEFINE g == (s * q) \div Window
  <2>5. g \in Nat /\ s * q < (g + 1) * Window
    <3>1. s * q < g * Window + Window
      BY <2>3
    <3>2. g \in Nat
      BY <2>3
    <3> HIDE DEF g
    <3>3. (g + 1) * Window = g * Window + Window
      BY <2>1, <3>2
    <3>4. QED BY <3>1, <3>2, <3>3
  <2> HIDE DEF g
  <2>6. ASSUME g < 2 * q PROVE FALSE
    <3>1. (g + 1) * Window <= (2 * q) * Window
      BY <2>1, <2>5, <2>6, MulMono
    <3>2. (2 * q) * Window = (2 * Window) * q
      BY <2>1
    <3>3. (2 * Window) * q \in Int /\ (g + 1) * Window \in Int
      BY <2>1, <2>5
    <3>4. QED BY <2>2, <2>4, <2>5, <3>1, <3>2, <3>3
  <2>7. g \in Nat /\ g >= 2 * q
    BY <2>1, <2>5, <2>6
  <2>8. QED BY <2>7 DEF g, q
<1> HIDE DEF gain
<1>5. Lesser(Burst[e], b.tokens + gain) = Burst[e]
  BY <1>1, <1>2, <1>4, ConfigTypes DEF Lesser
<1>6. Refill(e, b).tokens = Burst[e]
  <2>1. Elapsed(b) > 0
    BY <1>3, ConfigTypes DEF s
  <2>2. QED BY <1>5, <2>1 DEF Refill, gain, s
<1>7. QED BY <1>2, <1>6 DEF Ready, e
\* Only the sweep takes a bucket away.
LEMMA OnlySweepForgets ==
  ASSUME IInv, Next, NEW k \in Key, buckets[k] # NoBucket, buckets'[k] = NoBucket
  PROVE  Cleanup /\ Stale(buckets[k])
<1>1. ASSUME NEW c \in Client, NEW e \in Endpoint, Admit(c, e) PROVE FALSE
  <2> DEFINE j == KeyOf(c, e)
             r == Ready(j)
  <2>1. j \in Key /\ j[1] = e
    BY ConfigTypes
  <2> HIDE DEF j
  <2>2. r.tokens \in Nat /\ r.last \in Nat
    BY <2>1, ReadyCredit DEF Sound, Bucket
  <2> HIDE DEF r
  <2>3. buckets' = [buckets EXCEPT ![j] = [tokens |-> r.tokens - 1, last |-> r.last]]
    BY <1>1 DEF Admit, j, r
  <2>4. QED BY <2>1, <2>2, <2>3 DEF NoBucket, IInv, TypeOK
<1>2. ASSUME NEW c \in Client, NEW e \in Endpoint, Refuse(c, e) PROVE FALSE
  <2> DEFINE j == KeyOf(c, e)
             r == Ready(j)
  <2>1. j \in Key /\ j[1] = e
    BY ConfigTypes
  <2> HIDE DEF j
  <2>2. r \in Bucket
    BY <2>1, ReadyCredit DEF Sound
  <2> HIDE DEF r
  <2>3. buckets' = [buckets EXCEPT ![j] = r]
    BY <1>2 DEF Refuse, j, r
  <2>4. QED BY <2>1, <2>2, <2>3 DEF NoBucket, Bucket, IInv, TypeOK
<1>3. ASSUME NEW c \in Client, Inform(c) PROVE FALSE
  BY <1>3 DEF Inform
<1>4. ASSUME Tick PROVE FALSE
  BY <1>4 DEF Tick
<1>5. Cleanup
  BY <1>1, <1>2, <1>3, <1>4 DEF Next
<1>6. QED BY <1>5 DEF Cleanup

\* A key without a bucket is checked against a full one.
LEMMA AbsentIsFull ==
  ASSUME NEW k \in Key, buckets[k] = NoBucket, now \in Nat
  PROVE  Ready(k).tokens = Burst[k[1]]
<1> DEFINE b == NewBucket(k[1])
<1>1. now - b.last = 0 /\ b.tokens = Burst[k[1]]
  BY DEF NewBucket
<1>2. Elapsed(b) = 0
  BY <1>1, ConfigTypes, DivBounds DEF Elapsed
<1>3. Ready(k) = b
  BY <1>2 DEF Ready, Refill
<1>4. QED BY <1>1, <1>3

\* Cleanup drops only buckets whose loss no later check can notice.
THEOREM SweepIsTransparent == Spec => SweepTransparent
<1> DEFINE A == (now' = now /\ admitted' = admitted) =>
                  \A k \in Key : (buckets[k] # NoBucket /\ buckets'[k] = NoBucket)
                                   => Ready(k)'.tokens = Ready(k).tokens
<1>1. ASSUME IInv, IInv', [Next]_vars PROVE [A]_vars
  <2>1. CASE UNCHANGED vars
    BY <2>1
  <2>2. CASE Next
    <3> SUFFICES ASSUME now' = now, NEW k \in Key,
                        buckets[k] # NoBucket, buckets'[k] = NoBucket
                 PROVE  Ready(k)'.tokens = Ready(k).tokens
      OBVIOUS
    <3>1. Stale(buckets[k])
      BY <1>1, <2>2, OnlySweepForgets
    <3>2. Ready(k).tokens = Burst[k[1]]
      BY <1>1, <3>1, StaleIsFull
    <3>3. now' \in Nat
      BY <1>1 DEF IInv, TypeOK
    <3>4. Ready(k)'.tokens = Burst[k[1]]
      <4> DEFINE b == NewBucket(k[1])'
      <4>1. now' - b.last = 0 /\ b.tokens = Burst[k[1]]
        BY <3>3 DEF NewBucket
      <4>2. Elapsed(NewBucket(k[1]))' = 0
        BY <4>1, ConfigTypes, DivBounds DEF Elapsed
      <4>3. Ready(k)' = b
        BY <4>2 DEF Ready, Refill
      <4>4. QED BY <4>1, <4>3
    <3>5. QED BY <3>2, <3>4
  <2>3. QED BY <1>1, <2>1, <2>2
<1>2. QED BY <1>1, Invariance, PTL DEF Spec, SweepTransparent

\* What a key has left and what it has been admitted make up its burst.
Charged ==
  /\ \A k \in Key : buckets[k] # NoBucket =>
       buckets[k].tokens + Len(admitted[k]) >= Burst[k[1]]
  /\ BurstHonoured
LEMMA ReadyCharged ==
  ASSUME IInv, Charged, NEW k \in Key
  PROVE  Ready(k).tokens \in Nat /\ Ready(k).tokens + Len(admitted[k]) >= Burst[k[1]]
<1>1. now \in Nat /\ Len(admitted[k]) \in Nat /\ k[1] \in Endpoint
  BY DEF IInv, TypeOK, Key
<1>2. Ready(k).tokens \in Nat
  BY ReadyCredit DEF Sound, Bucket
<1>3. CASE buckets[k] = NoBucket
  BY <1>1, <1>2, <1>3, AbsentIsFull
<1>4. CASE buckets[k] # NoBucket
  <2> DEFINE b == buckets[k]
  <2>1. Sound(k[1], b) /\ b.tokens + Len(admitted[k]) >= Burst[k[1]]
    BY <1>4 DEF IInv, Buckets, Charged
  <2>2. b.tokens <= Refill(k[1], b).tokens /\ Ready(k) = Refill(k[1], b)
    BY <1>1, <1>4, <2>1, RefillCredit DEF Ready
  <2>3. QED BY <1>1, <1>2, <2>1, <2>2, ConfigTypes DEF Sound, Bucket
<1>5. QED BY <1>3, <1>4

LEMMA ChargedKept == IInv /\ Charged /\ [Next]_vars => Charged'
<1> SUFFICES ASSUME IInv, Charged, [Next]_vars PROVE Charged'
  OBVIOUS
<1> USE DEF IInv, TypeOK
<1>1. ASSUME NEW c \in Client, NEW e \in Endpoint, Admit(c, e) PROVE Charged'
  <2> DEFINE k == KeyOf(c, e)
             r == Ready(k)
  <2>1. k \in Key /\ k[1] = e
    BY ConfigTypes
  <2> HIDE DEF k
  <2>2. r.tokens \in Nat /\ r.tokens + Len(admitted[k]) >= Burst[e]
    BY <2>1, ReadyCharged
  <2> HIDE DEF r
  <2>3. /\ buckets' = [buckets EXCEPT ![k] = [tokens |-> r.tokens - 1, last |-> r.last]]
        /\ admitted' = [admitted EXCEPT ![k] = Append(@, now)]
        /\ request' = request /\ now \in Nat
    BY <1>1 DEF Admit, k, r
  <2>4. \A j \in Key : Len(admitted'[j]) >= Len(admitted[j])
    BY <2>1, <2>3
  <2>5. Len(admitted'[k]) = Len(admitted[k]) + 1 /\ buckets'[k].tokens = r.tokens - 1
        /\ Len(admitted[k]) \in Nat
    BY <2>1, <2>3
  <2>6. ASSUME NEW j \in Key, buckets'[j] # NoBucket
        PROVE  buckets'[j].tokens + Len(admitted'[j]) >= Burst[j[1]]
    <3>1. CASE j = k
      BY <2>1, <2>2, <2>5, <3>1, ConfigTypes
    <3>2. CASE j # k
      BY <2>3, <2>6, <3>2 DEF Charged
    <3>3. QED BY <3>1, <3>2
  <2>7. BurstHonoured'
    <3> SUFFICES ASSUME NEW x \in Client, request[x] # Idle
                 PROVE  Len(admitted'[KeyOf(x, request[x])]) >= Burst[request[x]]
      BY <2>3 DEF BurstHonoured, KeyOf
    <3>1. KeyOf(x, request[x]) \in Key /\ request[x] \in Endpoint
      BY ConfigTypes
    <3>2. Len(admitted[KeyOf(x, request[x])]) >= Burst[request[x]]
      BY DEF Charged, BurstHonoured
    <3>3. admitted[KeyOf(x, request[x])] \in Seq(Nat)
          /\ admitted'[KeyOf(x, request[x])] \in Seq(Nat)
      BY <2>1, <2>3, <3>1
    <3>4. QED BY <2>4, <3>1, <3>2, <3>3, ConfigTypes
  <2>8. QED BY <2>6, <2>7 DEF Charged
<1>2. ASSUME NEW c \in Client, NEW e \in Endpoint, Refuse(c, e) PROVE Charged'
  <2> DEFINE k == KeyOf(c, e)
             r == Ready(k)
  <2>1. k \in Key /\ k[1] = e
    BY ConfigTypes
  <2>2. r.tokens = 0 /\ r.tokens + Len(admitted[k]) >= Burst[e]
    BY <1>2, <2>1, ReadyCharged DEF Refuse
  <2>3. /\ buckets' = [buckets EXCEPT ![k] = r]
        /\ admitted' = admitted
        /\ request' = [request EXCEPT ![c] = e]
    BY <1>2 DEF Refuse
  <2> HIDE DEF r
  <2>4. ASSUME NEW j \in Key, buckets'[j] # NoBucket
        PROVE  buckets'[j].tokens + Len(admitted'[j]) >= Burst[j[1]]
    <3> HIDE DEF k
    <3>1. CASE j = k
      BY <2>1, <2>2, <2>3, <3>1
    <3>2. CASE j # k
      BY <2>3, <2>4, <3>2 DEF Charged
    <3>3. QED BY <3>1, <3>2
  <2>5. BurstHonoured'
    <3> SUFFICES ASSUME NEW x \in Client, request'[x] # Idle
                 PROVE  Len(admitted[KeyOf(x, request'[x])]) >= Burst[request'[x]]
      BY <2>3 DEF BurstHonoured, KeyOf
    <3>1. CASE x = c
      <4>1. Len(admitted[k]) \in Nat /\ Len(admitted[k]) >= Burst[e]
        BY <2>1, <2>2, ConfigTypes
      <4>2. QED BY <2>3, <3>1, <4>1
    <3>2. CASE x # c
      BY <2>3, <3>2 DEF Charged, BurstHonoured
    <3>3. QED BY <3>1, <3>2
  <2>6. QED BY <2>4, <2>5 DEF Charged
<1>3. ASSUME NEW c \in Client, Inform(c) PROVE Charged'
  BY <1>3 DEF Inform, Charged, BurstHonoured, KeyOf
<1>4. CASE Cleanup
  BY <1>4 DEF Cleanup, Charged, BurstHonoured, KeyOf
<1>5. CASE Tick
  BY <1>5 DEF Tick, Charged, BurstHonoured, KeyOf
<1>6. CASE UNCHANGED vars
  BY <1>6 DEF vars, Charged, BurstHonoured, KeyOf
<1>7. QED BY <1>1, <1>2, <1>3, <1>4, <1>5, <1>6 DEF Next

\* No refusal before the burst: whoever gets a 429 from CheckRateLimit shares a
\* key that has been admitted Burst times.
THEOREM BurstIsHonoured == Spec => []BurstHonoured
<1>1. Init => Charged
  BY DEF Init, Charged, BurstHonoured
<1>2. Charged => BurstHonoured
  BY DEF Charged
<1>3. QED BY <1>1, <1>2, ChargedKept, Invariance, PTL DEF Spec
---------------------------------------------------------------------------
\* Refusals.

\* Since it was refused last, a key's bucket has not been refilled.
Waited == \A k \in Key :
  refusal[k] # NoRefusal /\ buckets[k] # NoBucket => buckets[k].last <= refusal[k].latest

LEMMA WaitedKept == IInv /\ Waited /\ [Next]_vars => Waited'
<1> SUFFICES ASSUME IInv, Waited, [Next]_vars, NEW j \in Key,
                    refusal'[j] # NoRefusal, buckets'[j] # NoBucket
             PROVE  buckets'[j].last <= refusal'[j].latest
  BY DEF Waited
<1> USE DEF IInv, TypeOK
<1>1. ASSUME NEW c \in Client, NEW e \in Endpoint, Admit(c, e)
      PROVE  buckets'[j].last <= refusal'[j].latest
  <2>1. KeyOf(c, e) \in Key
    BY ConfigTypes
  <2>2. j # KeyOf(c, e)
    BY <1>1, <2>1 DEF Admit
  <2>3. buckets'[j] = buckets[j] /\ refusal'[j] = refusal[j]
    BY <1>1, <2>1, <2>2 DEF Admit
  <2> QED BY <2>3 DEF Waited
<1>2. ASSUME NEW c \in Client, NEW e \in Endpoint, Refuse(c, e)
      PROVE  buckets'[j].last <= refusal'[j].latest
  <2> DEFINE k == KeyOf(c, e)
             r == Ready(k)
  <2>1. k \in Key /\ k[1] = e
    BY ConfigTypes
  <2> HIDE DEF k
  <2>2. r.last <= now
    BY <2>1, ReadyCredit DEF Sound
  <2> HIDE DEF r
  <2>3. /\ buckets' = [buckets EXCEPT ![k] = r]
        /\ refusal' = [refusal EXCEPT ![k] =
                         [first |-> IF @ = NoRefusal THEN now ELSE @.first,
                          latest |-> now]]
    BY <1>2 DEF Refuse, k, r
  <2>4. CASE j = k
    <3>1. buckets'[j] = r /\ refusal'[j].latest = now
      BY <2>1, <2>3, <2>4
    <3> QED BY <2>2, <3>1
  <2>5. CASE j # k
    BY <2>3, <2>5 DEF Waited
  <2> QED BY <2>4, <2>5
<1>3. ASSUME NEW c \in Client, Inform(c) PROVE buckets'[j].last <= refusal'[j].latest
  BY <1>3 DEF Inform, Waited
<1>4. CASE Cleanup
  BY <1>4 DEF Cleanup, Waited
<1>5. CASE Tick
  BY <1>5 DEF Tick, Waited
<1>6. CASE UNCHANGED vars
  BY <1>6 DEF vars, Waited
<1> QED BY <1>1, <1>2, <1>3, <1>4, <1>5, <1>6 DEF Next

\* One token's time is time for a whole window's worth of the limit.
LEMMA OneTokenPays ==
  ASSUME NEW e \in Endpoint
  PROVE  OneToken(e) \in Nat /\ OneToken(e) > 0 /\ Window <= OneToken(e) * Limit[e]
<1> DEFINE q == Limit[e]
           a == Window + q - 1
           n == OneToken(e)
<1>1. q \in Nat /\ q > 0 /\ Window \in Nat /\ Window > 0 /\ a \in Nat
  BY ConfigAssumption
<1>2. n = a \div q
  BY DEF OneToken
<1> HIDE DEF a, q, n
<1>3. n \in Nat /\ a < n * q + q
  BY <1>1, <1>2, DivBounds
<1>4. n * q \in Nat
  BY <1>1, <1>3
<1>5. Window <= n * q
  BY <1>1, <1>3, <1>4 DEF a
<1>6. n # 0
  <2>1. 0 * q = 0
    BY <1>1
  <2> QED BY <1>1, <1>5, <2>1
<1> QED BY <1>3, <1>5, <1>6 DEF n, q

\* A bucket that has waited that long buys a token.
LEMMA RestedBuys ==
  ASSUME IInv, NEW k \in Key, buckets[k] # NoBucket,
         now - buckets[k].last >= OneToken(k[1]) * TicksPerSecond
  PROVE  Ready(k).tokens >= 1
<1> DEFINE e == k[1]
           b == buckets[k]
           s == Elapsed(b)
           n == OneToken(e)
           q == Limit[e]
           dt == now - b.last
           gain == (s * q) \div Window
<1>1. /\ e \in Endpoint /\ now \in Nat /\ b.tokens \in Nat /\ b.last \in Nat
      /\ dt \in Nat /\ q \in Nat /\ Burst[e] \in Nat /\ Burst[e] > 0
      /\ Window \in Nat /\ Window > 0 /\ TicksPerSecond \in Nat /\ TicksPerSecond > 0
  BY ConfigTypes DEF Key, IInv, TypeOK, Buckets, Sound, Bucket
<1>2. n \in Nat /\ n > 0 /\ Window <= n * q /\ n * TicksPerSecond <= dt
  BY <1>1, OneTokenPays
<1>3. s = dt \div TicksPerSecond
  BY DEF Elapsed
<1>4. Ready(k) = Refill(e, b)
  BY DEF Ready
<1>5. s > 0 => Refill(e, b).tokens = Lesser(Burst[e], b.tokens + gain)
  BY DEF Refill
<1> HIDE DEF e, b, s, n, q, dt
<1>6. s \in Nat /\ dt < s * TicksPerSecond + TicksPerSecond
  BY <1>1, <1>3, DivBounds
<1>7. n <= s
  <2>1. ASSUME s + 1 <= n PROVE FALSE
    <3>1. (s + 1) * TicksPerSecond <= n * TicksPerSecond
      BY <1>1, <1>2, <1>6, <2>1, MulMono
    <3>2. (s + 1) * TicksPerSecond = s * TicksPerSecond + TicksPerSecond
      BY <1>1, <1>6
    <3>3. n * TicksPerSecond \in Int /\ s * TicksPerSecond \in Int
      BY <1>1, <1>2, <1>6
    <3> QED BY <1>1, <1>2, <1>6, <3>1, <3>2, <3>3
  <2> QED BY <1>2, <1>6, <2>1
<1>8. gain \in Nat /\ gain >= 1
  <2>1. n * q <= s * q
    BY <1>1, <1>2, <1>6, <1>7, MulMono
  <2>2. n * q \in Nat /\ s * q \in Nat
    BY <1>1, <1>2, <1>6
  <2>3. gain \in Nat /\ s * q < gain * Window + Window
    BY <1>1, <2>2, DivBounds
  <2> HIDE DEF gain
  <2>4. gain # 0
    <3>1. 0 * Window = 0
      BY <1>1
    <3> QED BY <1>1, <1>2, <2>1, <2>2, <2>3, <3>1
  <2> QED BY <2>3, <2>4
<1> HIDE DEF gain
<1>9. Lesser(Burst[e], b.tokens + gain) >= 1
  BY <1>1, <1>8 DEF Lesser
<1> QED BY <1>2, <1>4, <1>5, <1>6, <1>7, <1>9

\* Coming back one token's time after a refusal helps: the refill that the refusal
\* caused took no more of that time than had passed by then.
THEOREM SpacedRetryIsAdmitted == Spec => []SpacedRetryAdmitted
<1>1. ASSUME IInv, Waited, NEW k \in Key, refusal[k] # NoRefusal,
             now - refusal[k].latest >= OneToken(k[1]) * TicksPerSecond
      PROVE  Ready(k).tokens >= 1
  <2>1. CASE buckets[k] = NoBucket
    <3>1. k[1] \in Endpoint /\ now \in Nat
      BY <1>1 DEF Key, IInv, TypeOK
    <3> QED BY <2>1, <3>1, AbsentIsFull, ConfigTypes
  <2>2. CASE buckets[k] # NoBucket
    <3>1. buckets[k].last <= refusal[k].latest
      BY <1>1, <2>2 DEF Waited
    <3>2. /\ now \in Int /\ refusal[k].latest \in Int /\ buckets[k].last \in Int
          /\ OneToken(k[1]) * TicksPerSecond \in Int
      <4>1. k[1] \in Endpoint
        BY DEF Key
      <4>2. OneToken(k[1]) \in Nat
        BY <4>1, OneTokenPays
      <4> QED BY <1>1, <2>2, <4>2, ConfigTypes DEF IInv, TypeOK, Buckets, Sound, Bucket
    <3>3. now - buckets[k].last >= OneToken(k[1]) * TicksPerSecond
      BY <1>1, <3>1, <3>2
    <3> QED BY <1>1, <2>2, <3>3, RestedBuys
  <2> QED BY <2>1, <2>2
<1>2. IInv /\ Waited => SpacedRetryAdmitted
  BY <1>1 DEF SpacedRetryAdmitted
<1>3. Init => Waited
  BY DEF Init, Waited
<1> QED BY <1>2, <1>3, WaitedKept, Invariance, PTL DEF Spec

---------------------------------------------------------------------------
\* Announced resets.

\* A bucket that a check creates is filled now, and no other is filled backwards.
LEMMA ReadyLast ==
  ASSUME IInv, NEW k \in Key
  PROVE  IF buckets[k] = NoBucket THEN Ready(k).last = now
                                  ELSE buckets[k].last <= Ready(k).last
<1>1. k[1] \in Endpoint /\ now \in Nat
  BY DEF Key, IInv, TypeOK
<1>2. CASE buckets[k] = NoBucket
  <2>1. Elapsed(NewBucket(k[1])) = 0
    <3>1. now - NewBucket(k[1]).last = 0
      BY <1>1 DEF NewBucket
    <3> QED BY <3>1, ConfigTypes, DivBounds DEF Elapsed
  <2>2. Ready(k) = NewBucket(k[1])
    BY <1>2, <2>1 DEF Ready, Refill
  <2> QED BY <1>2, <2>2 DEF NewBucket
<1>3. CASE buckets[k] # NoBucket
  <2>1. Sound(k[1], buckets[k])
    BY <1>3 DEF IInv, Buckets
  <2> QED BY <1>1, <1>3, <2>1, RefillCredit DEF Ready
<1> QED BY <1>2, <1>3

LEMMA BucketsRefill ==
  ASSUME IInv, [Next]_vars, NEW k \in Key, buckets'[k] # NoBucket
  PROVE  IF buckets[k] = NoBucket THEN buckets'[k].last = now
                                  ELSE buckets[k].last <= buckets'[k].last
<1> USE DEF IInv, TypeOK
<1>1. ASSUME NEW c \in Client, NEW e \in Endpoint, Admit(c, e) \/ Refuse(c, e),
             k = KeyOf(c, e)
      PROVE  buckets'[k].last = Ready(k).last
  BY <1>1 DEF Admit, Refuse
<1>2. CASE buckets'[k] = buckets[k]
  <2>1. buckets[k] # NoBucket /\ buckets[k].last \in Nat
    BY <1>2 DEF Bucket
  <2> QED BY <1>2, <2>1
<1>3. ASSUME NEW c \in Client, NEW e \in Endpoint, Admit(c, e) \/ Refuse(c, e),
             k # KeyOf(c, e)
      PROVE  buckets'[k] = buckets[k]
  BY <1>3 DEF Admit, Refuse
<1>4. CASE Cleanup \/ Tick \/ UNCHANGED vars \/ \E c \in Client : Inform(c)
  <2>1. buckets'[k] = buckets[k]
    BY <1>4 DEF Cleanup, Tick, vars, Inform
  <2> QED BY <1>2, <2>1
<1> QED BY <1>1, <1>2, <1>3, <1>4, ReadyLast DEF Next

\* A client is told something new only by the answer to its own request.
LEMMA OnlyInformTells ==
  ASSUME IInv, [Next]_vars, NEW c \in Client, reply'[c] # reply[c], reply'[c].status = 429
  PROVE  Inform(c)
<1> USE DEF IInv, TypeOK
<1>1. ASSUME NEW d \in Client, NEW e \in Endpoint, Admit(d, e) PROVE FALSE
  <2>1. reply' = [reply EXCEPT ![d] = [NoReply EXCEPT !.status = 200, !.endpoint = e]]
    BY <1>1 DEF Admit
  <2>2. d = c
    BY <2>1
  <2>3. reply'[c].status = 200
    BY <2>1, <2>2 DEF NoReply
  <2> QED BY <2>3
<1>2. ASSUME NEW d \in Client, d # c, Inform(d) PROVE FALSE
  BY <1>2 DEF Inform
<1> QED BY <1>1, <1>2 DEF Next, Refuse, Cleanup, Tick, vars

\* What a client has been told holds of its bucket from then on.
Announced(c) ==
  reply[c].status = 429 =>
    LET k == KeyOf(c, reply[c].endpoint) IN
    /\ k \in Key
    /\ reply[c].reset <= now + WindowTicks
    /\ buckets[k] # NoBucket => reply[c].reset <= buckets[k].last + WindowTicks

\* What an answer tells a client of its bucket.
LEMMA InformTells ==
  ASSUME IInv, NEW c \in Client, Inform(c)
  PROVE  LET k == KeyOf(c, request[c]) IN
         /\ k \in Key
         /\ now' = now /\ buckets' = buckets
         /\ reply'[c].status = 429 /\ reply'[c].endpoint = request[c]
         /\ reply'[c].reset = (IF buckets[k] = NoBucket THEN now ELSE buckets[k].last)
                                + WindowTicks
<1>1. request[c] \in Endpoint
  BY DEF Inform, IInv, TypeOK
<1>2. KeyOf(c, request[c]) \in Key
  BY <1>1, ConfigTypes
<1> QED BY <1>2 DEF Inform, IInv, TypeOK, WindowTicks

LEMMA AnnouncedKept ==
  ASSUME IInv, [Next]_vars, NEW c \in Client, Announced(c)
  PROVE  Announced(c)'
<1>0. WindowTicks \in Nat /\ now \in Nat /\ now' \in Nat /\ now <= now'
  <2>1. now' = now \/ now' = now + 1
    BY DEF Next, Admit, Refuse, Inform, Cleanup, Tick, vars
  <2> QED BY <2>1, ConfigTypes DEF IInv, TypeOK
<1> SUFFICES ASSUME reply'[c].status = 429 PROVE Announced(c)'
  BY DEF Announced
<1>1. CASE reply'[c] # reply[c]
  <2>1. Inform(c)
    BY <1>1, OnlyInformTells
  <2> DEFINE k == KeyOf(c, request[c])
  <2>2. /\ k \in Key /\ k = KeyOf(c, reply'[c].endpoint) /\ buckets'[k] = buckets[k]
        /\ reply'[c].reset = (IF buckets[k] = NoBucket THEN now ELSE buckets[k].last)
                               + WindowTicks
        /\ now' = now
    BY <2>1, InformTells
  <2>3. buckets[k] # NoBucket => buckets[k].last \in Nat /\ buckets[k].last <= now
    BY <2>2 DEF IInv, Buckets, Sound, Bucket
  <2> HIDE DEF k
  <2>4. /\ reply'[c].reset <= now' + WindowTicks
        /\ buckets'[k] # NoBucket => reply'[c].reset <= buckets'[k].last + WindowTicks
    BY <1>0, <2>2, <2>3
  <2> QED BY <2>2, <2>4 DEF Announced, WindowTicks, KeyOf
<1>2. CASE reply'[c] = reply[c]
  <2> DEFINE k == KeyOf(c, reply[c].endpoint)
  <2>1. /\ k \in Key /\ k = KeyOf(c, reply'[c].endpoint)
        /\ reply[c].reset \in Nat /\ reply[c].reset <= now + WindowTicks
        /\ buckets[k] # NoBucket => reply[c].reset <= buckets[k].last + WindowTicks
    BY <1>2 DEF Announced, IInv, TypeOK
  <2> HIDE DEF k
  <2>2. /\ buckets[k] # NoBucket => buckets[k].last \in Nat
        /\ buckets'[k] # NoBucket => buckets'[k].last \in Nat
    BY <2>1, Inductive DEF IInv, Buckets, Sound, Bucket
  <2>3. buckets'[k] # NoBucket => reply[c].reset <= buckets'[k].last + WindowTicks
    BY <1>0, <2>1, <2>2, BucketsRefill
  <2>4. reply[c].reset <= now' + WindowTicks
    BY <1>0, <2>1
  <2> QED BY <1>2, <2>1, <2>3, <2>4 DEF Announced, WindowTicks
<1> QED BY <1>1, <1>2

\* Two refusals of one client never announce resets that go backwards: a bucket is
\* refilled forwards only, and without one the clock is announced, later than any.
THEOREM ResetsNeverRecede == Spec => ResetNeverRecedes
<1> DEFINE Told == \A c \in Client : Announced(c)
<1>1. ASSUME IInv, Told, [Next]_vars, NEW c \in Client,
             reply[c].status = 429, reply'[c].status = 429,
             reply[c].endpoint = reply'[c].endpoint
      PROVE  reply'[c].reset >= reply[c].reset
  <2>1. CASE reply'[c] = reply[c]
    BY <1>1, <2>1 DEF IInv, TypeOK
  <2>2. CASE reply'[c] # reply[c]
    <3>1. Inform(c)
      BY <1>1, <2>2, OnlyInformTells
    <3> DEFINE k == KeyOf(c, request[c])
    <3>2. /\ k = KeyOf(c, reply[c].endpoint)
          /\ reply'[c].reset = (IF buckets[k] = NoBucket THEN now ELSE buckets[k].last)
                                 + WindowTicks
      BY <1>1, <3>1, InformTells
    <3> HIDE DEF k
    <3>3. /\ reply[c].reset <= now + WindowTicks
          /\ buckets[k] # NoBucket => reply[c].reset <= buckets[k].last + WindowTicks
      BY <1>1, <3>2 DEF Announced
    <3> QED BY <3>2, <3>3
  <2> QED BY <2>1, <2>2
<1>2. IInv /\ Told /\ [Next]_vars =>
        [\A c \in Client :
           (/\ reply[c].status = 429 /\ reply'[c].status = 429
            /\ reply[c].endpoint = reply'[c].endpoint)
              => reply'[c].reset >= reply[c].reset]_vars
  BY <1>1
<1>3. Init => Told
  BY DEF Init, Announced, NoReply
<1>4. IInv /\ Told /\ [Next]_vars => Told'
  BY AnnouncedKept
<1> HIDE DEF Told
<1> QED BY <1>2, <1>3, <1>4, Invariance, PTL DEF Spec, ResetNeverRecedes

============================================================================
