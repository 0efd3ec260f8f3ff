---------------------------- MODULE RateLimiter ----------------------------
(***************************************************************************)
(* The rate limiter component (src/common/rate_limiter.hpp) as the two     *)
(* user-service handlers drive it: a map of token buckets, one per         *)
(* (endpoint, peer address) key, behind one mutex.                         *)
(*                                                                         *)
(* A request takes that mutex once to be checked.  A refused one takes it  *)
(* a second time to fill in the X-RateLimit-* headers of its 429, so other *)
(* requests, clock ticks and sweeps may come between the two.              *)
(*                                                                         *)
(* The clock counts ticks and the buckets account in whole seconds, as     *)
(* duration_cast<seconds> does.  The clock is taken to be monotone.        *)
(*                                                                         *)
(* Bounds: MaxTime caps the clock, MaxAdmitted the checks a key admits.    *)
(***************************************************************************)
EXTENDS Integers, Sequences, FiniteSets

CONSTANTS
  Endpoint,         \* the limited endpoints, the prefix of a bucket's key
  Client,           \* the clients, each with at most one request in flight
  Address,          \* the peer addresses the service can see
  PeerAddress,      \* the address a client's requests arrive from
  Limit,            \* tokens returned in one window
  Burst,            \* tokens a bucket can hold
  Window,           \* the window in seconds
  TicksPerSecond,   \* granularity of the clock
  MaxTime, MaxAdmitted

ASSUME ConfigAssumption ==
  /\ PeerAddress \in [Client -> Address]
  /\ Limit \in [Endpoint -> Nat \ {0}]
  /\ Burst \in [Endpoint -> Nat \ {0}]
  /\ Window \in Nat \ {0}
  /\ TicksPerSecond \in Nat \ {0}
  /\ MaxTime \in Nat
  /\ MaxAdmitted \in Nat

\* A swept bucket is recreated full, and it would have been full by then:
\* every configured limit satisfies this (10/5, 20/5, 100/20, 60/10, 200/50).
ASSUME SweepAssumption == \A e \in Endpoint : Burst[e] <= 2 * Limit[e]

VARIABLES
  now,        \* system_clock, in ticks
  buckets,    \* key -> bucket, or NoBucket
  request,    \* client -> where its request stands
  reply,      \* client -> what its last answer said
  admitted,   \* history: key -> the instants of its admitted checks
  refusal     \* history: key -> first and latest refusal since it last admitted

vars == <<now, buckets, request, reply, admitted, refusal>>

Key == Endpoint \X Address
KeyOf(c, e) == <<e, PeerAddress[c]>>

Bucket   == [tokens : Nat, last : Nat]
NoBucket == [tokens |-> 0, last |-> -1]
Idle     == "idle"
NoReply  == [status |-> 0, endpoint |-> Idle, remaining |-> 0, reset |-> 0]
NoRefusal == [first |-> -1, latest |-> -1]

TypeOK ==
  /\ now \in 0..MaxTime
  /\ buckets \in [Key -> Bucket \cup {NoBucket}]
  /\ request \in [Client -> Endpoint \cup {Idle}]
  /\ reply \in [Client -> [status : {0, 200, 429}, endpoint : Endpoint \cup {Idle},
                           remaining : Nat, reset : Nat]]
  /\ admitted \in [Key -> Seq(Nat)]
  /\ refusal \in [Key -> [first : Nat, latest : Nat] \cup {NoRefusal}]

---------------------------------------------------------------------------
\* The bucket's arithmetic.

\* Variant: the constructor's capacity and rate the wrong way round.
NewBucket_Swapped(e) == [tokens |-> Limit[e], last |-> now]

NewBucket(e) == [tokens |-> Burst[e], last |-> now]

Lesser(a, b) == IF a <= b THEN a ELSE b

\* Whole seconds since the last refill; a part of a second is dropped.
Elapsed(b) == (now - b.last) \div TicksPerSecond

\* Variant: last_refill is left where it was.
Refill_LastKept(e, b) ==
  IF Elapsed(b) > 0
    THEN [b EXCEPT !.tokens = Lesser(Burst[e],
                     b.tokens + (Elapsed(b) * Limit[e]) \div Window)]
    ELSE b

\* Variant: the division comes before the multiplication.
Refill_DivideFirst(e, b) ==
  IF Elapsed(b) > 0
    THEN [tokens |-> Lesser(Burst[e],
                            b.tokens + (Elapsed(b) \div Window) * Limit[e]),
          last |-> now]
    ELSE b

\* Any elapsed second moves last_refill to now, even when it buys no token:
\* the fraction of a token that had accrued is lost.
Refill(e, b) ==
  IF Elapsed(b) > 0
    THEN [tokens |-> Lesser(Burst[e],
                            b.tokens + (Elapsed(b) * Limit[e]) \div Window),
          last |-> now]
    ELSE b

\* The bucket a check finds once it has created and refilled it.
Ready(k) == Refill(k[1], IF buckets[k] = NoBucket THEN NewBucket(k[1])
                                                  ELSE buckets[k])

---------------------------------------------------------------------------
Init ==
  /\ now = 0
  /\ buckets = [k \in Key |-> NoBucket]
  /\ request = [c \in Client |-> Idle]
  /\ reply = [c \in Client |-> NoReply]
  /\ admitted = [k \in Key |-> <<>>]
  /\ refusal = [k \in Key |-> NoRefusal]

\* Variant: the token is taken without a look at how many there are.
Admit_Unguarded(c, e) ==
  LET k == KeyOf(c, e) IN
  /\ request[c] = Idle
  /\ Len(admitted[k]) < MaxAdmitted
  /\ buckets' = [buckets EXCEPT ![k] =
                   [tokens |-> Ready(k).tokens - 1, last |-> Ready(k).last]]
  /\ admitted' = [admitted EXCEPT ![k] = Append(@, now)]
  /\ refusal' = [refusal EXCEPT ![k] = NoRefusal]
  /\ reply' = [reply EXCEPT ![c] = [NoReply EXCEPT !.status = 200, !.endpoint = e]]
  /\ UNCHANGED <<now, request>>

\* CheckRateLimit, a token left: the handler goes on with the request.
Admit(c, e) ==
  LET k == KeyOf(c, e) IN
  /\ request[c] = Idle
  /\ Len(admitted[k]) < MaxAdmitted
  /\ Ready(k).tokens >= 1
  /\ buckets' = [buckets EXCEPT ![k] =
                   [tokens |-> Ready(k).tokens - 1, last |-> Ready(k).last]]
  /\ admitted' = [admitted EXCEPT ![k] = Append(@, now)]
  /\ refusal' = [refusal EXCEPT ![k] = NoRefusal]
  /\ reply' = [reply EXCEPT ![c] = [NoReply EXCEPT !.status = 200, !.endpoint = e]]
  /\ UNCHANGED <<now, request>>

\* CheckRateLimit, no token left: the refill is kept, and the handler will
\* ask for the header values.
Refuse(c, e) ==
  LET k == KeyOf(c, e) IN
  /\ request[c] = Idle
  /\ Ready(k).tokens = 0
  /\ buckets' = [buckets EXCEPT ![k] = Ready(k)]
  /\ request' = [request EXCEPT ![c] = e]
  /\ refusal' = [refusal EXCEPT ![k] =
                   [first |-> IF @ = NoRefusal THEN now ELSE @.first,
                    latest |-> now]]
  /\ UNCHANGED <<now, reply, admitted>>

\* Variant: the missing bucket goes unnoticed.
Inform_Unchecked(c) ==
  LET e == request[c]
      b == buckets[KeyOf(c, e)]
  IN
  /\ e # Idle
  /\ reply' = [reply EXCEPT ![c] =
                 [status |-> 429, endpoint |-> e, remaining |-> b.tokens,
                  reset |-> b.last + Window * TicksPerSecond]]
  /\ request' = [request EXCEPT ![c] = Idle]
  /\ UNCHANGED <<now, buckets, admitted, refusal>>

\* GetRateLimitInfo and the 429: it looks at the bucket as it is now and does
\* not refill it.  A key without a bucket reports the limit, not the burst.
\* The handlers pass it numbers of their own (handlers.cpp:46, :279), which are
\* the defaults of the endpoint's configuration; no configuration in the
\* repository sets others, so here it takes the endpoint's.
Inform(c) ==
  LET e == request[c]
      b == buckets[KeyOf(c, e)]
  IN
  /\ e # Idle
  /\ reply' = [reply EXCEPT ![c] =
       IF b = NoBucket
         THEN [status |-> 429, endpoint |-> e, remaining |-> Limit[e],
               reset |-> now + Window * TicksPerSecond]
         ELSE [status |-> 429, endpoint |-> e, remaining |-> b.tokens,
               reset |-> b.last + Window * TicksPerSecond]]
  /\ request' = [request EXCEPT ![c] = Idle]
  /\ UNCHANGED <<now, buckets, admitted, refusal>>

\* Variant: one window is thought enough.
Stale_OneWindow(b) == b # NoBucket /\ now - b.last > Window * TicksPerSecond

\* Strictly more than two windows without a refill.
Stale(b) == b # NoBucket /\ now - b.last > 2 * Window * TicksPerSecond

\* The sweep: a public operation that nothing in the repository calls yet.
\* It may happen at any time or, as the service is built today, never.
Cleanup ==
  /\ \E k \in Key : Stale(buckets[k])
  /\ buckets' = [k \in Key |-> IF Stale(buckets[k]) THEN NoBucket ELSE buckets[k]]
  /\ UNCHANGED <<now, request, reply, admitted, refusal>>

Tick ==
  /\ now < MaxTime
  /\ now' = now + 1
  /\ UNCHANGED <<buckets, request, reply, admitted, refusal>>

Next ==
  \/ \E c \in Client, e \in Endpoint : Admit(c, e) \/ Refuse(c, e)
  \/ \E c \in Client : Inform(c)
  \/ Cleanup
  \/ Tick

Spec == Init /\ [][Next]_vars
---------------------------------------------------------------------------
\* What the limiter promises.

\* One window, in ticks.
WindowTicks == Window * TicksPerSecond

\* RateBound.  However requests, sweeps and clock ticks interleave, a key is
\* admitted at most Burst times plus what Limit per Window returns over any
\* stretch that ends now and begins at one of its admissions, with a second of
\* slack for the whole-second accounting: what CheckRateLimit is there for.
RateBound ==
  \A k \in Key : \A i \in 1..Len(admitted[k]) :
    (Len(admitted[k]) - i + 1) * WindowTicks
      <= Burst[k[1]] * WindowTicks
           + Limit[k[1]] * (now - admitted[k][i] + TicksPerSecond)

\* BurstHonoured.  No key is refused before it has been admitted Burst times:
\* a bucket starts full, a sweep recreates it full, and only admissions drain
\* it.  A refused request is one that waits for its header values.
BurstHonoured ==
  \A c \in Client : request[c] # Idle =>
    Len(admitted[KeyOf(c, request[c])]) >= Burst[request[c]]

\* The least whole number of seconds that buys a token.
OneToken(e) == (Window + Limit[e] - 1) \div Limit[e]

\* SpacedRetryAdmitted.  Whoever keeps quiet for one token's time after the
\* latest refusal of a key finds a token there, so the 60 s that the handlers
\* put in Retry-After are always enough for the first to come back.
SpacedRetryAdmitted ==
  \A k \in Key :
    /\ refusal[k] # NoRefusal
    /\ now - refusal[k].latest >= OneToken(k[1]) * TicksPerSecond
    => Ready(k).tokens >= 1

\* SweepTransparent.  No sweep changes what the next check of a key will
\* find: Cleanup only drops buckets that would be refilled to the brim.
SweepTransparent ==
  [][(now' = now /\ admitted' = admitted) =>
       \A k \in Key : (buckets[k] # NoBucket /\ buckets'[k] = NoBucket)
                        => Ready(k)'.tokens = Ready(k).tokens]_vars

\* ResetNeverRecedes.  Two refusals of one client never announce resets that
\* go backwards, even if its bucket is swept between them: GetRateLimitInfo
\* reads last_refill, and falls back on the clock.
ResetNeverRecedes ==
  [][\A c \in Client :
       (/\ reply[c].status = 429 /\ reply'[c].status = 429
        /\ reply[c].endpoint = reply'[c].endpoint)
          => reply'[c].reset >= reply[c].reset]_vars

\* What "10 requests a minute" leads a client to expect: that it is not
\* refused for longer than a window, however often it asks.
RefusedAtMostAWindow ==
  \A k \in Key : refusal[k].latest - refusal[k].first <= WindowTicks
=============================================================================
