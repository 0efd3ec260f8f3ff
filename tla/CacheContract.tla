--------------------------- MODULE CacheContract ---------------------------
(***************************************************************************)
(* InMemoryCache under arbitrary callers, and what they may rely on.       *)
(*                                                                         *)
(* What it defines of its own is named Contract..., so that a module can   *)
(* extend it beside another component.                                     *)
(*                                                                         *)
(* Bounds: MaxTime caps the clock, Ttl lists the lifetimes in use.         *)
(***************************************************************************)
EXTENDS InMemoryCache

CONSTANTS
  Ttl,       \* the lifetimes the callers ask for
  Pattern,   \* the sets of keys a pattern may match
  MaxTime

ASSUME ContractAssumption ==
  /\ Ttl \subseteq Nat /\ Pattern \subseteq SUBSET Key /\ MaxTime \in Nat

VARIABLES
  answer,    \* what the last Get returned
  latest     \* history: key -> the last Put that was not invalidated since

contractVars == <<now, cache, answer, latest>>

NoAnswer == [key |-> Miss, result |-> Miss]

ContractTypeOK ==
  /\ CacheTypeOK
  /\ answer \in [key : Key, result : Value \cup {Miss}] \cup {NoAnswer}
  /\ latest \in [Key -> Entry \cup {Absent}]

ContractInit ==
  /\ now = 0
  /\ CacheInit
  /\ answer = NoAnswer
  /\ latest = [k \in Key |-> Absent]

CallGet(k) ==
  /\ Get(k)
  /\ answer' = [key |-> k, result |-> Lookup(k)]
  /\ UNCHANGED <<now, latest>>

CallPut(k, v, ttl) ==
  /\ Put(k, v, ttl)
  /\ latest' = [latest EXCEPT ![k] = [value |-> v, expiry |-> now + ttl]]
  /\ answer' = NoAnswer
  /\ UNCHANGED now

CallInvalidate(k) ==
  /\ Invalidate(k)
  /\ latest' = Without(latest, {k})
  /\ answer' = NoAnswer
  /\ UNCHANGED now

CallInvalidatePattern(p) ==
  /\ InvalidatePattern(p)
  /\ latest' = Without(latest, p)
  /\ answer' = NoAnswer
  /\ UNCHANGED now

CallClear ==
  /\ Clear
  /\ latest' = Without(latest, Key)
  /\ answer' = NoAnswer
  /\ UNCHANGED now

Tick ==
  /\ now < MaxTime
  /\ now' = now + 1
  /\ answer' = NoAnswer
  /\ UNCHANGED <<cache, latest>>

ContractNext ==
  \/ \E k \in Key : CallGet(k) \/ CallInvalidate(k)
  \/ \E k \in Key, v \in Value, ttl \in Ttl : CallPut(k, v, ttl)
  \/ \E p \in Pattern : CallInvalidatePattern(p)
  \/ CallClear
  \/ Tick

ContractSpec == ContractInit /\ [][ContractNext]_contractVars

---------------------------------------------------------------------------
\* SizeBound.  However many keys are put, the cache is within its maximum
\* size whenever its mutex is free.
SizeBound == Cardinality(Cached(cache)) <= MaxSize

\* HitIsLatest.  A hit is the value of the latest Put of its key, nobody has
\* invalidated it since, and its lifetime is not over.
HitIsLatest ==
  answer.result # Miss =>
    LET e == latest[answer.key]
    IN e # Absent /\ e.value = answer.result /\ now <= e.expiry

\* EvictionIsForced.  An entry leaves unasked only when the cache is full to
\* the brim afterwards, or when it is over; and of the entries that stay none
\* would have expired sooner.
EvictionIsForced ==
  [][\A k \in Key :
       (cache[k] # Absent /\ cache'[k] = Absent /\ latest'[k] # Absent) =>
          \/ Expired(cache[k])
          \/ /\ Cardinality(Cached(cache')) = MaxSize
             /\ \A j \in Cached(cache') : cache[k].expiry <= cache'[j].expiry]_contractVars
=============================================================================
