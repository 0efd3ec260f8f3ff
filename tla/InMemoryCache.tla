--------------------------- MODULE InMemoryCache ---------------------------
(***************************************************************************)
(* InMemoryCache of src/common/cache_component.hpp: a map from keys to     *)
(* values that expire, with a maximum size.  Every operation takes the     *)
(* cache's mutex for its whole body, so each is one action on the map; the *)
(* handlers conjoin them with their own steps.                             *)
(*                                                                         *)
(* The clock counts the units the lifetimes are given in.                  *)
(***************************************************************************)
EXTENDS Integers, FiniteSets

CONSTANTS
  Key,      \* the keys, "user:login:..." and the like
  Value,    \* what is cached, a serialised answer
  MaxSize   \* entries the cache may hold after a Put

ASSUME CacheAssumption == IsFiniteSet(Key) /\ MaxSize \in Nat

VARIABLES
  now,      \* system_clock
  cache     \* key -> entry, or Absent

Entry  == [value : Value, expiry : Nat]
Absent == [expiry |-> -1]
Miss   == [miss |-> TRUE]

Cached(c) == {k \in Key : c[k] # Absent}

CacheTypeOK ==
  /\ now \in Nat
  /\ cache \in [Key -> Entry \cup {Absent}]

CacheInit == cache = [k \in Key |-> Absent]

Without(c, ks) == [k \in Key |-> IF k \in ks THEN Absent ELSE c[k]]

\* An entry is still served at the very instant it expires.
Expired(e) == now > e.expiry

\* Variant: nobody looks at the expiry time.
Lookup_Unexpiring(k) ==
  IF cache[k] # Absent THEN cache[k].value ELSE Miss

\* What Get(k) returns ...
Lookup(k) ==
  IF cache[k] # Absent /\ ~ Expired(cache[k]) THEN cache[k].value ELSE Miss

\* ... and what it does: an expired entry goes when it is looked up.
Get(k) ==
  cache' = IF cache[k] # Absent /\ Expired(cache[k])
             THEN Without(cache, {k}) ELSE cache

\* Variant: the comparison is the wrong way round.
Oldest_Newest(c) ==
  {k \in Cached(c) : \A j \in Cached(c) : c[k].expiry >= c[j].expiry}

\* The entries that EvictOldest may pick: those that expire first, whichever
\* of them the hash map happens to reach first.
Oldest(c) ==
  {k \in Cached(c) : \A j \in Cached(c) : c[k].expiry <= c[j].expiry}

\* Variant: the size is read before the entry is stored.
Put_SizeTooEarly(k, v, ttl) ==
  LET grown == [cache EXCEPT ![k] = [value |-> v, expiry |-> now + ttl]]
  IN IF Cardinality(Cached(cache)) <= MaxSize
       THEN cache' = grown
       ELSE \E old \in Oldest(grown) : cache' = Without(grown, {old})

\* Variant: the lifetime is counted backwards.
Put_Backwards(k, v, ttl) ==
  LET grown == [cache EXCEPT ![k] = [value |-> v, expiry |-> now - ttl]]
  IN IF Cardinality(Cached(grown)) <= MaxSize
       THEN cache' = grown
       ELSE \E old \in Oldest(grown) : cache' = Without(grown, {old})

\* The entry is stored before there is room for it, so it competes with the
\* others and may itself be the one evicted.
Put(k, v, ttl) ==
  LET grown == [cache EXCEPT ![k] = [value |-> v, expiry |-> now + ttl]]
  IN IF Cardinality(Cached(grown)) <= MaxSize
       THEN cache' = grown
       ELSE \E old \in Oldest(grown) : cache' = Without(grown, {old})

Invalidate(k) == cache' = Without(cache, {k})

\* The keys that contain the pattern; nothing calls it today.
InvalidatePattern(matching) == cache' = Without(cache, matching)

Clear == cache' = Without(cache, Key)
=============================================================================
