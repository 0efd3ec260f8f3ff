-------------------------- MODULE MCCacheContract --------------------------
(* CacheContract for TLC: one key more than fits and two lifetimes, the    *)
(* search's and the default, so that a newcomer may be the first to expire. *)
EXTENDS CacheContract, TLC

CONSTANTS k1, k2, k3, v1, v2

MCKey == {k1, k2, k3}
MCPattern == {{k1, k2}, {}}
MCValue == {v1, v2}
=============================================================================
