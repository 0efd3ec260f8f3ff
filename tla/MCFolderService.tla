-------------------------- MODULE MCFolderService --------------------------
(* FolderService for TLC: three calls, so that a list can be read, be        *)
(* overtaken by a creation, and be asked for again; two users for a cache   *)
(* that holds one list, so that lists evict each other; and time enough for *)
(* an entry to be served at its last instant and to be found expired.       *)
EXTENDS FolderService, TLC

CONSTANTS r1, r2, r3, ann, bob

Symmetry == Permutations({r1, r2, r3}) \cup Permutations({ann, bob})
=============================================================================
