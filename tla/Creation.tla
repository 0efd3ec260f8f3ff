------------------------------ MODULE Creation ------------------------------
(***************************************************************************)
(* What a storage promises of creations: each is carried out at most once, *)
(* no two of them clash, what is made stays, and a creation that is        *)
(* answered with success is answered with what was made for it and nothing *)
(* else.  It promises no answer, and no answer does not mean that nothing  *)
(* was made.                                                               *)
(***************************************************************************)
EXTENDS FiniteSets

CONSTANTS
  Request,
  Clash(_, _)   \* whether two rows may not be stored together

VARIABLES
  made,   \* request -> the row made for it, in a set, empty without one
  told    \* request -> the row of its successful answer, likewise

Init == told = [r \in Request |-> {}]

\* No two requests have rows that clash.
Distinct(m) ==
  \A r, q \in Request : r # q => \A x \in m[r], y \in m[q] : ~Clash(x, y)

Make(r) ==
  /\ made[r] = {} /\ told[r] = {}
  /\ Cardinality(made'[r]) = 1
  /\ \A q \in Request \ {r} : made'[q] = made[q]
  /\ Distinct(made')

Tell(r, m) ==
  /\ told[r] = {} /\ m[r] # {}
  /\ told' = [told EXCEPT ![r] = m[r]]

Next ==
  \E r \in Request :
    \/ Make(r) /\ (UNCHANGED told \/ Tell(r, made'))
    \/ Tell(r, made) /\ UNCHANGED made
=============================================================================
