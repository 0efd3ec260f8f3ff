--------------------------- MODULE MCUserService ---------------------------
(* UserService for TLC: three calls, two forms that claim one login and a   *)
(* third that claims the e-mail of the first; everybody has the same name,  *)
(* so that any search may miss any registration.                            *)
EXTENDS UserService, TLC

CONSTANTS r1, r2, r3

MCForm == {[login |-> "ann", email |-> "a@x", name |-> "A"],
           [login |-> "ann", email |-> "b@x", name |-> "A"],
           [login |-> "bob", email |-> "a@x", name |-> "A"]}

Symmetry == Permutations({r1, r2, r3})
=============================================================================
