------------------------ MODULE MCLimitedUserService ------------------------
(* LimitedUserService for TLC: two people, who may register and log in more *)
(* than once and with each other's password, and for each endpoint a burst  *)
(* of one and a token a second.                                             *)
EXTENDS LimitedUserService, TLC

CONSTANTS r1, r2, r3

MCForm == {[login |-> "ann", email |-> "a@x", name |-> "A"],
           [login |-> "bob", email |-> "b@x", name |-> "A"]}

One == [e \in Endpoint |-> 1]

Symmetry == Permutations({r1, r2, r3})
=============================================================================
