--------------------------- MODULE MCRateLimiter ---------------------------
(* Instances of RateLimiter for TLC.  One token takes a second and a half  *)
(* (the registration limit's is six) and a second has two ticks, so that   *)
(* both fractions the code drops, of a second and of a token, can occur.   *)
EXTENDS RateLimiter, TLC

CONSTANTS alice, bob, ipA

MCLimit == "user_reg" :> 2
MCBurst == "user_reg" :> 3

Symmetry == Permutations({alice, bob})
Shared == (alice :> ipA) @@ (bob :> ipA)
Alone  == alice :> ipA

=============================================================================
