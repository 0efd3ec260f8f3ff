---------------------------- MODULE MCReadModel ----------------------------
(* A user with its creation only and a message that is created and then    *)
(* sent; the folders' map stays empty.                                     *)
EXTENDS ReadModel, TLC

CONSTANTS alice, hi

MCMapOf == (alice :> "users") @@ (hi :> "messages")
MCLast  == (alice :> 1) @@ (hi :> 2)
=============================================================================
