-------------------------- MODULE MCMessageService --------------------------
(* MessageService for TLC: two users with a folder each and three calls, so *)
(* that one user's list or message can be asked for by the other, and a     *)
(* folder can get two messages before it is listed.  Ann's inbox starts     *)
(* with a message of a third user.                                          *)
EXTENDS MessageService, TLC

CONSTANTS r1, r2, r3, ann, bob, eve, inbox, work

MCSeed == {[id |-> 0, folder |-> inbox, sender |-> eve]}

MCOwner == (inbox :> ann) @@ (work :> bob)

Symmetry == Permutations({r1, r2, r3})
=============================================================================
