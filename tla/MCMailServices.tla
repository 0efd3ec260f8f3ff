--------------------------- MODULE MCMailServices ---------------------------
(* Two users are there, each with a message of the other in their folder;  *)
(* a third registers, under one of two logins that claim the same email.   *)
EXTENDS MailServices, TLC

CONSTANTS r1, r2, r3, alice, bob, carol, cara, amail, bmail, cmail, apass, bpass, cpass

Account(login, email, password) == [login |-> login, email |-> email, password |-> password]

MCForm == {Account(carol, cmail, cpass), Account(cara, cmail, cpass)}
MCSeedForm == <<Account(alice, amail, apass), Account(bob, bmail, bpass)>>
MCSeedMail == <<[folder |-> 1, sender |-> 2], [folder |-> 2, sender |-> 1]>>
Symmetry == Permutations(Request)
=============================================================================
