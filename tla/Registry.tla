------------------------------ MODULE Registry ------------------------------
(***************************************************************************)
(* What the user service promises of registrations, whatever happens to    *)
(* the requests that carry them: nobody shares a login or an e-mail        *)
(* address, a user is announced only once it is stored, and a client is    *)
(* told of its registration only once that has been announced.             *)
(***************************************************************************)
CONSTANT Applicant   \* records with at least a login and an email

VARIABLES
  registered,     \* who is stored
  announced,      \* whose UserCreated event the broker has
  acknowledged    \* who has been answered 201

vars == <<registered, announced, acknowledged>>

Clash(a, b) == a.login = b.login \/ a.email = b.email

Init ==
  /\ registered = {}
  /\ announced = {}
  /\ acknowledged = {}

Register(a) ==
  /\ \A b \in registered : ~ Clash(a, b)
  /\ registered' = registered \cup {a}
  /\ UNCHANGED <<announced, acknowledged>>

Announce(a) ==
  /\ a \in registered
  /\ announced' = announced \cup {a}
  /\ UNCHANGED <<registered, acknowledged>>

Acknowledge(a) ==
  /\ a \in announced \ acknowledged
  /\ acknowledged' = acknowledged \cup {a}
  /\ UNCHANGED <<registered, announced>>

Next == \E a \in Applicant : Register(a) \/ Announce(a) \/ Acknowledge(a)

Spec == Init /\ [][Next]_vars
=============================================================================
