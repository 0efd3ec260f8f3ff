-------------------------- MODULE MCEventPipeline --------------------------
(* EventPipeline for TLC: two services with an event each, the second of    *)
(* which cannot be processed, two deliveries at once, and as many restarts  *)
(* as it takes for one service to tear down what another is setting up.     *)
EXTENDS EventPipeline, TLC

CONSTANTS user, folder, good, bad

MCProducer == (good :> user) @@ (bad :> folder)
=============================================================================
