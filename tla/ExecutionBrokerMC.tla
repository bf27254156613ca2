-------------------------- MODULE ExecutionBrokerMC --------------------------
(* Instances of ExecutionBroker for TLC. *)
EXTENDS ExecutionBroker, TLC

CONSTANTS c1, c2, m1, m2, r1, r2
=============================================================================
