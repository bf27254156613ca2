----------------------- MODULE InfrastructureWorkerMC -----------------------
(* Instances of InfrastructureWorker for TLC. *)
EXTENDS InfrastructureWorker, TLC

CONSTANTS h1, h2, p1, p2, t1, t2

Interchangeable ==
  Permutations(Handlers) \cup Permutations(Plans) \cup Permutations(Tickets)
=============================================================================
