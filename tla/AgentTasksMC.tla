---------------------------- MODULE AgentTasksMC ----------------------------
(* Instances of AgentTasks for TLC. *)
EXTENDS AgentTasks, TLC

CONSTANTS h1, h2, k1, k2, a1, a2, m1, t1, t2, c1, n1, n2

Interchangeable ==
  Permutations(Handlers) \cup Permutations(Tokens) \cup Permutations(Agents)
    \cup Permutations(Tasks) \cup Permutations(Nonces)
=============================================================================
