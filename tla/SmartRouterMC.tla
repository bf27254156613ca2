---------------------------- MODULE SmartRouterMC ----------------------------
(* Instances of SmartRouter for TLC. *)
EXTENDS SmartRouter, TLC

CONSTANTS h1, h2, m1, m2

\* m2 is the strong model, so models are not symmetric.
Interchangeable == Permutations(Handlers)
=============================================================================
