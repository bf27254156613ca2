-------------------------- MODULE CredentialSyncMC --------------------------
(* Instances of CredentialSync for TLC. *)
EXTENDS CredentialSync, TLC

CONSTANTS k1, k2, n1, h1, h2

\* k1 has its secret on file and k2 has not, so credentials are not symmetric.
Interchangeable == Permutations(Handlers)
=============================================================================
