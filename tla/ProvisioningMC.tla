---------------------------- MODULE ProvisioningMC ----------------------------
(* Instances of Provisioning for TLC. *)
EXTENDS Provisioning, TLC

CONSTANTS h1, h2, m1

Interchangeable == Permutations(Handlers)
=============================================================================
