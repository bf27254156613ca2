-------------------------- MODULE ChangeSetsClaims --------------------------
(* What the repository's documents say of ChangeSets, and the code does    *)
(* not do under some interleaving of requests; a run refutes it.           *)
EXTENDS ChangeSets

(* SECURITY.md: "Required approvals are consumed before the broker call".  *)
(* The UPDATE's row count is not checked, so a cancel, reject or bump that *)
(* commits between the checks and the UPDATE leaves nothing to consume.    *)
ConsumedBeforeDispatch ==
  \A t \in Dispatched : \A a \in call[t].grants : approval[a].status = "CONSUMED"
=============================================================================
