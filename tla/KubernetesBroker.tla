-------------------------- MODULE KubernetesBroker --------------------------
(***************************************************************************)
(* The Kubernetes Broker's POST /v1/execute: it admits a signed ticket at  *)
(* most once while the process lives, compares the live state with the     *)
(* hash the ticket carries, changes the cluster and verifies the result.   *)
(* Each request has a thread of its own, and the steps of one are separate *)
(* kubectl or helm processes, so other requests and other users of the     *)
(* cluster act in between.  The set of used signatures is kept in memory.  *)
(*                                                                         *)
(* Signature, plan-hash and scope checks compare immutable data and are    *)
(* taken as passed; a ticket is identified with its signature.             *)
(***************************************************************************)
EXTENDS Naturals

CONSTANTS
  Tickets,      \* execution tickets that exist
  LiveStates,   \* values of the hash of the live resources
  None,         \* a ticket without the live-state precondition
  MaxRestarts   \* bound: restarts of the broker process

VARIABLES
  live,      \* live state of the resources the plans name
  used,      \* _USED_TICKETS
  late,      \* tickets whose expires_at has passed
  progress,  \* how far the request has come that presented each ticket
  applied,   \* how often the command of each ticket was run on the cluster
  restarts   \* restarts so far

brokerVars == <<live, used, late, progress, applied, restarts>>

Running == {"admitted", "checked", "applied"}
Ended == {"done", "failed"}

BrokerInit ==
  /\ live \in LiveStates
  /\ used = {}
  /\ late = {}
  /\ progress = [t \in Tickets |-> "none"]
  /\ applied = [t \in Tickets |-> 0]
  /\ restarts = 0

\* Fault: nothing is remembered of a ticket once it was admitted.
AdmitAgain(t) ==
  /\ t \notin late
  /\ used' = used \cup {t}
  /\ progress' = [progress EXCEPT ![t] = "admitted"]
  /\ UNCHANGED <<live, late, applied, restarts>>

\* _verify_ticket: fresh, unused, and used from now on.  Presenting it again
\* raises 409 and changes nothing.
Admit(t) ==
  /\ t \notin late
  /\ t \notin used
  /\ used' = used \cup {t}
  /\ progress' = [progress EXCEPT ![t] = "admitted"]
  /\ UNCHANGED <<live, late, applied, restarts>>

\* The toolchain and live-state preconditions.  Without a hash in the ticket
\* there is nothing to compare.
CheckDrift(t, expected) ==
  /\ progress[t] = "admitted"
  /\ \/ expected \in {None, live} /\ progress' = [progress EXCEPT ![t] = "checked"]
     \/ progress' = [progress EXCEPT ![t] = "failed"]
  /\ UNCHANGED <<live, used, late, applied, restarts>>

\* kubectl apply, kubectl delete or helm changes the cluster as planned, or
\* fails and leaves nothing, a part or all of the change behind.
Apply(t, desired) ==
  /\ progress[t] = "checked"
  /\ \/ live' = desired /\ progress' = [progress EXCEPT ![t] = "applied"]
     \/ live' \in LiveStates /\ progress' = [progress EXCEPT ![t] = "failed"]
  /\ applied' = [applied EXCEPT ![t] = @ + 1]
  /\ UNCHANGED <<used, late, restarts>>

\* Fault: a verified job gets a state nobody knows.
VerifyUnnamed(t) ==
  /\ progress[t] = "applied"
  /\ progress' = [progress EXCEPT ![t] = "verified"]
  /\ UNCHANGED <<live, used, late, applied, restarts>>

\* Convergence diff, rollout status, helm status: the answer is an error when
\* one of them fails, and what was applied stays applied.
Verify(t) ==
  /\ progress[t] = "applied"
  /\ \E end \in Ended : progress' = [progress EXCEPT ![t] = end]
  /\ UNCHANGED <<live, used, late, applied, restarts>>

TicketLapses(t) ==
  /\ t \notin late
  /\ late' = late \cup {t}
  /\ UNCHANGED <<live, used, progress, applied, restarts>>

\* The process restarts: its threads are gone and so is _USED_TICKETS.
Restart ==
  /\ restarts < MaxRestarts
  /\ restarts' = restarts + 1
  /\ used' = {}
  /\ progress' = [t \in Tickets |-> IF progress[t] \in Running THEN "none" ELSE progress[t]]
  /\ UNCHANGED <<live, late, applied>>

\* Somebody else changes the same resources.
OutsideChange(s) ==
  /\ live' = s
  /\ UNCHANGED <<used, late, progress, applied, restarts>>

BrokerTypeOK ==
  /\ live \in LiveStates
  /\ used \subseteq Tickets
  /\ late \subseteq Tickets
  /\ progress \in [Tickets -> Running \cup Ended \cup {"none"}]
  /\ applied \in [Tickets -> Nat]
  /\ restarts \in Nat

=============================================================================
