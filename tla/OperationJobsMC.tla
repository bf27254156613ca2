--------------------------- MODULE OperationJobsMC ---------------------------
(* Instances of OperationJobs for TLC. *)
EXTENDS OperationJobs, ChangeSetsMC

\* Bound: live previews of the job's ChangeSet, and the execution they allow,
\* are followed only while no other request is in flight.
BrokerRequestsAlone ==
  \A h \in Handlers : req[h].op \in {"live", "execute", "dispatched"} =>
    \A k \in Handlers \ {h} : Free(k)
=============================================================================
