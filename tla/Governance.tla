----------------------------- MODULE Governance -----------------------------
(***************************************************************************)
(* The Control Plane and the Kubernetes Broker together.  A dispatched     *)
(* call carries a ticket to the broker; the broker's answer, or the lack   *)
(* of one, is what the waiting handler of execute_changeset acts on.  The  *)
(* client gives up before the broker does: kubernetes.post waits 180 s, a  *)
(* helm command may run 360 s and a rollout check adds its own, so an      *)
(* error can be answered for a job that is still running.                  *)
(***************************************************************************)
EXTENDS ChangeSets

CONSTANTS
  Desired,       \* Desired[c]: live state the plan of c asks for
  MaxRestarts,   \* bound: restarts of the broker
  Intruders      \* live states that others may put in place

ASSUME GovernanceAssumption ==
  /\ Desired \in [Changesets -> LiveStates]
  /\ Intruders \subseteq LiveStates
  /\ MaxRestarts \in Nat

VARIABLES live, used, late, progress, applied, restarts

Broker == INSTANCE KubernetesBroker

brokerState == <<live, used, late, progress, applied, restarts>>
governanceVars == <<vars, brokerState>>

GovernanceInit == Init /\ Broker!BrokerInit

\* The broker's POST /v1/preview reads the live state, or refuses, or fails.
PreviewAnswer(h) ==
  /\ req[h].op = "live"
  /\ \/ Reply(h, "ok", live)
     \/ Reply(h, "denied", None)
     \/ Reply(h, "error", None)

\* Fault: the broker answers as soon as it has admitted the ticket.
AnswerOnAdmission(h) ==
  /\ req[h].op = "dispatched"
  /\ \/ progress[req[h].ticket] # "none" /\ Reply(h, "ok", None)
     \/ Reply(h, "error", None)

\* A 200 answer means the job ended well; an error may mean anything: refused,
\* failed, the broker gone, or the client's timeout.
ExecuteAnswer(h) ==
  /\ req[h].op = "dispatched"
  /\ \/ progress[req[h].ticket] = "done" /\ Reply(h, "ok", None)
     \/ Reply(h, "error", None)

ControlPlaneStep ==
  \/ Outside
  \/ \E h \in Handlers : Begin(h) \/ Finish(h) \/ PreviewAnswer(h) \/ ExecuteAnswer(h)

BrokerWork(t) ==
  \/ Broker!CheckDrift(t, call[t].hash)
  \/ Broker!Apply(t, Desired[call[t].cs])
  \/ Broker!Verify(t)

BrokerStep ==
  \/ \E t \in Dispatched : Broker!Admit(t) \/ BrokerWork(t) \/ Broker!TicketLapses(t)
  \/ Broker!Restart
  \/ \E s \in Intruders : Broker!OutsideChange(s)

GovernanceNext ==
  \/ ControlPlaneStep /\ UNCHANGED brokerState
  \/ BrokerStep /\ UNCHANGED vars

GovernanceSpec == GovernanceInit /\ [][GovernanceNext]_governanceVars

\* A started request goes on: the thread pool and the FIFO event loop run every
\* ready handler, and httpx bounds the wait for the broker (TIMEOUT, 180 s).
\* Every kubectl and helm command of the broker runs under a timeout, so an
\* admitted job goes on as well.
GovernanceFairSpec ==
  /\ GovernanceSpec
  /\ \A h \in Handlers : /\ SF_governanceVars(Finish(h) /\ UNCHANGED brokerState)
                         /\ WF_governanceVars((PreviewAnswer(h) \/ ExecuteAnswer(h))
                                         /\ UNCHANGED brokerState)
  /\ \A t \in Tickets : WF_governanceVars(BrokerWork(t) /\ UNCHANGED vars)

-----------------------------------------------------------------------------
(* The broker's tables keep their shape.                                   *)
BrokerTypeOK == Broker!BrokerTypeOK

(* The cluster changes at most once on the strength of an approval, as     *)
(* long as the broker does not lose its used tickets by a restart: the     *)
(* Control Plane puts an approval behind one ticket, and the broker admits *)
(* a ticket once, however often it is presented and whatever timed out.    *)
GrantAppliesOnce ==
  \A a \in Approvals, s, t \in Dispatched :
    a \in call[s].grants \cap call[t].grants =>
      s = t /\ applied[t] <= 1 + restarts

(* EXECUTED is never only a promise: the broker has applied that plan to   *)
(* the cluster, even when calls time out, jobs fail and requests race.     *)
ExecutedReachedCluster ==
  \A c \in Changesets : Stored(c) /\ state[c] = "EXECUTED" =>
    \E t \in Dispatched : call[t].cs = c /\ applied[t] > 0

(* A job the broker has admitted ends, and the ChangeSet waiting for it is *)
(* settled, whether the answer arrives, is an error or comes too late.     *)
DispatchSettles ==
  /\ \A t \in Tickets : progress[t] \in Broker!Running ~> progress[t] \notin Broker!Running
  /\ \A c \in Changesets :
       state[c] = "EXECUTING" ~> (state[c] # "EXECUTING" \/ crashes > 0)
=============================================================================
