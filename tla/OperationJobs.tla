---------------------------- MODULE OperationJobs ----------------------------
(***************************************************************************)
(* Operation jobs: a typed plan of the Operations Center becomes a         *)
(* ChangeSet with one job.  Once the ChangeSet is approved, the job is     *)
(* authorised with a signed ticket, started, and reported on, either by    *)
(* the Control Plane, which calls a trusted executor, or by the bot, for   *)
(* executors that work on their own.                                       *)
(*                                                                         *)
(* The job's ChangeSet goes through the same service as any other, so this *)
(* module adds the job handlers to ChangeSets and keeps the rest of its    *)
(* handlers.  A handler is again a read step and a write step.  Planning   *)
(* and execution are `async def`: from their last SELECT to their commit   *)
(* they keep the event loop.  Authorising and transitions run in threads.  *)
(*                                                                         *)
(* Only the ticket last issued for a job is ever accepted, so the model    *)
(* keeps of it what the checks look at: whether there is one, and whether  *)
(* it is still fresh.                                                      *)
(***************************************************************************)
EXTENDS ChangeSets, Sequences

CONSTANTS
  Trusted,    \* ChangeSets whose job has a trusted runtime executor
  Native      \* ChangeSets with the Kubernetes adapter

ASSUME ExecutorAssumption == Trusted \subseteq Changesets /\ Native \subseteq Changesets
\* _plan_mutation appends ".apply" to an operation with no other marker.
ASSUME JobRiskAssumption == \A c \in Changesets : Risk[c] \in {"HIGH", "CRITICAL"}

VARIABLES
  job,      \* the operation_jobs row of each ChangeSet
  jreq,     \* the job request each handler is serving
  starts    \* the starts so far, each with the approvals it rested on

jobVars == <<job, jreq, starts>>
allVars == <<vars, jobVars>>

-----------------------------------------------------------------------------
JobStates == {"WAITING_APPROVAL", "READY", "RUNNING", "PAUSED", "SUCCEEDED", "FAILED"}
Jobs == [state: JobStates \cup {"NONE"}, ticket: {"none", "fresh", "stale"},
         grants: SUBSET Approvals]
NoJob == [state |-> "NONE", ticket |-> "none", grants |-> {}]

JobRequests == [op: {"idle", "plan", "authorize", "start", "running", "transition"},
                cs: Changesets \cup {None}, grants: SUBSET Approvals,
                gen: Nat, snap: Snapshots \cup {None},
                from: JobStates \cup {"NONE"}, to: JobStates \cup {"NONE"}]
NoJobRequest == [op |-> "idle", cs |-> None, grants |-> {}, gen |-> 0,
                 snap |-> None, from |-> "NONE", to |-> "NONE"]

Free(h) == req[h] = Idle /\ jreq[h] = NoJobRequest
ServeJob(h, r) == Free(h) /\ jreq' = [jreq EXCEPT ![h] = r]
AnswerJob(h) == jreq' = [jreq EXCEPT ![h] = NoJobRequest]
JobOn(op, c) == [NoJobRequest EXCEPT !.op = op, !.cs = c]
SetJob(c, s) == job' = [job EXCEPT ![c] = [@ EXCEPT !.state = s]]

\* The transition table of the handler.
Allowed(s) ==
  CASE s = "READY" -> {"RUNNING", "FAILED"}
    [] s = "RUNNING" -> {"RUNNING", "PAUSED", "SUCCEEDED", "FAILED"}
    [] s = "PAUSED" -> {"RUNNING", "FAILED"}
    [] OTHER -> {}

\* _verify_operation_job_authorization: the whole governance of the job,
\* looked at again.
Authorized(c, grants) ==
  /\ Row(c, {IF ApprovalRequired(c) THEN "APPROVED" ELSE "PREVIEWED"})
  /\ CurrentPolicy(c)
  /\ target = plan[c].snap
  /\ Quorum(c, grants)

\* The ticket is the one on record, and the approvals it was issued for are
\* still the ones the job would be authorised with.
TicketHolds(c) == job[c].ticket = "fresh" /\ Authorized(c, job[c].grants)

JobInit ==
  /\ Init
  /\ job = [c \in Changesets |-> NoJob]
  /\ jreq = [h \in Handlers |-> NoJobRequest]
  /\ starts = <<>>

ReadOnlyJob == UNCHANGED <<gen, target, plan, state, preview, overdue, approval,
                           call, req, crashes, job, starts>>

-----------------------------------------------------------------------------
(* Planning *)

\* Whatever the planner awaited for its preview is over by now.
PlanRead(h, c) ==
  /\ LoopFree
  /\ ~Stored(c)
  /\ target \in Configured
  /\ ServeJob(h, [JobOn("plan", c) EXCEPT !.gen = gen, !.snap = target])
  /\ loop' = h
  /\ ReadOnlyJob

PlanWrite(h) ==
  LET r == jreq[h] IN
  /\ r.op = "plan"
  /\ plan' = [plan EXCEPT ![r.cs] = [gen |-> r.gen, snap |-> r.snap, source |-> None]]
  /\ SetState(r.cs, "PREVIEWED")
  /\ preview' = [preview EXCEPT ![r.cs] = PlannerPreview]
  /\ SetJob(r.cs, "WAITING_APPROVAL")
  /\ AnswerJob(h)
  /\ loop' = None
  /\ UNCHANGED <<gen, target, overdue, approval, call, req, crashes, starts>>

-----------------------------------------------------------------------------
(* Authorising *)

AuthorizeRead(h, c) ==
  /\ job[c].state \in {"WAITING_APPROVAL", "READY"}
  /\ \E grants \in SUBSET Approvals :
       /\ Authorized(c, grants)
       /\ ServeJob(h, [JobOn("authorize", c) EXCEPT !.grants = grants])
  /\ UNCHANGED loop
  /\ ReadOnlyJob

\* Issues the ticket and makes the job READY, whatever it is by now.
AuthorizeWrite(h) ==
  LET r == jreq[h] IN
  /\ r.op = "authorize"
  /\ job' = [job EXCEPT ![r.cs] = [state |-> "READY", ticket |-> "fresh",
                                   grants |-> r.grants]]
  /\ AnswerJob(h)
  /\ UNCHANGED <<gen, target, plan, state, preview, overdue, approval, call, req,
                 loop, crashes, starts>>

-----------------------------------------------------------------------------
(* Starting a job: shared by execute and by the bot's transition to RUNNING *)

Unspent(grants) == \A a \in grants : approval[a].status = "APPROVED"

\* Fault: the number of rows the UPDATE changed is not compared.
StartUncounted(r) ==
  /\ approval' = [a \in Approvals |->
       IF a \in r.grants /\ approval[a].status = "APPROVED"
         THEN [approval[a] EXCEPT !.status = "CONSUMED"] ELSE approval[a]]
  /\ SetJob(r.cs, "RUNNING")
  /\ SetState(r.cs, "EXECUTING")
  /\ starts' = Append(starts, [cs |-> r.cs, grants |-> r.grants])

\* The UPDATE must change as many approvals as the ticket names.
Start(r) ==
  /\ Unspent(r.grants)
  /\ approval' = [a \in Approvals |->
       IF a \in r.grants THEN [approval[a] EXCEPT !.status = "CONSUMED"] ELSE approval[a]]
  /\ SetJob(r.cs, "RUNNING")
  /\ SetState(r.cs, "EXECUTING")
  /\ starts' = Append(starts, [cs |-> r.cs, grants |-> r.grants])

-----------------------------------------------------------------------------
(* Execution by the Control Plane *)

ExecuteJobRead(h, c) ==
  /\ LoopFree
  /\ c \in Trusted
  /\ job[c].state = "READY"
  /\ TicketHolds(c)
  /\ ServeJob(h, [JobOn("start", c) EXCEPT !.grants = job[c].grants])
  /\ loop' = h
  /\ ReadOnlyJob

ExecuteJobWrite(h) ==
  /\ jreq[h].op = "start"
  /\ Start(jreq[h])
  /\ jreq' = [jreq EXCEPT ![h] = JobOn("running", jreq[h].cs)]
  /\ loop' = None
  /\ UNCHANGED <<gen, target, plan, preview, overdue, call, req, crashes>>

\* "operation approval consumption race detected": the transaction is undone.
ExecuteJobRefused(h) ==
  /\ jreq[h].op = "start" /\ ~Unspent(jreq[h].grants)
  /\ AnswerJob(h)
  /\ loop' = None
  /\ ReadOnlyJob

\* The executor passed every check; or it failed some, or the call raised.
JobEnds(h, jobState, csState) ==
  /\ LoopFree
  /\ jreq[h].op = "running"
  /\ SetJob(jreq[h].cs, jobState)
  /\ SetState(jreq[h].cs, csState)
  /\ AnswerJob(h)
  /\ UNCHANGED <<gen, target, plan, preview, overdue, approval, call, req, loop,
                 crashes, starts>>

\* Fault: the job gets the state name of its ChangeSet.
JobSucceedsAsChangeset(h) == JobEnds(h, "EXECUTED", "EXECUTED")
JobSucceeds(h) == JobEnds(h, "SUCCEEDED", "EXECUTED")
JobFails(h) == JobEnds(h, "FAILED", "FAILED")

\* The result holds no usable verification: the handler raises after _changeset
\* may have made the row EXPIRED, and the job is left as it was.
ResultMalformed(h) ==
  LET c == jreq[h].cs IN
  /\ LoopFree
  /\ jreq[h].op = "running"
  /\ SetState(c, IF c \in overdue /\ state[c] \notin Terminal THEN "EXPIRED" ELSE state[c])
  /\ AnswerJob(h)
  /\ UNCHANGED <<gen, target, plan, preview, overdue, approval, call, req, loop,
                 crashes, job, starts>>

-----------------------------------------------------------------------------
(* Transitions reported by the bot *)

\* Fault: an outcome may be reported of a job that was never started.
TransitionReadAnyState(h, c, to) ==
  /\ to \in Allowed("RUNNING")
  /\ job[c].ticket # "none" /\ Stored(c)
  /\ ServeJob(h, [JobOn("transition", c) EXCEPT
       !.from = "RUNNING", !.to = to, !.grants = job[c].grants])
  /\ UNCHANGED loop
  /\ ReadOnlyJob

\* A READY job is authorised all over again; for a running one the ticket may
\* be of any age, and the ChangeSet must still be EXECUTING.
TransitionRead(h, c, to) ==
  /\ to \in Allowed(job[c].state)
  /\ IF job[c].state = "READY"
       THEN TicketHolds(c)
       ELSE Row(c, {"EXECUTING"}) /\ job[c].ticket # "none"
  /\ ServeJob(h, [JobOn("transition", c) EXCEPT
       !.from = job[c].state, !.to = to, !.grants = job[c].grants])
  /\ UNCHANGED loop
  /\ ReadOnlyJob

TransitionStarts(h) ==
  LET r == jreq[h] IN
  /\ r.op = "transition" /\ r.from = "READY" /\ r.to = "RUNNING"
  /\ Start(r)
  /\ AnswerJob(h)
  /\ UNCHANGED <<gen, target, plan, preview, overdue, call, req, loop, crashes>>

TransitionRefused(h) ==
  LET r == jreq[h] IN
  /\ r.op = "transition" /\ r.from = "READY" /\ r.to = "RUNNING"
  /\ ~Unspent(r.grants)
  /\ AnswerJob(h)
  /\ UNCHANGED loop
  /\ ReadOnlyJob

\* The row is written as it is by now, not as it was read.
TransitionWrite(h) ==
  LET r == jreq[h] IN
  /\ r.op = "transition" /\ ~(r.from = "READY" /\ r.to = "RUNNING")
  /\ SetJob(r.cs, r.to)
  /\ SetState(r.cs, CASE r.to = "SUCCEEDED" -> "EXECUTED"
                      [] r.to = "FAILED" -> "FAILED"
                      [] OTHER -> state[r.cs])
  /\ AnswerJob(h)
  /\ UNCHANGED <<gen, target, plan, preview, overdue, approval, call, req, loop,
                 crashes, starts>>

LapseTicket(c) ==
  /\ job[c].ticket = "fresh"
  /\ job' = [job EXCEPT ![c] = [@ EXCEPT !.ticket = "stale"]]
  /\ UNCHANGED <<vars, jreq, starts>>

-----------------------------------------------------------------------------
(* Together with the handlers of ChangeSets *)

\* Plans are made by PlanRead; live previews and the execution they allow are
\* for the Kubernetes adapter.
BeginOther(h) ==
  /\ Free(h)
  /\ Begin(h)
  /\ req'[h].op # "create"
  /\ req'[h].op \in {"live", "execute"} => req'[h].cs \in Native
  /\ UNCHANGED jobVars

\* The broker's /v1/preview knows none of the Operations Center's operations.
AnswerOther(h) ==
  /\ Answers(h)
  /\ req[h].op = "live" => req'[h].reply # "ok"
  /\ UNCHANGED jobVars

OutsideOther ==
  /\ Outside
  /\ jreq' = IF crashes' = crashes THEN jreq ELSE [h \in Handlers |-> NoJobRequest]
  /\ UNCHANGED <<job, starts>>

JobStep(h) ==
  \/ \E c \in Changesets : PlanRead(h, c)
  \/ PlanWrite(h)
  \/ \E c \in Changesets : AuthorizeRead(h, c)
  \/ AuthorizeWrite(h)
  \/ \E c \in Changesets : ExecuteJobRead(h, c)
  \/ ExecuteJobWrite(h)
  \/ ExecuteJobRefused(h)
  \/ JobSucceeds(h)
  \/ JobFails(h)
  \/ ResultMalformed(h)
  \/ \E c \in Changesets, to \in JobStates : TransitionRead(h, c, to)
  \/ TransitionStarts(h)
  \/ TransitionRefused(h)
  \/ TransitionWrite(h)

JobNext ==
  \/ OutsideOther
  \/ \E h \in Handlers : \/ BeginOther(h)
                         \/ Finish(h) /\ UNCHANGED jobVars
                         \/ AnswerOther(h)
                         \/ JobStep(h)
  \/ \E c \in Changesets : LapseTicket(c)

JobSpec == JobInit /\ [][JobNext]_allVars

-----------------------------------------------------------------------------
(* Properties *)

(* The job table and the job requests keep their shape, and so do the      *)
(* ChangeSet service's own variables when job handlers write to them.      *)
JobTypeOK ==
  /\ TypeOK
  /\ job \in [Changesets -> Jobs]
  /\ jreq \in [Handlers -> JobRequests]
  /\ starts \in Seq([cs: Changesets, grants: SUBSET Approvals])

(* README.md: "one-time approval consumption at start".  Every start of a  *)
(* job rests on approvals that were consumed for it, by as many different  *)
(* people as its risk asks for, for that ChangeSet and none of them its    *)
(* author; no interleaving of cancel, reject or bump takes that away.      *)
StartsOnConsumedQuorum ==
  \A i \in DOMAIN starts :
    LET c == starts[i].cs
        grants == starts[i].grants
    IN /\ \A a \in grants : /\ approval[a].status = "CONSUMED"
                            /\ approval[a].cs = c /\ approval[a].by # Author[c]
       /\ Cardinality({approval[a].by : a \in grants}) >= Required(c)

(* A job that runs, pauses or succeeded was started on approvals, and a    *)
(* ChangeSet that is executing or EXECUTED had a start or a broker call:   *)
(* no late report makes an operation look done that nobody ran.            *)
OutcomeHasStart ==
  \A c \in Changesets :
    LET started == \E i \in DOMAIN starts : starts[i].cs = c
    IN /\ job[c].state \in {"RUNNING", "PAUSED", "SUCCEEDED"} => started
       /\ state[c] \in {"EXECUTING", "EXECUTED"} =>
            started \/ \E t \in Dispatched : call[t].cs = c

(* Seen from outside, starts obey CheckedGrant: at the moment a job starts *)
(* none of its approvals is withdrawn and none has started a job before,   *)
(* whatever other requests are in flight.                                  *)
Checked == INSTANCE CheckedGrant WITH
  given <- {a \in Approvals : approval[a].status # "NONE"},
  revoked <- {a \in Approvals : approval[a].status \in Withdrawn},
  uses <- [i \in DOMAIN starts |-> starts[i].grants]

KeepsCheckedPromise == Checked!CheckedSpec

=============================================================================
