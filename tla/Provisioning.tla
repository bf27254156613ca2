----------------------------- MODULE Provisioning -----------------------------
(***************************************************************************)
(* Provisioning a cluster: a run of the Cluster Factory with its ChangeSet *)
(* and its provider job in the Control Plane, and the cluster-provider     *)
(* worker of the Node Agent, which runs the playbooks.  The two share only *)
(* a signed ticket.  The Control Plane stops waiting for an answer after a *)
(* while, the worker goes on.                                              *)
(*                                                                         *)
(* A handler reads, decides, and then writes rows by their id; others run  *)
(* in between.  execute_provider_job is `async def`: it has the event loop *)
(* to itself from its SELECTs to its commit.  Of the ChangeSet service     *)
(* (module ChangeSets) the handlers are kept that approve or close the     *)
(* run's ChangeSet, with their late writes.                                *)
(*                                                                         *)
(* There is one cluster, and its server list does not change.  What only   *)
(* ever makes a check fail is not kept: the ticket or an approval expires, *)
(* the artifact manifest drifts.  A check may always fail.                 *)
(***************************************************************************)
EXTENDS Naturals, FiniteSets

CONSTANTS
  Handlers,       \* requests under way together
  Plans,          \* plan hashes; two runs of a cluster may well have the same
  None,           \* no plan
  MaxRuns, MaxApprovals, MaxTickets,  \* bounds: rows and tickets there can be
  MaxAttempts,    \* attempts of a provider job
  MaxGen,         \* bound: policy generations
  MaxFailures     \* bound: how often each of the two processes may die

ASSUME NoneAssumption == None \notin Plans
ASSUME BoundsAssumption ==
  /\ MaxRuns \in Nat \ {0} /\ MaxApprovals \in Nat /\ MaxTickets \in Nat
  /\ MaxAttempts \in Nat \ {0} /\ MaxGen \in Nat \ {0} /\ MaxFailures \in Nat

Runs == 1 .. MaxRuns
Approvals == 1 .. MaxApprovals
Tickets == 1 .. MaxTickets

VARIABLES
  server,      \* the coordinator server is in the inventory
  gen,         \* policy generation
  cluster,     \* state of the cluster row
  run,         \* the provisioning_runs rows; their state is never read back
  cs,          \* state of each run's ChangeSet
  approval,    \* the approvals rows
  job,         \* the provider job of each run
  ticket,      \* tickets signed
  req,         \* the request each handler is serving
  used,        \* worker: tickets it remembers
  exec,        \* worker: what each ticket has led to
  begun,       \* how often the worker has begun each ticket's playbooks
  work,        \* worker: whose directory there is for each plan hash
  crashes,     \* how often the Control Plane has died,
  restarts     \* and the worker

environment == <<server, gen>>
rows == <<cluster, run, cs, approval, job>>
worker == <<used, exec, begun, work>>
deaths == <<crashes, restarts>>
vars == <<environment, rows, ticket, req, worker, deaths>>

-----------------------------------------------------------------------------
JobStates == {"WAITING_APPROVAL", "READY", "RUNNING", "PAUSED", "SUCCEEDED", "FAILED"}
\* CLOSED: rejected, cancelled, expired or made stale.
ChangeSetStates == {"NONE", "PENDING", "APPROVED", "EXECUTING", "EXECUTED", "FAILED", "CLOSED"}
RunRows == [plan: Plans \cup {None}, gen: 0 .. MaxGen]
NoRun == [plan |-> None, gen |-> 0]
Jobs == [state: JobStates \cup {"NONE"}, attempt: 1 .. MaxAttempts, ticket: Tickets \cup {0}]
NoJob == [state |-> "NONE", attempt |-> 1, ticket |-> 0]
ApprovalRows == [run: Runs \cup {0}, status: {"NONE", "APPROVED", "CONSUMED", "WITHDRAWN"}]
NoApproval == [run |-> 0, status |-> "NONE"]
\* grant: the approval it was issued on.
TicketRows == [run: Runs \cup {0}, grant: Approvals \cup {0}]
NoTicket == [run |-> 0, grant |-> 0]

ClusterStates == {"DRAFT", "PLANNED", "PROVISIONING", "READY", "ERROR"}
Progress == {"none", "apply", "verify", "ok", "failed"}
Ops == {"idle", "plan", "approve", "close", "authorize", "transition", "retry", "refresh",
        "delete", "execute", "calling", "waiting", "answered"}
\* n: the generation, ticket or attempt in hand; grant: the approval; to: a job
\* state to write, or one that was read; plan: what was planned.
Requests == [op: Ops, run: Runs \cup {0}, n: Nat, grant: Approvals \cup {0},
             to: JobStates \cup {"NONE"}, plan: Plans \cup {None}]
Request(op, r, n, a, to) ==
  [op |-> op, run |-> r, n |-> n, grant |-> a, to |-> to, plan |-> None]
Idle == Request("idle", 0, 0, 0, "NONE")

Serve(h, request) == req[h] = Idle /\ req' = [req EXCEPT ![h] = request]
Goto(h, op, to) == req' = [req EXCEPT ![h] = Request(op, @.run, @.n, @.grant, to)]
Reply(h) == req' = [req EXCEPT ![h] = Idle]
ReadOnly == UNCHANGED <<environment, rows, ticket, worker, deaths>>
LoopFree == \A h \in Handlers : req[h].op # "execute"

\* Ids are given in order.
New(row, none, S) == {i \in S : row[i] = none /\ \A k \in S : k < i => row[k] # none}

\* The code takes the first of them by the time of issue, which is not kept.
Standing(r) == {a \in Approvals : approval[a] = [run |-> r, status |-> "APPROVED"]}

\* _provider_job_authorization
Authorized(r) ==
  /\ job[r] # NoJob
  /\ cs[r] = "APPROVED" /\ run[r].gen = gen

\* An UPDATE by the job's id does nothing once the row is deleted.
SetJob(r, s, attempt, t) ==
  job' = IF job[r] = NoJob THEN job
         ELSE [job EXCEPT ![r] = [state |-> s, attempt |-> attempt, ticket |-> t]]
SetApprovals(S, status) ==
  approval' = [a \in Approvals |->
    IF a \in S THEN [run |-> approval[a].run, status |-> status] ELSE approval[a]]

Init ==
  /\ server = TRUE /\ gen = 1
  /\ cluster = "DRAFT"
  /\ run = [r \in Runs |-> NoRun]
  /\ cs = [r \in Runs |-> "NONE"]
  /\ approval = [a \in Approvals |-> NoApproval]
  /\ job = [r \in Runs |-> NoJob]
  /\ ticket = [t \in Tickets |-> NoTicket]
  /\ req = [h \in Handlers |-> Idle]
  /\ used = {}
  /\ exec = [t \in Tickets |-> "none"]
  /\ begun = [t \in Tickets |-> 0]
  /\ work = [p \in Plans |-> 0]
  /\ crashes = 0 /\ restarts = 0

-----------------------------------------------------------------------------
(* The run and its ChangeSet *)

PlanRead(h) ==
  /\ server
  /\ cluster \in {"DRAFT", "ERROR"}
  /\ \E p \in Plans : Serve(h, [Request("plan", 0, gen, 0, "NONE") EXCEPT !.plan = p])
  /\ ReadOnly

\* The job's row refers to the server; the INSERT fails when that is gone.
PlanWrite(h) ==
  /\ req[h].op = "plan"
  /\ Reply(h)
  /\ IF server
       THEN \E r \in New(run, NoRun, Runs) :
              /\ run' = [run EXCEPT ![r] = [plan |-> req[h].plan, gen |-> req[h].n]]
              /\ cs' = [cs EXCEPT ![r] = "PENDING"]
              /\ job' = [job EXCEPT ![r] = [state |-> "WAITING_APPROVAL", attempt |-> 1,
                                            ticket |-> 0]]
              /\ cluster' = "PLANNED"
              /\ UNCHANGED approval
       ELSE UNCHANGED rows
  /\ UNCHANGED <<environment, ticket, worker, deaths>>

ApproveRead(h, r) ==
  /\ cs[r] = "PENDING" /\ run[r].gen = gen
  /\ Serve(h, Request("approve", r, 0, 0, "NONE"))
  /\ ReadOnly

ApproveWrite(h) ==
  /\ req[h].op = "approve"
  /\ \E a \in New(approval, NoApproval, Approvals) :
       approval' = [approval EXCEPT ![a] =
         [run |-> req[h].run, status |-> "APPROVED"]]
  /\ cs' = [cs EXCEPT ![req[h].run] = "APPROVED"]
  /\ Reply(h)
  /\ UNCHANGED <<environment, cluster, run, job, ticket, worker, deaths>>

\* A preview or request_approval asks the same, and writes one of the states
\* that wait for approvals.
AskWrite(h) ==
  /\ req[h].op = "approve"
  /\ cs' = [cs EXCEPT ![req[h].run] = "PENDING"]
  /\ Reply(h)
  /\ UNCHANGED <<environment, cluster, run, approval, job, ticket, worker, deaths>>

CloseRead(h, r) ==
  /\ cs[r] \in {"PENDING", "APPROVED", "EXECUTING"}
  /\ Serve(h, Request("close", r, 0, 0, "NONE"))
  /\ ReadOnly

\* Expiry leaves the approvals alone.
CloseWrite(h) ==
  /\ req[h].op = "close"
  /\ cs' = [cs EXCEPT ![req[h].run] = "CLOSED"]
  /\ \E S \in {{}, Standing(req[h].run)} : SetApprovals(S, "WITHDRAWN")
  /\ Reply(h)
  /\ UNCHANGED <<environment, cluster, run, job, ticket, worker, deaths>>

Bump ==
  LET active == {r \in Runs : cs[r] \in {"PENDING", "APPROVED"}} IN
  /\ gen < MaxGen /\ gen' = gen + 1
  /\ cs' = [r \in Runs |-> IF r \in active THEN "CLOSED" ELSE cs[r]]
  /\ SetApprovals(UNION {Standing(r) : r \in active}, "WITHDRAWN")
  /\ UNCHANGED <<server, cluster, run, job, ticket, req, worker, deaths>>

-----------------------------------------------------------------------------
(* The provider job: authorize, transition, retry and resume *)

AuthorizeRead(h, r) ==
  /\ job[r].state = "WAITING_APPROVAL" /\ Authorized(r)
  /\ \E a \in Standing(r) : Serve(h, Request("authorize", r, 0, a, "NONE"))
  /\ ReadOnly

\* Only the ticket last signed counts for the job.
AuthorizeWrite(h) ==
  LET r == req[h].run IN
  /\ req[h].op = "authorize"
  /\ \E t \in New(ticket, NoTicket, Tickets) :
       /\ ticket' = [ticket EXCEPT ![t] = [run |-> r, grant |-> req[h].grant]]
       /\ SetJob(r, "READY", job[r].attempt, t)
  /\ Reply(h)
  /\ UNCHANGED <<environment, cluster, run, cs, approval, worker, deaths>>

Allowed(s) == CASE s = "READY" -> {"RUNNING", "FAILED"}
                [] s = "RUNNING" -> {"RUNNING", "PAUSED", "SUCCEEDED", "FAILED"}
                [] OTHER -> {}

\* The bot reports on the job itself.  No ticket is asked for, nor an approval
\* that still stands.
TransitionRead(h, r) ==
  /\ Authorized(r)
  /\ \E to \in Allowed(job[r].state) : Serve(h, Request("transition", r, 0, 0, to))
  /\ ReadOnly

TransitionWrite(h) ==
  LET r == req[h].run IN
  /\ req[h].op = "transition"
  /\ SetJob(r, req[h].to, job[r].attempt, job[r].ticket)
  /\ Reply(h)
  /\ UNCHANGED <<environment, cluster, run, cs, approval, ticket, worker, deaths>>

\* retry counts an attempt, resume does not.
\* Fault: the limit is off by one.
RetryReadOnceMore(h, r) ==
  /\ Authorized(r)
  /\ \/ /\ job[r].state = "FAILED" /\ job[r].attempt <= MaxAttempts
        /\ Serve(h, Request("retry", r, job[r].attempt + 1, 0, "NONE"))
     \/ /\ job[r].state = "PAUSED"
        /\ Serve(h, Request("retry", r, job[r].attempt, 0, "NONE"))
  /\ ReadOnly
RetryRead(h, r) ==
  /\ Authorized(r)
  /\ \/ /\ job[r].state = "FAILED" /\ job[r].attempt < MaxAttempts
        /\ Serve(h, Request("retry", r, job[r].attempt + 1, 0, "NONE"))
     \/ /\ job[r].state = "PAUSED"
        /\ Serve(h, Request("retry", r, job[r].attempt, 0, "NONE"))
  /\ ReadOnly

RetryWrite(h) ==
  LET r == req[h].run IN
  /\ req[h].op = "retry"
  /\ SetJob(r, "READY", req[h].n, job[r].ticket)
  /\ Reply(h)
  /\ UNCHANGED <<environment, cluster, run, cs, approval, ticket, worker, deaths>>

\* What refresh_provisioning_run makes of the job's state.
Refreshed(s) == CASE s = "SUCCEEDED" -> "READY"
                  [] s = "FAILED" -> "ERROR"
                  [] s = "RUNNING" -> "PROVISIONING"
                  [] OTHER -> "PLANNED"

RefreshRead(h, r) ==
  /\ job[r] # NoJob
  /\ Serve(h, Request("refresh", r, 0, 0, job[r].state))
  /\ ReadOnly

\* The cluster takes it over from any run, an earlier one too.
RefreshWrite(h) ==
  /\ req[h].op = "refresh"
  /\ cluster' = Refreshed(req[h].to)
  /\ Reply(h)
  /\ UNCHANGED <<environment, run, cs, approval, job, ticket, worker, deaths>>

\* delete_server takes the server's jobs along, once they are over.
DeleteRead(h) ==
  /\ server
  /\ \A r \in Runs : job[r] = NoJob \/ job[r].state \in {"SUCCEEDED", "FAILED"}
  /\ Serve(h, Request("delete", 0, 0, 0, "NONE"))
  /\ ReadOnly

DeleteWrite(h) ==
  /\ req[h].op = "delete"
  /\ server' = FALSE
  /\ job' = [r \in Runs |-> NoJob]
  /\ Reply(h)
  /\ UNCHANGED <<gen, cluster, run, cs, approval, ticket, worker, deaths>>

-----------------------------------------------------------------------------
(* execute_provider_job *)

\* The approval the ticket was issued on is the one the job would be authorised
\* with now.
\* Fault: any approval that stands will do.
HoldsOnAny(t, a) == a \in Standing(ticket[t].run)
Holds(t, a) == a \in Standing(ticket[t].run) /\ ticket[t].grant = a

ExecuteRead(h, t) ==
  LET r == ticket[t].run IN
  /\ LoopFree
  /\ ticket[t] # NoTicket
  /\ job[r].state = "READY" /\ job[r].ticket = t /\ Authorized(r)
  /\ \E a \in Approvals :
       Holds(t, a) /\ Serve(h, Request("execute", r, t, a, "NONE"))
  /\ ReadOnly

\* The approval is consumed if it is still there to consume; everything else is
\* written whatever it has become.
ExecuteWrite(h) ==
  LET r == req[h].run
      a == req[h].grant
  IN
  /\ req[h].op = "execute"
  /\ IF approval[a].status = "APPROVED"
       THEN /\ SetApprovals({a}, "CONSUMED")
            /\ SetJob(r, "RUNNING", job[r].attempt, job[r].ticket)
            /\ cs' = [cs EXCEPT ![r] = "EXECUTING"]
            /\ cluster' = "PROVISIONING"
            /\ UNCHANGED run
            /\ Goto(h, "calling", "NONE")
       ELSE Reply(h) /\ UNCHANGED rows
  /\ UNCHANGED <<environment, ticket, worker, deaths>>

\* The call fails before a playbook has begun: the worker is not there, refuses
\* the ticket, or finds something else amiss once it has taken it.
Refused(h) ==
  /\ req[h].op = "calling"
  /\ used' \in {used, used \cup {req[h].n}}
  /\ Goto(h, "answered", "FAILED")
  /\ UNCHANGED <<environment, rows, ticket, exec, begun, work, deaths>>

\* The worker removes a directory that is there for the plan, and makes its own.
Begin(h) ==
  LET t == req[h].n IN
  /\ req[h].op = "calling"
  /\ t \notin used
  /\ used' = used \cup {t}
  /\ exec' = [exec EXCEPT ![t] = "apply"]
  /\ begun' = [begun EXCEPT ![t] = @ + 1]
  /\ work' = [work EXCEPT ![run[ticket[t].run].plan] = t]
  /\ Goto(h, "waiting", "NONE")
  /\ UNCHANGED <<environment, rows, ticket, deaths>>

\* The playbooks of the operation, then the one that verifies.  The directory
\* goes at the end, whoever made it.
Play(t) ==
  \/ /\ exec[t] = "apply"
     /\ exec' = [exec EXCEPT ![t] = "verify"]
     /\ UNCHANGED <<environment, rows, ticket, req, used, begun, work, deaths>>
  \/ /\ exec[t] \in {"apply", "verify"}
     /\ \E end \in {"ok", "failed"} :
          /\ end = "ok" => exec[t] = "verify"
          /\ exec' = [exec EXCEPT ![t] = end]
     /\ work' = [work EXCEPT ![run[ticket[t].run].plan] = 0]
     /\ UNCHANGED <<environment, rows, ticket, req, used, begun, deaths>>

\* Fault: the answer does not wait for the verification.
DeliverUnverified(h) ==
  /\ req[h].op = "waiting"
  /\ exec[req[h].n] \in {"verify", "ok", "failed"}
  /\ Goto(h, "answered", IF exec[req[h].n] = "failed" THEN "FAILED" ELSE "SUCCEEDED")
  /\ UNCHANGED <<environment, rows, ticket, worker, deaths>>
Deliver(h) ==
  /\ req[h].op = "waiting"
  /\ exec[req[h].n] \in {"ok", "failed"}
  /\ Goto(h, "answered", IF exec[req[h].n] = "ok" THEN "SUCCEEDED" ELSE "FAILED")
  /\ UNCHANGED <<environment, rows, ticket, worker, deaths>>

\* No answer within the client's timeout, or the connection is lost.
GiveUp(h) ==
  /\ req[h].op = "waiting"
  /\ Goto(h, "answered", "FAILED")
  /\ UNCHANGED <<environment, rows, ticket, worker, deaths>>

\* Both endings of execute_provider_job.  A worker that answers at all returns
\* checks that pass.  When the job has disappeared, nothing is written.
\* Fault: the handler of the worker's errors only passes them on.
RecordSuccess(h) ==
  LET r == req[h].run IN
  /\ req[h].op = "answered" /\ LoopFree
  /\ IF job[r] = NoJob \/ req[h].to = "FAILED"
       THEN UNCHANGED rows
       ELSE /\ SetJob(r, req[h].to, job[r].attempt, job[r].ticket)
            /\ cs' = [cs EXCEPT ![r] = "EXECUTED"]
            /\ cluster' = "READY"
            /\ UNCHANGED <<run, approval>>
  /\ Reply(h)
  /\ UNCHANGED <<environment, ticket, worker, deaths>>
Record(h) ==
  LET r == req[h].run
      ok == req[h].to = "SUCCEEDED"
  IN
  /\ req[h].op = "answered" /\ LoopFree
  /\ IF job[r] = NoJob
       THEN UNCHANGED rows
       ELSE /\ SetJob(r, req[h].to, job[r].attempt, job[r].ticket)
            /\ cs' = [cs EXCEPT ![r] = IF ok THEN "EXECUTED" ELSE "FAILED"]
            /\ cluster' = IF ok THEN "READY" ELSE "ERROR"
            /\ UNCHANGED <<run, approval>>
  /\ Reply(h)
  /\ UNCHANGED <<environment, ticket, worker, deaths>>

-----------------------------------------------------------------------------
(* Crashes *)

ControlPlaneDies ==
  /\ crashes < MaxFailures /\ crashes' = crashes + 1
  /\ req' = [h \in Handlers |-> Idle]
  /\ UNCHANGED <<environment, rows, ticket, worker, restarts>>

\* Its playbooks die with it, and so does its memory of tickets; the callers see
\* a failure.  The directories stay.
WorkerDies ==
  /\ restarts < MaxFailures /\ restarts' = restarts + 1
  /\ used' = {}
  /\ exec' = [t \in Tickets |-> IF exec[t] \in {"apply", "verify"} THEN "failed" ELSE exec[t]]
  /\ UNCHANGED <<environment, rows, ticket, req, begun, work, crashes>>

-----------------------------------------------------------------------------
ChangeSetService(h) ==
  \/ \E r \in Runs : ApproveRead(h, r) \/ CloseRead(h, r)
  \/ ApproveWrite(h) \/ AskWrite(h) \/ CloseWrite(h)

JobHandlers(h) ==
  \/ \E r \in Runs : AuthorizeRead(h, r) \/ TransitionRead(h, r) \/ RetryRead(h, r)
                      \/ RefreshRead(h, r)
  \/ AuthorizeWrite(h) \/ TransitionWrite(h) \/ RetryWrite(h) \/ RefreshWrite(h)
  \/ PlanRead(h) \/ PlanWrite(h) \/ DeleteRead(h) \/ DeleteWrite(h)

Execution(h) ==
  \/ \E t \in Tickets : ExecuteRead(h, t)
  \/ ExecuteWrite(h) \/ Refused(h) \/ Begin(h) \/ Deliver(h) \/ GiveUp(h) \/ Record(h)

Next ==
  \/ \E h \in Handlers : ChangeSetService(h) \/ JobHandlers(h) \/ Execution(h)
  \/ \E t \in Tickets : Play(t)
  \/ Bump \/ ControlPlaneDies \/ WorkerDies

Spec == Init /\ [][Next]_vars

-----------------------------------------------------------------------------
(* Properties *)

(* Rows, tickets, requests and the worker keep their shape.                *)
TypeOK ==
  /\ server \in BOOLEAN /\ gen \in 1 .. MaxGen
  /\ cluster \in ClusterStates
  /\ run \in [Runs -> RunRows]
  /\ cs \in [Runs -> ChangeSetStates]
  /\ approval \in [Approvals -> ApprovalRows]
  /\ job \in [Runs -> Jobs]
  /\ ticket \in [Tickets -> TicketRows]
  /\ req \in [Handlers -> Requests]
  /\ used \in SUBSET Tickets
  /\ exec \in [Tickets -> Progress]
  /\ begun \in [Tickets -> Nat]
  /\ work \in [Plans -> Tickets \cup {0}]
  /\ crashes \in 0 .. MaxFailures /\ restarts \in 0 .. MaxFailures

(* Every time playbooks begin, an approval of its own has been spent on    *)
(* it: no retry of the job, second ticket, late approval or restart of the *)
(* worker, which forgets the tickets it has seen, makes one approval start *)
(* them twice.                                                             *)
EveryStartIsPaidFor ==
  /\ \A t \in Tickets : begun[t] <= 1
  /\ \A t \in Tickets : begun[t] > 0 => approval[ticket[t].grant].status = "CONSUMED"
  /\ \A s, t \in Tickets :
       begun[s] > 0 /\ begun[t] > 0 /\ s # t => ticket[s].grant # ticket[t].grant

(* A ChangeSet that reads EXECUTED has had all its playbooks run to their  *)
(* end, the verifying one included, under a ticket of its own run.         *)
ExecutedWasVerified ==
  \A r \in Runs : cs[r] = "EXECUTED" =>
    \E t \in Tickets : ticket[t].run = r /\ exec[t] = "ok"

(* A ChangeSet left EXECUTING has a request that will settle it, unless    *)
(* the Control Plane died, or the job was reported over by the bot and     *)
(* deleted with its server meanwhile.                                      *)
OnlyACrashForgets ==
  \A r \in Runs : cs[r] = "EXECUTING" =>
    \/ \E h \in Handlers : req[h].run = r /\ req[h].op \in {"calling", "waiting", "answered"}
    \/ crashes > 0
    \/ job[r] = NoJob
=============================================================================
