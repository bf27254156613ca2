-------------------------- MODULE ProvisioningProofs --------------------------
(***************************************************************************)
(* Proofs about Provisioning, for any number of runs, approvals, tickets,  *)
(* requests, attempts, policy bumps and deaths of either process: every    *)
(* start of the playbooks has an approval of its own, EXECUTED means that  *)
(* the verification passed, and only a death forgets an execution.         *)
(*                                                                         *)
(* The argument: an approval is consumed once and for good, and a ticket   *)
(* never changes its run or its approval.  The request that consumed an    *)
(* approval carries it to the worker, so at any time an approval is with   *)
(* one request that still calls, or behind one ticket that has begun, and  *)
(* a ticket that is on its way has not begun yet.  This is what the worker *)
(* itself cannot guarantee, for it forgets its tickets when it restarts.   *)
(***************************************************************************)
EXTENDS Provisioning, TLAPS

-----------------------------------------------------------------------------
(* Rows and requests *)

LEMMA Numbers ==
  /\ Runs \subseteq Nat /\ Tickets \subseteq Nat /\ Approvals \subseteq Nat
  /\ 0 \notin Runs /\ 0 \notin Tickets /\ 0 \notin Approvals
  BY BoundsAssumption DEF Runs, Tickets, Approvals

LEMMA NewIsUnused ==
  ASSUME NEW row, NEW none, NEW S, NEW i \in New(row, none, S)
  PROVE  i \in S /\ row[i] = none
  BY DEF New

LEMMA RequestFacts ==
  ASSUME NEW op, NEW r, NEW n, NEW a, NEW to
  PROVE  LET q == Request(op, r, n, a, to) IN
         /\ q.op = op /\ q.run = r /\ q.n = n /\ q.grant = a /\ q.to = to
         /\ op \in Ops /\ r \in Runs \cup {0} /\ n \in Nat /\ a \in Approvals \cup {0}
              /\ to \in JobStates \cup {"NONE"} => q \in Requests
  BY DEF Request, Requests

LEMMA IdleFacts == Idle \in Requests /\ Idle.op = "idle" /\ Idle.to = "NONE"
  BY RequestFacts, Numbers DEF Idle, Ops, JobStates

\* A handler takes up a request, goes on with it, or is done with it.
LEMMA Served ==
  ASSUME req \in [Handlers -> Requests], NEW h \in Handlers, NEW q, Serve(h, q)
  PROVE  /\ req[h].op = "idle" /\ req'[h] = q
         /\ \A k \in Handlers \ {h} : req'[k] = req[k]
         /\ q \in Requests => req' \in [Handlers -> Requests]
  BY IdleFacts DEF Serve

LEMMA Replied ==
  ASSUME req \in [Handlers -> Requests], NEW h \in Handlers, Reply(h)
  PROVE  /\ req'[h] = Idle
         /\ \A k \in Handlers \ {h} : req'[k] = req[k]
         /\ req' \in [Handlers -> Requests]
  BY IdleFacts DEF Reply

LEMMA GoneOn ==
  ASSUME req \in [Handlers -> Requests], NEW h \in Handlers, NEW op \in Ops,
         NEW to \in JobStates \cup {"NONE"}, Goto(h, op, to)
  PROVE  /\ req'[h].op = op /\ req'[h].to = to /\ req'[h].run = req[h].run
         /\ req'[h].n = req[h].n /\ req'[h].grant = req[h].grant
         /\ \A k \in Handlers \ {h} : req'[k] = req[k]
         /\ req' \in [Handlers -> Requests]
<1> DEFINE q == Request(op, req[h].run, req[h].n, req[h].grant, to)
<1>1. req'[h] = q /\ req' = [req EXCEPT ![h] = q]
  BY DEF Goto
<1>2. q \in Requests
  BY RequestFacts DEF Requests
<1> QED BY <1>1, <1>2, RequestFacts

-----------------------------------------------------------------------------
(* The inductive invariant                                                 *)

OnCall == {"execute", "calling", "waiting", "answered"}
Issued == {t \in Tickets : ticket[t] # NoTicket}

\* A request carries what its writes will need.
InHand(h) ==
  /\ req[h].op \notin {"idle", "plan", "delete"} =>
       req[h].run \in Runs /\ run[req[h].run] # NoRun
  /\ req[h].op = "plan" => req[h].n \in 1 .. MaxGen /\ req[h].plan \in Plans
  /\ req[h].op = "authorize" => req[h].grant \in Approvals
  /\ req[h].op = "retry" => req[h].n \in 1 .. MaxAttempts
  /\ req[h].op \in OnCall =>
       /\ req[h].n \in Issued /\ req[h].grant \in Approvals
       /\ ticket[req[h].n] = [run |-> req[h].run, grant |-> req[h].grant]

RequestsInHand == \A h \in Handlers : InHand(h)

\* Only a run that is planned has a ChangeSet, a job or tickets.
RowsKnown ==
  /\ \A r \in Runs : cs[r] # "NONE" \/ job[r] # NoJob => run[r] # NoRun
  /\ \A t \in Issued :
       ticket[t].run \in Runs /\ ticket[t].grant \in Approvals /\ run[ticket[t].run] # NoRun

Begun == {t \in Tickets : begun[t] > 0}
Calling == {h \in Handlers : req[h].op = "calling"}

\* A start is paid for, and a call is paid for that has not led to it yet.
Paid ==
  /\ \A t \in Tickets : begun[t] <= 1 /\ (exec[t] # "none" => t \in Begun)
  /\ \A t \in Begun : t \in Issued /\ approval[ticket[t].grant].status = "CONSUMED"
  /\ \A h \in Calling : req[h].n \notin Begun /\ approval[req[h].grant].status = "CONSUMED"

\* Nothing is paid for with an approval that is spent elsewhere.
PaidApart ==
  /\ \A s, t \in Begun : s # t => ticket[s].grant # ticket[t].grant
  /\ \A h, k \in Calling : h # k => req[h].grant # req[k].grant
  /\ \A h \in Calling, t \in Begun : req[h].grant # ticket[t].grant

AnsweredTruly ==
  \A h \in Handlers : req[h].op = "answered" /\ req[h].to = "SUCCEEDED" => exec[req[h].n] = "ok"

RunInv == TypeOK /\ RequestsInHand /\ RowsKnown
PaidInv == Paid /\ PaidApart

LEMMA Initially == Init => RunInv /\ PaidInv /\ AnsweredTruly
<1> SUFFICES ASSUME Init
             PROVE  RunInv /\ PaidInv /\ AnsweredTruly
  OBVIOUS
<1>1. /\ NoRun \in RunRows /\ NoJob \in Jobs /\ NoApproval \in ApprovalRows
      /\ NoTicket \in TicketRows /\ 1 \in 1 .. MaxGen /\ 0 \in 0 .. MaxFailures
  BY BoundsAssumption DEF NoRun, RunRows, NoJob, Jobs, NoApproval, ApprovalRows, NoTicket,
     TicketRows
<1>2. TypeOK
  BY <1>1, IdleFacts DEF Init, TypeOK, ClusterStates, ChangeSetStates, Progress
<1>3. RequestsInHand /\ RowsKnown /\ Calling = {} /\ Begun = {} /\ AnsweredTruly
  BY IdleFacts DEF Init, RequestsInHand, InHand, RowsKnown, Calling, Begun, Issued, OnCall,
     AnsweredTruly
<1>4. PaidInv
  BY <1>3 DEF Init, PaidInv, Paid, PaidApart
<1> QED BY <1>2, <1>3, <1>4 DEF RunInv

-----------------------------------------------------------------------------
(* What is never taken back                                                *)

\* A run is planned, a ticket signed and an approval consumed for good.
Grows ==
  /\ \A r \in Runs : run[r] # NoRun => run'[r] = run[r]
  /\ \A t \in Issued : t \in Issued' /\ ticket'[t] = ticket[t]
  /\ \A a \in Approvals : approval[a].status = "CONSUMED" => approval'[a].status = "CONSUMED"

LEMMA ApprovalsSet ==
  ASSUME approval \in [Approvals -> ApprovalRows], NEW S,
         NEW status \in {"CONSUMED", "WITHDRAWN"}, SetApprovals(S, status)
  PROVE  /\ approval' \in [Approvals -> ApprovalRows]
         /\ \A a \in Approvals : approval'[a].status = IF a \in S THEN status
                                                              ELSE approval[a].status
  BY DEF SetApprovals, ApprovalRows

LEMMA StandingApproved ==
  ASSUME NEW r, NEW a \in Standing(r)
  PROVE  a \in Approvals /\ approval[a].status = "APPROVED"
  BY DEF Standing

LEMMA GrowthStep ==
  ASSUME TypeOK, [Next]_vars
  PROVE  Grows
<1> USE DEF TypeOK
<1>1. ASSUME UNCHANGED <<run, ticket>>,
             \A a \in Approvals : approval[a].status = "CONSUMED"
                                    => approval'[a].status = "CONSUMED"
      PROVE  Grows
  BY <1>1 DEF Grows, Issued
<1>2. ASSUME NEW h \in Handlers, PlanWrite(h)
      PROVE  Grows
  <2>1. CASE ~server
    BY <1>1, <1>2, <2>1 DEF PlanWrite, rows
  <2>2. CASE server
    <3>1. PICK r \in New(run, NoRun, Runs) :
            /\ run' = [run EXCEPT ![r] = [plan |-> req[h].plan, gen |-> req[h].n]]
            /\ UNCHANGED <<approval, ticket>>
      BY <1>2, <2>2 DEF PlanWrite
    <3>2. r \in Runs /\ run[r] = NoRun
      BY <3>1, NewIsUnused
    <3> QED BY <3>1, <3>2 DEF Grows, Issued
  <2> QED BY <2>1, <2>2
<1>3. ASSUME NEW h \in Handlers, ApproveWrite(h)
      PROVE  Grows
  <2>1. PICK a \in New(approval, NoApproval, Approvals) :
          approval' = [approval EXCEPT ![a] = [run |-> req[h].run, status |-> "APPROVED"]]
    BY <1>3 DEF ApproveWrite
  <2>2. a \in Approvals /\ approval[a].status = "NONE"
    BY <2>1, NewIsUnused DEF NoApproval
  <2> QED BY <1>1, <1>3, <2>1, <2>2 DEF ApproveWrite
<1>4. ASSUME NEW h \in Handlers, AuthorizeWrite(h)
      PROVE  Grows
  <2>1. PICK t \in New(ticket, NoTicket, Tickets) :
          ticket' = [ticket EXCEPT ![t] = [run |-> req[h].run, grant |-> req[h].grant]]
    BY <1>4 DEF AuthorizeWrite
  <2>2. t \in Tickets /\ ticket[t] = NoTicket
    BY <2>1, NewIsUnused
  <2> QED BY <1>4, <2>1, <2>2 DEF AuthorizeWrite, Grows, Issued
<1>5. ASSUME NEW S, NEW status \in {"CONSUMED", "WITHDRAWN"}, SetApprovals(S, status),
             \A a \in S : a \in Approvals /\ approval[a].status = "APPROVED",
             UNCHANGED <<run, ticket>>
      PROVE  Grows
  BY <1>1, <1>5, ApprovalsSet
<1>6. ASSUME NEW h \in Handlers, CloseWrite(h)
      PROVE  Grows
  BY <1>5, <1>6, StandingApproved DEF CloseWrite
<1>7. CASE Bump
  BY <1>5, <1>7, StandingApproved DEF Bump
<1>8. ASSUME NEW h \in Handlers, ExecuteWrite(h)
      PROVE  Grows
  <2>1. CASE approval[req[h].grant].status = "APPROVED"
    <3>1. SetApprovals({req[h].grant} \cap Approvals, "CONSUMED")
      BY <1>8, <2>1 DEF ExecuteWrite, SetApprovals
    <3> QED BY <1>5, <1>8, <2>1, <3>1 DEF ExecuteWrite
  <2>2. CASE approval[req[h].grant].status # "APPROVED"
    BY <1>1, <1>8, <2>2 DEF ExecuteWrite, rows
  <2> QED BY <2>1, <2>2
<1>9. ASSUME NEW h \in Handlers, NEW r \in Runs,
             ApproveRead(h, r) \/ CloseRead(h, r) \/ AuthorizeRead(h, r)
               \/ TransitionRead(h, r) \/ RetryRead(h, r) \/ RefreshRead(h, r)
      PROVE  Grows
  BY <1>1, <1>9 DEF ApproveRead, CloseRead, AuthorizeRead, TransitionRead, RetryRead,
     RefreshRead, ReadOnly, rows
<1>10. ASSUME NEW h \in Handlers,
              AskWrite(h) \/ TransitionWrite(h) \/ RetryWrite(h) \/ RefreshWrite(h)
                \/ PlanRead(h) \/ DeleteRead(h) \/ DeleteWrite(h)
       PROVE  Grows
  BY <1>1, <1>10 DEF AskWrite, TransitionWrite, RetryWrite, RefreshWrite, PlanRead,
     DeleteRead, DeleteWrite, ReadOnly, rows
<1>11. ASSUME NEW h \in Handlers,
              (\E t \in Tickets : ExecuteRead(h, t)) \/ Refused(h) \/ Begin(h)
                \/ Deliver(h) \/ GiveUp(h) \/ Record(h)
       PROVE  Grows
  BY <1>1, <1>11 DEF ExecuteRead, Refused, Begin, Deliver, GiveUp, Record, ReadOnly, rows
<1>12. CASE (\E t \in Tickets : Play(t)) \/ ControlPlaneDies \/ WorkerDies
  BY <1>1, <1>12 DEF Play, ControlPlaneDies, WorkerDies, rows
<1>13. CASE UNCHANGED vars
  BY <1>1, <1>13 DEF vars, rows
<1> QED BY <1>2, <1>3, <1>4, <1>6, <1>7, <1>8, <1>9, <1>10, <1>11, <1>12, <1>13
        DEF Next, ChangeSetService, JobHandlers, Execution

-----------------------------------------------------------------------------
(* Rows and requests keep their shape                                      *)

\* An UPDATE of a job's row leaves a row of the table, and makes none.
LEMMA JobSet ==
  ASSUME job \in [Runs -> Jobs], NEW r \in Runs, NEW s \in JobStates \cup {"NONE"},
         NEW n \in 1 .. MaxAttempts, NEW t \in Tickets \cup {0}, SetJob(r, s, n, t)
  PROVE  /\ job' \in [Runs -> Jobs]
         /\ \A k \in Runs : job[k] = NoJob => job'[k] = NoJob
  BY DEF SetJob, Jobs

LEMMA TypeStep ==
  ASSUME TypeOK, RequestsInHand, [Next]_vars
  PROVE  TypeOK'
<1> USE DEF TypeOK
<1>1. \A h \in Handlers : /\ req[h].op \notin {"idle", "plan", "delete"} => req[h].run \in Runs
                          /\ req[h] \in Requests
  BY DEF RequestsInHand, InHand
<1>2. \A r \in Runs : /\ job[r].attempt \in 1 .. MaxAttempts
                      /\ job[r].ticket \in Tickets \cup {0}
                      /\ job[r].state \in JobStates \cup {"NONE"}
  BY DEF Jobs
<1>3. ASSUME NEW h \in Handlers, NEW q \in Requests, Serve(h, q), ReadOnly
      PROVE  TypeOK'
  BY <1>3, Served DEF ReadOnly, environment, rows, worker, deaths
<1>4. ASSUME NEW h \in Handlers, NEW op \in Ops, NEW r \in Runs, NEW n \in Nat,
             NEW a \in Approvals \cup {0}, NEW to \in JobStates \cup {"NONE"},
             Serve(h, Request(op, r, n, a, to)), ReadOnly
      PROVE  TypeOK'
  BY <1>3, <1>4, RequestFacts
<1>5. ASSUME NEW h \in Handlers, PlanRead(h)
      PROVE  TypeOK'
  <2>1. PICK p \in Plans : Serve(h, [Request("plan", 0, gen, 0, "NONE") EXCEPT !.plan = p])
    BY <1>5 DEF PlanRead
  <2>2. [Request("plan", 0, gen, 0, "NONE") EXCEPT !.plan = p] \in Requests
    BY Numbers DEF Request, Requests, Ops
  <2> QED BY <1>3, <1>5, <2>1, <2>2 DEF PlanRead
<1>6. ASSUME NEW h \in Handlers, PlanWrite(h)
      PROVE  TypeOK'
  <2>1. req' \in [Handlers -> Requests]
    BY <1>6, Replied DEF PlanWrite
  <2>2. CASE ~server
    BY <1>6, <2>1, <2>2 DEF PlanWrite, environment, rows, worker, deaths
  <2>3. CASE server
    <3>1. PICK r \in New(run, NoRun, Runs) :
            /\ run' = [run EXCEPT ![r] = [plan |-> req[h].plan, gen |-> req[h].n]]
            /\ cs' = [cs EXCEPT ![r] = "PENDING"]
            /\ job' = [job EXCEPT ![r] = [state |-> "WAITING_APPROVAL", attempt |-> 1,
                                          ticket |-> 0]]
            /\ cluster' = "PLANNED"
            /\ UNCHANGED approval
      BY <1>6, <2>3 DEF PlanWrite
    <3>2. InHand(h) /\ req[h].op = "plan"
      BY <1>6 DEF PlanWrite, RequestsInHand
    <3>3. req[h].n \in 1 .. MaxGen /\ req[h].plan \in Plans
      BY <3>2 DEF InHand
    <3>4. req[h].n \in 0 .. MaxGen
      BY <3>3, BoundsAssumption
    <3>5. [plan |-> req[h].plan, gen |-> req[h].n] \in RunRows
      BY <3>3, <3>4 DEF RunRows
    <3>6. [state |-> "WAITING_APPROVAL", attempt |-> 1, ticket |-> 0] \in Jobs
      BY BoundsAssumption DEF Jobs, JobStates
    <3> QED BY <1>6, <2>1, <3>1, <3>5, <3>6
            DEF PlanWrite, ChangeSetStates, ClusterStates, environment, worker, deaths
  <2> QED BY <2>2, <2>3
<1>7. ASSUME NEW h \in Handlers, NEW r \in Runs,
             ApproveRead(h, r) \/ CloseRead(h, r) \/ AuthorizeRead(h, r)
               \/ TransitionRead(h, r) \/ RefreshRead(h, r)
      PROVE  TypeOK'
  <2>1. \A a \in Standing(r) : a \in Approvals \cup {0}
    BY StandingApproved
  <2>2. \A s : Allowed(s) \subseteq JobStates \cup {"NONE"}
    BY DEF Allowed, JobStates
  <2> QED BY <1>2, <1>4, <1>7, <2>1, <2>2
          DEF ApproveRead, CloseRead, AuthorizeRead, TransitionRead, RefreshRead, Ops
<1>8. ASSUME NEW h \in Handlers, NEW r \in Runs, RetryRead(h, r)
      PROVE  TypeOK'
  <2>1. job[r].attempt \in Nat /\ job[r].attempt + 1 \in Nat
    BY <1>2, BoundsAssumption
  <2> QED BY <1>4, <1>8, <2>1 DEF RetryRead, Ops
<1>9. ASSUME NEW h \in Handlers, ApproveWrite(h)
      PROVE  TypeOK'
  <2>1. PICK a \in New(approval, NoApproval, Approvals) :
          approval' = [approval EXCEPT ![a] = [run |-> req[h].run, status |-> "APPROVED"]]
    BY <1>9 DEF ApproveWrite
  <2>2. [run |-> req[h].run, status |-> "APPROVED"] \in ApprovalRows
    BY <1>1, <1>9 DEF ApproveWrite, ApprovalRows
  <2>3. approval' \in [Approvals -> ApprovalRows]
    BY <2>1, <2>2
  <2> QED BY <1>9, <2>3, Replied
          DEF ApproveWrite, ChangeSetStates, environment, worker, deaths
<1>10. ASSUME NEW h \in Handlers, AskWrite(h)
       PROVE  TypeOK'
  BY <1>10, Replied DEF AskWrite, ChangeSetStates, environment, worker, deaths
<1>11. ASSUME NEW h \in Handlers, CloseWrite(h)
       PROVE  TypeOK'
  <2>1. approval' \in [Approvals -> ApprovalRows]
    BY <1>11, ApprovalsSet DEF CloseWrite
  <2> QED BY <1>11, <2>1, Replied DEF CloseWrite, ChangeSetStates, environment, worker, deaths
<1>12. CASE Bump
  <2>1. approval' \in [Approvals -> ApprovalRows]
    BY <1>12, ApprovalsSet DEF Bump
  <2>2. gen' \in 1 .. MaxGen
    BY <1>12, BoundsAssumption DEF Bump
  <2>3. cs' \in [Runs -> ChangeSetStates]
    BY <1>12 DEF Bump, ChangeSetStates
  <2> QED BY <1>12, <2>1, <2>2, <2>3 DEF Bump, worker, deaths
<1>13. ASSUME NEW h \in Handlers, AuthorizeWrite(h)
       PROVE  TypeOK'
  <2>1. PICK t \in New(ticket, NoTicket, Tickets) :
          /\ ticket' = [ticket EXCEPT ![t] = [run |-> req[h].run, grant |-> req[h].grant]]
          /\ SetJob(req[h].run, "READY", job[req[h].run].attempt, t)
    BY <1>13 DEF AuthorizeWrite
  <2>2. t \in Tickets /\ req[h].run \in Runs /\ req[h].grant \in Approvals \cup {0}
    BY <1>1, <1>13, <2>1, NewIsUnused DEF AuthorizeWrite, Requests
  <2>3. [run |-> req[h].run, grant |-> req[h].grant] \in TicketRows
    BY <2>2 DEF TicketRows
  <2>4. job' \in [Runs -> Jobs]
    BY <1>2, <2>1, <2>2, JobSet DEF JobStates
  <2> QED BY <1>13, <2>1, <2>3, <2>4, Replied
          DEF AuthorizeWrite, environment, worker, deaths
<1>14. ASSUME NEW h \in Handlers, TransitionWrite(h)
       PROVE  TypeOK'
  <2>1. req[h].run \in Runs /\ req[h].to \in JobStates \cup {"NONE"}
    BY <1>1, <1>14 DEF TransitionWrite, Requests
  <2>2. job' \in [Runs -> Jobs]
    BY <1>2, <1>14, <2>1, JobSet DEF TransitionWrite
  <2> QED BY <1>14, <2>2, Replied DEF TransitionWrite, environment, worker, deaths
<1>15. ASSUME NEW h \in Handlers, RetryWrite(h)
       PROVE  TypeOK'
  <2>1. req[h].run \in Runs /\ req[h].n \in 1 .. MaxAttempts
    BY <1>1, <1>15 DEF RetryWrite, RequestsInHand, InHand
  <2>2. job' \in [Runs -> Jobs]
    BY <1>2, <1>15, <2>1, JobSet DEF RetryWrite, JobStates
  <2> QED BY <1>15, <2>2, Replied DEF RetryWrite, environment, worker, deaths
<1>16. ASSUME NEW h \in Handlers, RefreshWrite(h)
       PROVE  TypeOK'
  BY <1>16, Replied
     DEF RefreshWrite, Refreshed, ClusterStates, environment, worker, deaths
<1>17. ASSUME NEW h \in Handlers, DeleteRead(h)
       PROVE  TypeOK'
  <2>1. Request("delete", 0, 0, 0, "NONE") \in Requests
    BY RequestFacts, Numbers DEF Ops, JobStates
  <2> QED BY <1>3, <1>17, <2>1 DEF DeleteRead
<1>18. ASSUME NEW h \in Handlers, DeleteWrite(h)
       PROVE  TypeOK'
  <2>1. NoJob \in Jobs
    BY BoundsAssumption DEF NoJob, Jobs
  <2> QED BY <1>18, <2>1, Replied DEF DeleteWrite, environment, worker, deaths
<1>19. ASSUME NEW h \in Handlers, NEW t \in Tickets, ExecuteRead(h, t)
       PROVE  TypeOK'
  <2>1. PICK a \in Approvals :
          Holds(t, a) /\ Serve(h, Request("execute", ticket[t].run, t, a, "NONE"))
    BY <1>19 DEF ExecuteRead
  <2>2. ticket[t].run \in Runs \cup {0}
    BY DEF TicketRows
  <2>3. Request("execute", ticket[t].run, t, a, "NONE") \in Requests
    BY <2>2, RequestFacts, Numbers DEF Ops
  <2> QED BY <1>3, <1>19, <2>1, <2>3 DEF ExecuteRead
<1>20. ASSUME NEW h \in Handlers, ExecuteWrite(h)
       PROVE  TypeOK'
  <2>1. req[h].run \in Runs
    BY <1>1, <1>20 DEF ExecuteWrite
  <2>2. CASE approval[req[h].grant].status = "APPROVED"
    <3>1. approval' \in [Approvals -> ApprovalRows]
      BY <1>20, <2>2, ApprovalsSet DEF ExecuteWrite
    <3>2. job' \in [Runs -> Jobs]
      BY <1>2, <1>20, <2>1, <2>2, JobSet DEF ExecuteWrite, JobStates
    <3>3. req' \in [Handlers -> Requests]
      BY <1>20, <2>2, GoneOn DEF ExecuteWrite, Ops, JobStates
    <3> QED BY <1>20, <2>2, <3>1, <3>2, <3>3
            DEF ExecuteWrite, ChangeSetStates, ClusterStates, environment, worker, deaths
  <2>3. CASE approval[req[h].grant].status # "APPROVED"
    BY <1>20, <2>3, Replied DEF ExecuteWrite, environment, rows, worker, deaths
  <2> QED BY <2>2, <2>3
<1>21. ASSUME NEW h \in Handlers, Refused(h)
       PROVE  TypeOK'
  <2>1. req[h].n \in Tickets
    BY <1>21 DEF Refused, RequestsInHand, InHand, OnCall, Issued
  <2> QED BY <1>21, <2>1, GoneOn DEF Refused, Ops, JobStates, environment, rows, deaths
<1>22. ASSUME NEW h \in Handlers, Begin(h)
       PROVE  TypeOK'
  <2>1. req[h].n \in Tickets
    BY <1>22 DEF Begin, RequestsInHand, InHand, OnCall, Issued
  <2>2. req' \in [Handlers -> Requests]
    BY <1>22, GoneOn DEF Begin, Ops, JobStates
  <2>3. exec' \in [Tickets -> Progress]
    BY <1>22, <2>1 DEF Begin, Progress
  <2>4. begun' \in [Tickets -> Nat]
    BY <1>22, <2>1 DEF Begin
  <2>5. work' \in [Plans -> Tickets \cup {0}] /\ used' \in SUBSET Tickets
    BY <1>22, <2>1 DEF Begin
  <2> QED BY <1>22, <2>2, <2>3, <2>4, <2>5 DEF Begin, environment, rows, deaths
<1>23. ASSUME NEW h \in Handlers, Deliver(h) \/ GiveUp(h)
       PROVE  TypeOK'
  <2>1. PICK to \in JobStates : Goto(h, "answered", to)
    BY <1>23 DEF Deliver, GiveUp, JobStates
  <2>2. req' \in [Handlers -> Requests]
    BY <2>1, GoneOn DEF Ops
  <2> QED BY <1>23, <2>2 DEF Deliver, GiveUp, environment, rows, worker, deaths
<1>24. ASSUME NEW h \in Handlers, Record(h)
       PROVE  TypeOK'
  <2>1. req' \in [Handlers -> Requests]
    BY <1>24, Replied DEF Record
  <2>2. req[h].run \in Runs /\ req[h].to \in JobStates \cup {"NONE"}
    BY <1>1, <1>24 DEF Record, Requests
  <2>3. CASE job[req[h].run] = NoJob
    BY <1>24, <2>1, <2>3 DEF Record, environment, rows, worker, deaths
  <2>4. CASE job[req[h].run] # NoJob
    <3>1. job' \in [Runs -> Jobs]
      BY <1>2, <1>24, <2>2, <2>4, JobSet DEF Record
    <3> QED BY <1>24, <2>1, <2>4, <3>1
            DEF Record, ChangeSetStates, ClusterStates, environment, worker, deaths
  <2> QED BY <2>3, <2>4
<1>25. ASSUME NEW t \in Tickets, Play(t)
       PROVE  TypeOK'
  BY <1>25 DEF Play, Progress, environment, rows, deaths
<1>26. CASE ControlPlaneDies
  BY <1>26, IdleFacts, BoundsAssumption
     DEF ControlPlaneDies, environment, rows, worker
<1>27. CASE WorkerDies
  BY <1>27, BoundsAssumption DEF WorkerDies, Progress, environment, rows
<1>28. CASE UNCHANGED vars
  BY <1>28 DEF vars, environment, rows, worker, deaths
<1> QED BY <1>5, <1>6, <1>7, <1>8, <1>9, <1>10, <1>11, <1>12, <1>13, <1>14, <1>15, <1>16,
           <1>17, <1>18, <1>19, <1>20, <1>21, <1>22, <1>23, <1>24, <1>25, <1>26, <1>27, <1>28
        DEF Next, ChangeSetService, JobHandlers, Execution

-----------------------------------------------------------------------------
(* A request carries what its writes will need                             *)

LEMMA StaysInHand ==
  ASSUME TypeOK, Grows, NEW h \in Handlers, InHand(h), req'[h] = req[h]
  PROVE  InHand(h)'
  BY DEF InHand, Grows, TypeOK

LEMMA OneMoved ==
  ASSUME TypeOK, Grows, RequestsInHand, NEW h \in Handlers, InHand(h)',
         \A k \in Handlers \ {h} : req'[k] = req[k]
  PROVE  RequestsInHand'
  BY StaysInHand DEF RequestsInHand

LEMMA OnCallHolds ==
  ASSUME RequestsInHand, NEW h \in Handlers, req[h].op \in OnCall
  PROVE  /\ req[h].run \in Runs /\ req[h].grant \in Approvals
         /\ req[h].n \in Issued /\ req[h].n \in Tickets
         /\ ticket[req[h].n].run = req[h].run /\ ticket[req[h].n].grant = req[h].grant
<1>1. InHand(h)
  BY DEF RequestsInHand
<1>2. ticket[req[h].n] = [run |-> req[h].run, grant |-> req[h].grant]
  BY <1>1 DEF InHand
<1>3. ticket[req[h].n].run = req[h].run /\ ticket[req[h].n].grant = req[h].grant
  BY <1>2
<1>4. req[h].run \in Runs /\ req[h].grant \in Approvals /\ req[h].n \in Issued
  BY <1>1 DEF InHand, OnCall
<1> QED BY <1>3, <1>4 DEF Issued

LEMMA DoneWith ==
  ASSUME TypeOK, Grows, RequestsInHand, NEW h \in Handlers, Reply(h)
  PROVE  RequestsInHand'
<1>1. InHand(h)'
  BY Replied, IdleFacts DEF InHand, OnCall, TypeOK
<1> QED BY <1>1, Replied, OneMoved DEF TypeOK

LEMMA KeptOn ==
  ASSUME TypeOK, Grows, RequestsInHand, NEW h \in Handlers, NEW op \in OnCall,
         NEW to \in JobStates \cup {"NONE"}, req[h].op \in OnCall, Goto(h, op, to)
  PROVE  RequestsInHand'
<1>1. op \in Ops
  BY DEF OnCall, Ops
<1>2. InHand(h) /\ req'[h].op = op /\ req'[h].run = req[h].run
      /\ req'[h].n = req[h].n /\ req'[h].grant = req[h].grant
      /\ \A k \in Handlers \ {h} : req'[k] = req[k]
  BY <1>1, GoneOn DEF RequestsInHand, TypeOK
<1>3. InHand(h)'
  BY <1>2 DEF InHand, Grows, OnCall
<1> QED BY <1>2, <1>3, OneMoved

\* A handler takes up a request about a run that is planned.
LEMMA TakenUp ==
  ASSUME TypeOK, Grows, RequestsInHand, NEW h \in Handlers, NEW r \in Runs, run[r] # NoRun,
         NEW op \in Ops \ {"plan", "execute", "calling", "waiting", "answered"},
         NEW n, NEW a, NEW to,
         Serve(h, Request(op, r, n, a, to)),
         op = "authorize" => a \in Approvals, op = "retry" => n \in 1 .. MaxAttempts
  PROVE  RequestsInHand'
<1>1. /\ req'[h] = Request(op, r, n, a, to)
      /\ \A k \in Handlers \ {h} : req'[k] = req[k]
  BY Served DEF TypeOK
<1>2. req'[h].op = op /\ req'[h].run = r /\ req'[h].n = n /\ req'[h].grant = a
  BY <1>1, RequestFacts
<1>3. InHand(h)'
  BY <1>2 DEF InHand, Grows, OnCall
<1> QED BY <1>1, <1>3, OneMoved

LEMMA RequestsStep ==
  ASSUME TypeOK, RequestsInHand, RowsKnown, [Next]_vars
  PROVE  RequestsInHand'
<1>0. Grows
  BY GrowthStep
<1> USE DEF TypeOK
<1>1. \A r \in Runs : cs[r] # "NONE" \/ job[r] # NoJob => run[r] # NoRun
  BY DEF RowsKnown
<1>2. ASSUME NEW h \in Handlers, PlanRead(h)
      PROVE  RequestsInHand'
  <2>1. PICK p \in Plans : Serve(h, [Request("plan", 0, gen, 0, "NONE") EXCEPT !.plan = p])
    BY <1>2 DEF PlanRead
  <2> DEFINE q == [Request("plan", 0, gen, 0, "NONE") EXCEPT !.plan = p]
  <2>2. q.op = "plan" /\ q.n = gen /\ q.plan = p
    BY DEF Request
  <2>3. req'[h] = q /\ \A k \in Handlers \ {h} : req'[k] = req[k]
    BY <2>1, Served
  <2> HIDE DEF q
  <2>4. InHand(h)'
    BY <2>2, <2>3 DEF InHand, OnCall
  <2> QED BY <1>0, <2>3, <2>4, OneMoved
<1>3. ASSUME NEW h \in Handlers, DeleteRead(h)
      PROVE  RequestsInHand'
  <2>1. req'[h].op = "delete" /\ \A k \in Handlers \ {h} : req'[k] = req[k]
    BY <1>3, Served, RequestFacts DEF DeleteRead
  <2>2. InHand(h)'
    BY <2>1 DEF InHand, OnCall
  <2> QED BY <1>0, <2>1, <2>2, OneMoved
<1>4. ASSUME NEW h \in Handlers, NEW r \in Runs, ApproveRead(h, r) \/ CloseRead(h, r)
      PROVE  RequestsInHand'
  BY <1>0, <1>1, <1>4, TakenUp DEF ApproveRead, CloseRead, Ops
<1>5. ASSUME NEW r \in Runs, Authorized(r)
      PROVE  run[r] # NoRun
  BY <1>1, <1>5 DEF Authorized
<1>6. ASSUME NEW h \in Handlers, NEW r \in Runs, AuthorizeRead(h, r)
      PROVE  RequestsInHand'
  <2>1. PICK a \in Standing(r) : Serve(h, Request("authorize", r, 0, a, "NONE"))
    BY <1>6 DEF AuthorizeRead
  <2>2. run[r] # NoRun /\ a \in Approvals
    BY <1>5, <1>6, <2>1, StandingApproved DEF AuthorizeRead
  <2> QED BY <1>0, <2>1, <2>2, TakenUp DEF Ops
<1>7. ASSUME NEW h \in Handlers, NEW r \in Runs, TransitionRead(h, r)
      PROVE  RequestsInHand'
  BY <1>0, <1>5, <1>7, TakenUp DEF TransitionRead, Ops
<1>8. ASSUME NEW h \in Handlers, NEW r \in Runs, RetryRead(h, r)
      PROVE  RequestsInHand'
  <2>1. job[r].attempt \in 1 .. MaxAttempts
    BY DEF Jobs
  <2>2. PICK n \in 1 .. MaxAttempts : Serve(h, Request("retry", r, n, 0, "NONE"))
    BY <1>8, <2>1, BoundsAssumption DEF RetryRead
  <2> QED BY <1>0, <1>5, <1>8, <2>2, TakenUp DEF RetryRead, Ops
<1>9. ASSUME NEW h \in Handlers, NEW r \in Runs, RefreshRead(h, r)
      PROVE  RequestsInHand'
  BY <1>0, <1>1, <1>9, TakenUp DEF RefreshRead, Ops
<1>10. ASSUME NEW h \in Handlers, Reply(h)
       PROVE  RequestsInHand'
  BY <1>0, <1>10, DoneWith
<1>11. ASSUME NEW h \in Handlers,
              ApproveWrite(h) \/ AskWrite(h) \/ CloseWrite(h) \/ AuthorizeWrite(h)
                \/ TransitionWrite(h) \/ RetryWrite(h) \/ RefreshWrite(h)
                \/ PlanWrite(h) \/ DeleteWrite(h) \/ Record(h)
       PROVE  RequestsInHand'
  BY <1>10, <1>11 DEF ApproveWrite, AskWrite, CloseWrite, AuthorizeWrite, TransitionWrite,
     RetryWrite, RefreshWrite, PlanWrite, DeleteWrite, Record
<1>12. ASSUME NEW h \in Handlers, NEW t \in Tickets, ExecuteRead(h, t)
       PROVE  RequestsInHand'
  <2>1. PICK a \in Approvals :
          Holds(t, a) /\ Serve(h, Request("execute", ticket[t].run, t, a, "NONE"))
    BY <1>12 DEF ExecuteRead
  <2>2. /\ req'[h].op = "execute" /\ req'[h].run = ticket[t].run /\ req'[h].n = t
        /\ req'[h].grant = a /\ \A k \in Handlers \ {h} : req'[k] = req[k]
    BY <2>1, Served, RequestFacts
  <2>3. t \in Issued /\ ticket[t].grant = a
    BY <1>12, <2>1 DEF ExecuteRead, Holds, Issued
  <2>4. ticket[t] = [run |-> ticket[t].run, grant |-> a]
    BY <2>3 DEF TicketRows
  <2>5. ticket[t].run \in Runs /\ run[ticket[t].run] # NoRun
    BY <2>3 DEF RowsKnown
  <2>6. InHand(h)'
    BY <1>0, <2>2, <2>3, <2>4, <2>5 DEF InHand, Grows
  <2> QED BY <1>0, <2>2, <2>6, OneMoved
<1>13. ASSUME NEW h \in Handlers, ExecuteWrite(h)
       PROVE  RequestsInHand'
  <2>1. CASE approval[req[h].grant].status = "APPROVED"
    BY <1>0, <1>13, <2>1, KeptOn DEF ExecuteWrite, OnCall
  <2>2. CASE approval[req[h].grant].status # "APPROVED"
    BY <1>10, <1>13, <2>2 DEF ExecuteWrite
  <2> QED BY <2>1, <2>2
<1>14. ASSUME NEW h \in Handlers, Refused(h) \/ Begin(h) \/ Deliver(h) \/ GiveUp(h)
       PROVE  RequestsInHand'
  <2>1. /\ req[h].op \in OnCall
        /\ \E op \in OnCall, to \in JobStates \cup {"NONE"} : Goto(h, op, to)
    BY <1>14 DEF Refused, Begin, Deliver, GiveUp, OnCall, JobStates
  <2> QED BY <1>0, <2>1, KeptOn
<1>15. CASE UNCHANGED req
  BY <1>0, <1>15, StaysInHand DEF RequestsInHand
<1>16. CASE ControlPlaneDies
  BY <1>16, IdleFacts DEF ControlPlaneDies, RequestsInHand, InHand, OnCall
<1>17. CASE (\E t \in Tickets : Play(t)) \/ Bump \/ WorkerDies \/ UNCHANGED vars
  BY <1>15, <1>17 DEF Play, Bump, WorkerDies, vars
<1> QED BY <1>2, <1>3, <1>4, <1>6, <1>7, <1>8, <1>9, <1>11, <1>12, <1>13, <1>14, <1>16, <1>17
        DEF Next, ChangeSetService, JobHandlers, Execution

-----------------------------------------------------------------------------
(* Only a run that is planned has a ChangeSet, a job or tickets            *)

LEMMA RowsKept ==
  ASSUME TypeOK, Grows, RowsKnown, ticket' = ticket,
         \A r \in Runs : cs'[r] = cs[r] \/ cs[r] # "NONE" \/ run'[r] # NoRun,
         \A r \in Runs : job[r] = NoJob => job'[r] = NoJob \/ run'[r] # NoRun
  PROVE  RowsKnown'
<1>1. Issued' = Issued
  BY DEF Issued
<1>2. \A r \in Runs : run[r] # NoRun => run'[r] # NoRun
  BY DEF Grows
<1>3. \A r \in Runs : cs'[r] # "NONE" \/ job'[r] # NoJob => run'[r] # NoRun
  BY <1>2 DEF RowsKnown
<1>4. \A t \in Issued : ticket'[t].run \in Runs /\ ticket'[t].grant \in Approvals
                        /\ run'[ticket'[t].run] # NoRun
  BY <1>2 DEF RowsKnown
<1> QED BY <1>1, <1>3, <1>4 DEF RowsKnown

\* What a request writes about its own run.
LEMMA OwnRowWritten ==
  ASSUME TypeOK, Grows, RequestsInHand, RowsKnown, NEW h \in Handlers,
         req[h].op \notin {"idle", "plan", "delete"}, ticket' = ticket,
         \A r \in Runs : cs'[r] = cs[r] \/ r = req[h].run,
         \A r \in Runs : job[r] = NoJob => job'[r] = NoJob
  PROVE  RowsKnown'
<1>1. req[h].run \in Runs /\ run'[req[h].run] # NoRun
  BY DEF RequestsInHand, InHand, Grows
<1> QED BY <1>1, RowsKept

LEMMA RowsStep ==
  ASSUME TypeOK, RequestsInHand, RowsKnown, [Next]_vars
  PROVE  RowsKnown'
<1>0. Grows
  BY GrowthStep
<1> USE DEF TypeOK
<1>1. \A h \in Handlers : req[h].op \notin {"idle", "plan", "delete"} =>
        req[h].run \in Runs /\ run[req[h].run] # NoRun
  BY DEF RequestsInHand, InHand
<1>2. CASE UNCHANGED <<cs, job, ticket>>
  BY <1>0, <1>2, RowsKept
<1>3. ASSUME NEW h \in Handlers, PlanWrite(h)
      PROVE  RowsKnown'
  <2>1. CASE ~server
    BY <1>2, <1>3, <2>1 DEF PlanWrite, rows
  <2>2. CASE server
    <3>1. PICK r \in New(run, NoRun, Runs) :
            /\ run' = [run EXCEPT ![r] = [plan |-> req[h].plan, gen |-> req[h].n]]
            /\ cs' = [cs EXCEPT ![r] = "PENDING"]
            /\ job' = [job EXCEPT ![r] = [state |-> "WAITING_APPROVAL", attempt |-> 1,
                                          ticket |-> 0]]
            /\ ticket' = ticket
      BY <1>3, <2>2 DEF PlanWrite
    <3>2. r \in Runs /\ InHand(h)
      BY <1>3, <3>1, NewIsUnused DEF RequestsInHand
    <3>3. req[h].plan # None
      BY <1>3, <3>2, NoneAssumption DEF PlanWrite, InHand
    <3>4. run'[r] # NoRun
      BY <3>1, <3>2, <3>3 DEF NoRun
    <3> QED BY <1>0, <3>1, <3>2, <3>4, RowsKept
  <2> QED BY <2>1, <2>2
<1>4. ASSUME NEW h \in Handlers, ApproveWrite(h) \/ AskWrite(h) \/ CloseWrite(h)
      PROVE  RowsKnown'
  BY <1>0, <1>4, OwnRowWritten DEF ApproveWrite, AskWrite, CloseWrite
<1>5. ASSUME NEW h \in Handlers, AuthorizeWrite(h)
      PROVE  RowsKnown'
  <2> DEFINE r == req[h].run
  <2>1. PICK t \in New(ticket, NoTicket, Tickets) :
          /\ ticket' = [ticket EXCEPT ![t] = [run |-> r, grant |-> req[h].grant]]
          /\ SetJob(r, "READY", job[r].attempt, t)
    BY <1>5 DEF AuthorizeWrite
  <2>2. /\ t \in Tickets /\ r \in Runs /\ run[r] # NoRun /\ req[h].grant \in Approvals
        /\ UNCHANGED <<run, cs>>
    BY <1>1, <1>5, <2>1, NewIsUnused DEF AuthorizeWrite, RequestsInHand, InHand
  <2>3. \A k \in Runs : job'[k] # NoJob => job[k] # NoJob
    BY <2>1, <2>2 DEF SetJob
  <2>4. \A s \in Issued' : s = t \/ (s \in Issued /\ ticket'[s] = ticket[s])
    BY <2>1, <2>2 DEF Issued
  <2>5. ticket'[t] = [run |-> r, grant |-> req[h].grant]
    BY <2>1, <2>2
  <2>6. \A s \in Issued' : /\ ticket'[s].run \in Runs /\ ticket'[s].grant \in Approvals
                           /\ run'[ticket'[s].run] # NoRun
    BY <2>2, <2>4, <2>5 DEF RowsKnown
  <2>7. \A k \in Runs : cs'[k] # "NONE" \/ job'[k] # NoJob => run'[k] # NoRun
    BY <2>2, <2>3 DEF RowsKnown
  <2> QED BY <2>6, <2>7 DEF RowsKnown
<1>6. ASSUME NEW h \in Handlers, TransitionWrite(h) \/ RetryWrite(h)
      PROVE  RowsKnown'
  <2>1. /\ UNCHANGED <<cs, ticket>> /\ req[h].op \notin {"idle", "plan", "delete"}
        /\ \A k \in Runs : job[k] = NoJob => job'[k] = NoJob
    BY <1>1, <1>6 DEF TransitionWrite, RetryWrite, SetJob
  <2> QED BY <1>0, <2>1, OwnRowWritten
<1>7. ASSUME NEW h \in Handlers, DeleteWrite(h)
      PROVE  RowsKnown'
  BY <1>0, <1>7, RowsKept DEF DeleteWrite
<1>8. ASSUME NEW h \in Handlers, ExecuteWrite(h) \/ Record(h)
      PROVE  RowsKnown'
  <2>1. CASE UNCHANGED rows
    BY <1>2, <1>8, <2>1 DEF ExecuteWrite, Record, rows
  <2>2. CASE ~UNCHANGED rows
    <3>1. /\ ticket' = ticket /\ req[h].op \notin {"idle", "plan", "delete"}
          /\ \A r \in Runs : cs'[r] = cs[r] \/ r = req[h].run
          /\ \E s, n, t : SetJob(req[h].run, s, n, t)
      BY <1>8, <2>2 DEF ExecuteWrite, Record
    <3>2. \A k \in Runs : job[k] = NoJob => job'[k] = NoJob
      BY <1>1, <3>1 DEF SetJob
    <3> QED BY <1>0, <3>1, <3>2, OwnRowWritten
  <2> QED BY <2>1, <2>2
<1>9. CASE Bump
  <2>1. ticket' = ticket /\ job' = job /\ \A r \in Runs : cs'[r] = cs[r] \/ cs[r] # "NONE"
    BY <1>9 DEF Bump
  <2> QED BY <1>0, <2>1, RowsKept
<1>10. ASSUME NEW h \in Handlers, NEW r \in Runs,
              ApproveRead(h, r) \/ CloseRead(h, r) \/ AuthorizeRead(h, r)
                \/ TransitionRead(h, r) \/ RetryRead(h, r) \/ RefreshRead(h, r)
       PROVE  RowsKnown'
  BY <1>2, <1>10 DEF ApproveRead, CloseRead, AuthorizeRead, TransitionRead, RetryRead,
     RefreshRead, ReadOnly, rows
<1>11. ASSUME NEW h \in Handlers,
              RefreshWrite(h) \/ PlanRead(h) \/ DeleteRead(h)
                \/ (\E t \in Tickets : ExecuteRead(h, t))
                \/ Refused(h) \/ Begin(h) \/ Deliver(h) \/ GiveUp(h)
       PROVE  RowsKnown'
  BY <1>2, <1>11 DEF RefreshWrite, PlanRead, DeleteRead, ExecuteRead, Refused, Begin,
     Deliver, GiveUp, ReadOnly, rows
<1>12. CASE (\E t \in Tickets : Play(t)) \/ ControlPlaneDies \/ WorkerDies \/ UNCHANGED vars
  BY <1>2, <1>12 DEF Play, ControlPlaneDies, WorkerDies, vars, rows
<1> QED BY <1>3, <1>4, <1>5, <1>6, <1>7, <1>8, <1>9, <1>10, <1>11, <1>12
        DEF Next, ChangeSetService, JobHandlers, Execution

-----------------------------------------------------------------------------
(* The steps that touch an execution, and all the others                   *)

Underway == {"calling", "waiting", "answered"}

\* Neither the worker nor the requests that wait for it are concerned, and no
\* ChangeSet is executed.
Aside ==
  /\ UNCHANGED <<exec, begun, crashes>>
  /\ \A h \in Handlers :
       req'[h] = req[h] \/ (req[h].op \notin Underway /\ req'[h].op \notin Underway)
  /\ \A r \in Runs : cs'[r] \in {"EXECUTING", "EXECUTED"} => cs'[r] = cs[r]
  /\ \A r \in Runs : job[r] = NoJob => job'[r] = NoJob \/ run[r] = NoRun

Approved(h) == approval[req[h].grant].status = "APPROVED"

LEMMA Cases ==
  ASSUME TypeOK, RequestsInHand, [Next]_vars
  PROVE  \/ \E h \in Handlers : ExecuteWrite(h) /\ Approved(h)
         \/ \E h \in Handlers : Refused(h) \/ Begin(h) \/ Deliver(h) \/ GiveUp(h) \/ Record(h)
         \/ (\E t \in Tickets : Play(t)) \/ ControlPlaneDies \/ WorkerDies
         \/ Aside
<1> USE DEF TypeOK
<1>1. ASSUME NEW h \in Handlers, NEW r, NEW n, NEW a, NEW to,
             NEW op \in Ops \ {"calling", "waiting", "answered"},
             Serve(h, Request(op, r, n, a, to)), ReadOnly
      PROVE  Aside
  <2>1. req[h].op = "idle" /\ req'[h].op = op /\ \A k \in Handlers \ {h} : req'[k] = req[k]
    BY <1>1, Served, RequestFacts
  <2> QED BY <1>1, <2>1 DEF Aside, ReadOnly, rows, worker, deaths, Underway
<1>2. ASSUME NEW h \in Handlers, PlanRead(h)
      PROVE  Aside
  <2>1. PICK p \in Plans : Serve(h, [Request("plan", 0, gen, 0, "NONE") EXCEPT !.plan = p])
    BY <1>2 DEF PlanRead
  <2> DEFINE q == [Request("plan", 0, gen, 0, "NONE") EXCEPT !.plan = p]
  <2>2. q.op = "plan"
    BY DEF Request
  <2>3. req[h].op = "idle" /\ req'[h] = q /\ \A k \in Handlers \ {h} : req'[k] = req[k]
    BY <2>1, Served
  <2> QED BY <1>2, <2>2, <2>3 DEF PlanRead, Aside, ReadOnly, rows, worker, deaths, Underway
<1>3. ASSUME NEW h \in Handlers, NEW r \in Runs,
             ApproveRead(h, r) \/ CloseRead(h, r) \/ AuthorizeRead(h, r)
               \/ TransitionRead(h, r) \/ RetryRead(h, r) \/ RefreshRead(h, r)
      PROVE  Aside
  BY <1>1, <1>3 DEF ApproveRead, CloseRead, AuthorizeRead, TransitionRead, RetryRead,
     RefreshRead, Ops
<1>4. ASSUME NEW h \in Handlers, DeleteRead(h) \/ \E t \in Tickets : ExecuteRead(h, t)
      PROVE  Aside
  BY <1>1, <1>4 DEF DeleteRead, ExecuteRead, Ops
<1>5. ASSUME NEW h \in Handlers, Reply(h), req[h].op \notin Underway,
             UNCHANGED <<worker, deaths>>,
             \A r \in Runs : cs'[r] \in {"EXECUTING", "EXECUTED"} => cs'[r] = cs[r],
             \A r \in Runs : job[r] = NoJob => job'[r] = NoJob \/ run[r] = NoRun
      PROVE  Aside
  BY <1>5, Replied, IdleFacts DEF Aside, Underway, worker, deaths
<1>6. ASSUME NEW h \in Handlers, PlanWrite(h)
      PROVE  Aside
  <2>1. CASE ~server
    BY <1>5, <1>6, <2>1 DEF PlanWrite, Underway, rows
  <2>2. CASE server
    <3>1. PICK r \in New(run, NoRun, Runs) :
            /\ cs' = [cs EXCEPT ![r] = "PENDING"]
            /\ job' = [job EXCEPT ![r] = [state |-> "WAITING_APPROVAL", attempt |-> 1,
                                          ticket |-> 0]]
      BY <1>6, <2>2 DEF PlanWrite
    <3>2. run[r] = NoRun
      BY <3>1, NewIsUnused
    <3> QED BY <1>5, <1>6, <3>1, <3>2 DEF PlanWrite, Underway
  <2> QED BY <2>1, <2>2
<1>7. ASSUME NEW h \in Handlers, ApproveWrite(h) \/ AskWrite(h) \/ CloseWrite(h)
      PROVE  Aside
  BY <1>5, <1>7 DEF ApproveWrite, AskWrite, CloseWrite, Underway
<1>8. \A h \in Handlers : req[h].op \notin {"idle", "plan", "delete"} => req[h].run \in Runs
  BY DEF RequestsInHand, InHand
<1>9. ASSUME NEW h \in Handlers, AuthorizeWrite(h) \/ TransitionWrite(h) \/ RetryWrite(h)
      PROVE  Aside
  <2>1. /\ req[h].op \in {"authorize", "transition", "retry"} /\ Reply(h) /\ cs' = cs
        /\ UNCHANGED <<worker, deaths>>
        /\ \E s, n, t : SetJob(req[h].run, s, n, t)
    BY <1>9 DEF AuthorizeWrite, TransitionWrite, RetryWrite
  <2>2. \A r \in Runs : job[r] = NoJob => job'[r] = NoJob
    BY <1>8, <2>1 DEF SetJob
  <2> QED BY <1>5, <2>1, <2>2 DEF Underway
<1>10. ASSUME NEW h \in Handlers, RefreshWrite(h) \/ DeleteWrite(h)
       PROVE  Aside
  BY <1>5, <1>10 DEF RefreshWrite, DeleteWrite, Underway
<1>11. ASSUME NEW h \in Handlers, ExecuteWrite(h), ~Approved(h)
       PROVE  Aside
  BY <1>5, <1>11 DEF ExecuteWrite, Approved, Underway, rows
<1>12. CASE Bump
  BY <1>12 DEF Bump, Aside, worker, deaths
<1>13. CASE UNCHANGED vars
  BY <1>13 DEF vars, Aside, rows, worker, deaths
<1> QED BY <1>2, <1>3, <1>4, <1>6, <1>7, <1>9, <1>10, <1>11, <1>12, <1>13
        DEF Next, ChangeSetService, JobHandlers, Execution

-----------------------------------------------------------------------------
(* Every start is paid for                                                 *)

\* A call has its ticket and its approval at hand, and so has a start.
LEMMA Bought ==
  ASSUME TypeOK, RequestsInHand, RowsKnown, PaidInv
  PROVE  /\ \A h \in Calling : /\ req[h].n \in Issued /\ req[h].grant \in Approvals
                               /\ ticket[req[h].n].grant = req[h].grant
         /\ \A t \in Begun : t \in Issued /\ ticket[t].grant \in Approvals
<1>1. \A h \in Calling : h \in Handlers /\ req[h].op \in OnCall
  BY DEF Calling, OnCall
<1>2. \A t \in Begun : t \in Issued
  BY DEF PaidInv, Paid
<1> QED BY <1>1, <1>2, OnCallHolds DEF RowsKnown

LEMMA PaidKept ==
  ASSUME RunInv, PaidInv, Grows, begun' = begun,
         \A t \in Tickets : exec'[t] # "none" => exec[t] # "none",
         \A h \in Handlers : req'[h].op = "calling" => req'[h] = req[h]
  PROVE  PaidInv'
<1> USE DEF RunInv
<1>1. Begun' = Begun /\ \A h \in Calling' : h \in Calling /\ req'[h] = req[h]
  BY DEF Begun, Calling
<1>2. \A t \in Begun : /\ t \in Issued' /\ ticket'[t] = ticket[t]
                       /\ approval'[ticket'[t].grant].status = "CONSUMED"
  BY Bought DEF Grows, PaidInv, Paid
<1>3. \A h \in Calling : approval'[req[h].grant].status = "CONSUMED"
  BY Bought DEF Grows, PaidInv, Paid
<1>4. Paid'
  BY <1>1, <1>2, <1>3 DEF PaidInv, Paid
<1>5. PaidApart'
  BY <1>1, <1>2 DEF PaidInv, PaidApart
<1> QED BY <1>4, <1>5 DEF PaidInv

\* The call takes an approval that nothing had been paid for with.
LEMMA PaidOnExecute ==
  ASSUME RunInv, PaidInv, Grows, NEW h \in Handlers, ExecuteWrite(h), Approved(h)
  PROVE  PaidInv'
<1> USE DEF RunInv
<1> DEFINE a == req[h].grant
<1>1. /\ req[h].n \in Issued /\ a \in Approvals /\ ticket[req[h].n].grant = a
      /\ approval[a].status = "APPROVED"
  BY OnCallHolds DEF ExecuteWrite, OnCall, Approved
<1>2. /\ req'[h].op = "calling" /\ req'[h].n = req[h].n /\ req'[h].grant = a
      /\ \A k \in Handlers \ {h} : req'[k] = req[k]
  BY GoneOn DEF ExecuteWrite, Approved, Ops, TypeOK
<1>3. UNCHANGED <<begun, exec, ticket>> /\ approval'[a].status = "CONSUMED"
  BY <1>1, ApprovalsSet DEF ExecuteWrite, Approved, worker, TypeOK
<1>4. Begun' = Begun
  BY <1>3 DEF Begun
<1>5. \A k \in Calling' : k = h \/ (k \in Calling /\ req'[k] = req[k])
  BY <1>2 DEF Calling
<1>6. (\A t \in Begun : ticket[t].grant # a) /\ (\A k \in Calling : req[k].grant # a)
  BY <1>1 DEF PaidInv, Paid
<1>7. req[h].n \notin Begun
  BY <1>1, <1>6
<1>8. /\ \A t \in Begun : approval'[ticket[t].grant].status = "CONSUMED"
      /\ \A k \in Calling : approval'[req[k].grant].status = "CONSUMED"
  BY Bought DEF Grows, PaidInv, Paid
<1>9. Issued' = Issued
  BY <1>3 DEF Issued
<1>10. Paid'
  BY <1>2, <1>3, <1>4, <1>5, <1>7, <1>8, <1>9 DEF PaidInv, Paid
<1>11. PaidApart'
  BY <1>2, <1>3, <1>4, <1>5, <1>6 DEF PaidInv, PaidApart
<1> QED BY <1>10, <1>11 DEF PaidInv

\* The worker spends the call on the start.
LEMMA PaidOnBegin ==
  ASSUME RunInv, PaidInv, NEW h \in Handlers, Begin(h)
  PROVE  PaidInv'
<1> USE DEF RunInv
<1> DEFINE t == req[h].n
<1>1. /\ h \in Calling /\ t \in Issued /\ t \in Tickets /\ t \notin Begun
      /\ ticket[t].grant = req[h].grant /\ approval[ticket[t].grant].status = "CONSUMED"
  BY Bought DEF Begin, Calling, PaidInv, Paid, Issued
<1>2. req'[h].op = "waiting" /\ \A k \in Handlers \ {h} : req'[k] = req[k]
  BY GoneOn DEF Begin, Ops, JobStates, TypeOK
<1>3. /\ UNCHANGED <<ticket, approval>>
      /\ exec' = [exec EXCEPT ![t] = "apply"] /\ begun' = [begun EXCEPT ![t] = @ + 1]
  BY DEF Begin, rows
<1>4. begun[t] \in Nat /\ begun[t] <= 0
  BY <1>1 DEF Begun, TypeOK
<1>5. begun'[t] = 1 /\ \A s \in Tickets \ {t} : begun'[s] = begun[s] /\ exec'[s] = exec[s]
  BY <1>1, <1>3, <1>4 DEF TypeOK
<1>6. Begun' = Begun \cup {t} /\ Issued' = Issued
  BY <1>1, <1>3, <1>5 DEF Begun, Issued
<1>7. \A k \in Calling' : k \in Calling /\ k # h /\ req'[k] = req[k]
  BY <1>2 DEF Calling
<1>8. \A k \in Calling \ {h} : req[k].n # t /\ req[k].grant # ticket[t].grant
  BY <1>1, Bought DEF PaidInv, PaidApart
<1>9. \A s \in Tickets : begun'[s] <= 1 /\ (exec'[s] # "none" => s \in Begun')
  BY <1>5, <1>6 DEF PaidInv, Paid
<1>10. Paid'
  BY <1>1, <1>3, <1>6, <1>7, <1>8, <1>9 DEF PaidInv, Paid
<1>11. PaidApart'
  BY <1>1, <1>3, <1>6, <1>7, <1>8 DEF PaidInv, PaidApart
<1> QED BY <1>10, <1>11 DEF PaidInv

LEMMA PaidStep ==
  ASSUME RunInv, PaidInv, [Next]_vars
  PROVE  PaidInv'
<1>0. Grows
  BY GrowthStep DEF RunInv
<1> USE DEF RunInv
<1>1. ASSUME NEW h \in Handlers, ExecuteWrite(h), Approved(h)
      PROVE  PaidInv'
  BY <1>0, <1>1, PaidOnExecute
<1>2. ASSUME NEW h \in Handlers, Begin(h)
      PROVE  PaidInv'
  BY <1>2, PaidOnBegin
<1>3. ASSUME NEW h \in Handlers, Refused(h) \/ Deliver(h) \/ GiveUp(h)
      PROVE  PaidInv'
  <2>1. PICK to \in JobStates : Goto(h, "answered", to)
    BY <1>3 DEF Refused, Deliver, GiveUp, JobStates
  <2>2. req'[h].op = "answered" /\ \A k \in Handlers \ {h} : req'[k] = req[k]
    BY <2>1, GoneOn DEF TypeOK, Ops
  <2>3. begun' = begun /\ exec' = exec
    BY <1>3 DEF Refused, Deliver, GiveUp, worker
  <2> QED BY <1>0, <2>2, <2>3, PaidKept
<1>4. ASSUME NEW h \in Handlers, Record(h)
      PROVE  PaidInv'
  <2>1. req'[h].op = "idle" /\ \A k \in Handlers \ {h} : req'[k] = req[k]
    BY <1>4, Replied, IdleFacts DEF Record, TypeOK
  <2>2. begun' = begun /\ exec' = exec
    BY <1>4 DEF Record, worker
  <2> QED BY <1>0, <2>1, <2>2, PaidKept
<1>5. CASE \E t \in Tickets : Play(t)
  <2>1. req' = req /\ begun' = begun /\ \A s \in Tickets : exec'[s] # "none" => exec[s] # "none"
    BY <1>5 DEF Play, TypeOK
  <2> QED BY <1>0, <2>1, PaidKept
<1>6. CASE ControlPlaneDies
  <2>1. begun' = begun /\ exec' = exec /\ \A h \in Handlers : req'[h].op = "idle"
    BY <1>6, IdleFacts DEF ControlPlaneDies, worker
  <2> QED BY <1>0, <2>1, PaidKept
<1>7. CASE WorkerDies
  <2>1. req' = req /\ begun' = begun /\ \A s \in Tickets : exec'[s] # "none" => exec[s] # "none"
    BY <1>7 DEF WorkerDies, TypeOK
  <2> QED BY <1>0, <2>1, PaidKept
<1>8. CASE Aside
  <2>1. begun' = begun /\ exec' = exec
        /\ \A h \in Handlers : req'[h].op = "calling" => req'[h] = req[h]
    BY <1>8 DEF Aside, Underway
  <2> QED BY <1>0, <2>1, PaidKept
<1> QED BY <1>1, <1>2, <1>3, <1>4, <1>5, <1>6, <1>7, <1>8, Cases

-----------------------------------------------------------------------------
(* EXECUTED means that the verification passed                             *)

\* Playbooks that have succeeded are never begun again, nor lost to a restart.
LEMMA SuccessStays ==
  ASSUME RunInv, PaidInv, [Next]_vars
  PROVE  \A t \in Tickets : exec[t] = "ok" => exec'[t] = "ok"
<1> USE DEF RunInv, TypeOK
<1>1. ASSUME NEW h \in Handlers, Begin(h)
      PROVE  \A t \in Tickets : exec[t] = "ok" => exec'[t] = "ok"
  <2>1. h \in Calling /\ req[h].n \in Tickets /\ req[h].n \notin Begun
    BY <1>1, Bought DEF Begin, Calling, Issued, PaidInv, Paid
  <2>2. exec[req[h].n] = "none"
    BY <2>1 DEF PaidInv, Paid
  <2> QED BY <1>1, <2>2 DEF Begin
<1>2. ASSUME NEW h \in Handlers,
             ExecuteWrite(h) \/ Refused(h) \/ Deliver(h) \/ GiveUp(h) \/ Record(h)
      PROVE  exec' = exec
  BY <1>2 DEF ExecuteWrite, Refused, Deliver, GiveUp, Record, worker
<1>3. CASE (\E t \in Tickets : Play(t)) \/ WorkerDies
  BY <1>3 DEF Play, WorkerDies
<1>4. CASE ControlPlaneDies \/ Aside
  BY <1>4 DEF ControlPlaneDies, Aside, worker
<1> QED BY <1>1, <1>2, <1>3, <1>4, Cases

LEMMA AnsweredStep ==
  ASSUME RunInv, PaidInv, AnsweredTruly, [Next]_vars
  PROVE  AnsweredTruly'
<1> USE DEF RunInv
<1> DEFINE Success(h) == req[h].op = "answered" /\ req[h].to = "SUCCEEDED"
<1>1. \A h \in Handlers : req[h].op = "answered" => req[h].n \in Tickets
  BY OnCallHolds DEF OnCall
<1>2. ASSUME \A h \in Handlers : Success(h)' => req'[h] = req[h]
      PROVE  AnsweredTruly'
  BY <1>1, <1>2, SuccessStays DEF AnsweredTruly
<1>3. ASSUME NEW h \in Handlers, NEW op \in {"calling", "waiting", "answered"},
             NEW to \in JobStates \cup {"NONE"}, Goto(h, op, to), to # "SUCCEEDED"
      PROVE  AnsweredTruly'
  <2>1. req'[h].to # "SUCCEEDED" /\ \A k \in Handlers \ {h} : req'[k] = req[k]
    BY <1>3, GoneOn DEF TypeOK, Ops
  <2> QED BY <1>2, <2>1
<1>4. ASSUME NEW h \in Handlers, ExecuteWrite(h), Approved(h)
      PROVE  AnsweredTruly'
  BY <1>3, <1>4 DEF ExecuteWrite, Approved, JobStates
<1>5. ASSUME NEW h \in Handlers, Refused(h) \/ Begin(h) \/ GiveUp(h)
      PROVE  AnsweredTruly'
  BY <1>3, <1>5 DEF Refused, Begin, GiveUp, JobStates
<1>6. ASSUME NEW h \in Handlers, Deliver(h)
      PROVE  AnsweredTruly'
  <2>1. CASE exec[req[h].n] # "ok"
    BY <1>3, <1>6, <2>1 DEF Deliver, JobStates
  <2>2. CASE exec[req[h].n] = "ok"
    <3>1. /\ req'[h].n = req[h].n /\ exec' = exec
          /\ \A k \in Handlers \ {h} : req'[k] = req[k]
      BY <1>6, <2>2, GoneOn DEF Deliver, TypeOK, Ops, JobStates, worker
    <3> QED BY <2>2, <3>1 DEF AnsweredTruly
  <2> QED BY <2>1, <2>2
<1>7. ASSUME NEW h \in Handlers, Record(h)
      PROVE  AnsweredTruly'
  <2>1. req'[h].op = "idle" /\ \A k \in Handlers \ {h} : req'[k] = req[k]
    BY <1>7, Replied, IdleFacts DEF Record, TypeOK
  <2> QED BY <1>2, <2>1
<1>8. CASE (\E t \in Tickets : Play(t)) \/ ControlPlaneDies \/ WorkerDies \/ Aside
  <2>1. \A h \in Handlers : Success(h)' => req'[h] = req[h]
    BY <1>8, IdleFacts DEF Play, ControlPlaneDies, WorkerDies, Aside, Underway
  <2> QED BY <1>2, <2>1
<1> QED BY <1>4, <1>5, <1>6, <1>7, <1>8, Cases

LEMMA VerifiedStep ==
  ASSUME RunInv, PaidInv, AnsweredTruly, ExecutedWasVerified, [Next]_vars
  PROVE  ExecutedWasVerified'
<1> USE DEF RunInv
<1>1. \A r \in Runs, t \in Tickets :
        ticket[t].run = r /\ exec[t] = "ok" => ticket'[t].run = r /\ exec'[t] = "ok"
  BY SuccessStays, GrowthStep DEF PaidInv, Paid, Grows
<1>2. ASSUME \A r \in Runs : cs'[r] = "EXECUTED" => cs[r] = "EXECUTED"
      PROVE  ExecutedWasVerified'
  BY <1>1, <1>2 DEF ExecutedWasVerified
<1>3. ASSUME NEW h \in Handlers, ExecuteWrite(h), Approved(h)
      PROVE  ExecutedWasVerified'
  BY <1>2, <1>3 DEF ExecuteWrite, Approved, TypeOK
<1>4. ASSUME NEW h \in Handlers, Record(h)
      PROVE  ExecutedWasVerified'
  <2>1. CASE UNCHANGED cs
    BY <1>2, <2>1
  <2>2. CASE ~UNCHANGED cs
    <3>1. /\ req[h].op = "answered"
          /\ cs' = [cs EXCEPT ![req[h].run] =
                      IF req[h].to = "SUCCEEDED" THEN "EXECUTED" ELSE "FAILED"]
      BY <1>4, <2>2 DEF Record, rows
    <3>2. CASE req[h].to = "SUCCEEDED"
      <4>1. /\ req[h].n \in Tickets /\ ticket[req[h].n].run = req[h].run
            /\ exec[req[h].n] = "ok"
        BY <3>1, <3>2, OnCallHolds DEF OnCall, AnsweredTruly
      <4>2. \A r \in Runs : cs'[r] = "EXECUTED" => cs[r] = "EXECUTED" \/ r = req[h].run
        BY <3>1 DEF TypeOK
      <4> QED BY <1>1, <4>1, <4>2 DEF ExecutedWasVerified
    <3>3. CASE req[h].to # "SUCCEEDED"
      BY <1>2, <3>1, <3>3 DEF TypeOK
    <3> QED BY <3>2, <3>3
  <2> QED BY <2>1, <2>2
<1>5. ASSUME NEW h \in Handlers, Refused(h) \/ Begin(h) \/ Deliver(h) \/ GiveUp(h)
      PROVE  ExecutedWasVerified'
  BY <1>2, <1>5 DEF Refused, Begin, Deliver, GiveUp, rows
<1>6. CASE (\E t \in Tickets : Play(t)) \/ ControlPlaneDies \/ WorkerDies \/ Aside
  BY <1>2, <1>6 DEF Play, ControlPlaneDies, WorkerDies, Aside, rows
<1> QED BY <1>3, <1>4, <1>5, <1>6, Cases

-----------------------------------------------------------------------------
(* Only a death, or the deletion of a job reported over, forgets            *)

LEMMA ForgetsStep ==
  ASSUME RunInv, OnlyACrashForgets, [Next]_vars
  PROVE  OnlyACrashForgets'
<1> USE DEF RunInv
<1> DEFINE Settles(h, r) == req[h].run = r /\ req[h].op \in {"calling", "waiting", "answered"}
<1>1. \A r \in Runs : cs[r] = "EXECUTING" => run[r] # NoRun
  BY DEF RowsKnown
<1>2. ASSUME crashes' = crashes,
             \A r \in Runs : cs'[r] = "EXECUTING" => cs[r] = "EXECUTING",
             \A r \in Runs : job[r] = NoJob => job'[r] = NoJob \/ run[r] = NoRun,
             \A r \in Runs, h \in Handlers :
               cs'[r] = "EXECUTING" /\ Settles(h, r) => Settles(h, r)' \/ job'[r] = NoJob
      PROVE  OnlyACrashForgets'
  BY <1>1, <1>2 DEF OnlyACrashForgets
<1>3. ASSUME NEW h \in Handlers, ExecuteWrite(h), Approved(h)
      PROVE  OnlyACrashForgets'
  <2>1. /\ req[h].op = "execute" /\ req[h].run \in Runs /\ crashes' = crashes
        /\ cs' = [cs EXCEPT ![req[h].run] = "EXECUTING"]
        /\ \E s, n, t : SetJob(req[h].run, s, n, t)
    BY <1>3, OnCallHolds DEF ExecuteWrite, Approved, OnCall, deaths
  <2>2. /\ req'[h].op = "calling" /\ req'[h].run = req[h].run
        /\ \A k \in Handlers \ {h} : req'[k] = req[k]
    BY <1>3, GoneOn DEF ExecuteWrite, Approved, TypeOK, Ops
  <2>3. \A r \in Runs : job[r] = NoJob => job'[r] = NoJob
    BY <2>1 DEF SetJob
  <2>4. \A r \in Runs, k \in Handlers : Settles(k, r) => Settles(k, r)'
    BY <2>1, <2>2
  <2>5. \A r \in Runs : cs'[r] = "EXECUTING" => cs[r] = "EXECUTING" \/ Settles(h, r)'
    BY <2>1, <2>2 DEF TypeOK
  <2> QED BY <2>1, <2>3, <2>4, <2>5 DEF OnlyACrashForgets
<1>4. ASSUME NEW h \in Handlers, Refused(h) \/ Begin(h) \/ Deliver(h) \/ GiveUp(h)
      PROVE  OnlyACrashForgets'
  <2>1. /\ UNCHANGED <<cs, job, crashes>>
        /\ \E op \in {"waiting", "answered"}, to \in JobStates \cup {"NONE"} : Goto(h, op, to)
    BY <1>4 DEF Refused, Begin, Deliver, GiveUp, JobStates, rows, deaths
  <2>2. \A k \in Handlers : k # h => req'[k] = req[k]
    BY <2>1, GoneOn DEF TypeOK, Ops
  <2>3. req'[h].run = req[h].run /\ req'[h].op \in {"waiting", "answered"}
    BY <2>1, GoneOn DEF TypeOK, Ops
  <2> QED BY <1>2, <2>1, <2>2, <2>3
<1>5. ASSUME NEW h \in Handlers, Record(h)
      PROVE  OnlyACrashForgets'
  <2>1. /\ req[h].op = "answered" /\ req[h].run \in Runs /\ crashes' = crashes
        /\ \A k \in Handlers \ {h} : req'[k] = req[k]
    BY <1>5, OnCallHolds, Replied DEF Record, OnCall, TypeOK, deaths
  <2>2. CASE job[req[h].run] = NoJob
    <3>1. UNCHANGED <<cs, job>>
      BY <1>5, <2>2 DEF Record, rows
    <3> QED BY <1>2, <2>1, <2>2, <3>1
  <2>3. CASE job[req[h].run] # NoJob
    <3>1. /\ cs' = [cs EXCEPT ![req[h].run] =
                      IF req[h].to = "SUCCEEDED" THEN "EXECUTED" ELSE "FAILED"]
          /\ \E s, n, t : SetJob(req[h].run, s, n, t)
      BY <1>5, <2>3 DEF Record
    <3>2. \A r \in Runs : cs'[r] = "EXECUTING" => cs[r] = "EXECUTING" /\ r # req[h].run
      BY <2>1, <3>1 DEF TypeOK
    <3>3. \A r \in Runs : job[r] = NoJob => job'[r] = NoJob
      BY <2>1, <3>1 DEF SetJob
    <3> QED BY <1>2, <2>1, <3>2, <3>3
  <2> QED BY <2>2, <2>3
<1>6. CASE (\E t \in Tickets : Play(t)) \/ WorkerDies
  <2>1. UNCHANGED <<cs, job, req, crashes>>
    BY <1>6 DEF Play, WorkerDies, rows, deaths
  <2> QED BY <1>2, <2>1
<1>7. CASE ControlPlaneDies
  BY <1>7 DEF ControlPlaneDies, OnlyACrashForgets, TypeOK
<1>8. CASE Aside
  BY <1>2, <1>8 DEF Aside, Underway
<1> QED BY <1>3, <1>4, <1>5, <1>6, <1>7, <1>8, Cases

-----------------------------------------------------------------------------
(* The theorems                                                            *)

LEMMA RunHolds == Spec => [](RunInv /\ PaidInv /\ AnsweredTruly)
<1>1. RunInv /\ PaidInv /\ AnsweredTruly /\ [Next]_vars
        => (RunInv /\ PaidInv /\ AnsweredTruly)'
  BY TypeStep, RequestsStep, RowsStep, PaidStep, AnsweredStep DEF RunInv
<1> QED BY <1>1, Initially, PTL DEF Spec

\* Rows, tickets, requests and the worker keep their shape, whatever the order
\* of the handlers' reads and writes.
THEOREM ProvisioningTypeCorrect == Spec => []TypeOK
<1>1. RunInv => TypeOK
  BY DEF RunInv
<1> QED BY <1>1, RunHolds, PTL

\* Every start of the playbooks has an approval of its own, which it has spent:
\* what execute_provider_job consumes before it calls the worker, and the ticket
\* it sends, make up for a worker that forgets its tickets when it restarts.
THEOREM EveryStartPaid == Spec => []EveryStartIsPaidFor
<1>1. RunInv /\ PaidInv => EveryStartIsPaidFor
  BY DEF RunInv, PaidInv, Paid, PaidApart, Begun, EveryStartIsPaidFor
<1> QED BY <1>1, RunHolds, PTL

\* A ChangeSet that execute_provider_job has written EXECUTED has had its
\* playbooks and the verification run to their end under a ticket of its run.
THEOREM ExecutedMeansVerified == Spec => []ExecutedWasVerified
<1>1. Init => ExecutedWasVerified
  BY DEF Init, ExecutedWasVerified
<1>2. RunInv /\ PaidInv /\ AnsweredTruly /\ ExecutedWasVerified /\ [Next]_vars
        => ExecutedWasVerified'
  BY VerifiedStep
<1> QED BY <1>1, <1>2, RunHolds, PTL DEF Spec

\* A ChangeSet is left EXECUTING with no request to settle it only when the
\* Control Plane has died, or its job has been deleted.
THEOREM OnlyDeathForgets == Spec => []OnlyACrashForgets
<1>1. Init => OnlyACrashForgets
  BY DEF Init, OnlyACrashForgets
<1>2. RunInv /\ OnlyACrashForgets /\ [Next]_vars => OnlyACrashForgets'
  BY ForgetsStep
<1> QED BY <1>1, <1>2, RunHolds, PTL DEF Spec
=============================================================================
