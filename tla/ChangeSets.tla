----------------------------- MODULE ChangeSets -----------------------------
(***************************************************************************)
(* The Control Plane's ChangeSet service: how a typed plan is created,     *)
(* previewed, approved, dispatched to the Kubernetes Broker and settled,   *)
(* while policy-generation bumps, target edits and expiry go on around it. *)
(*                                                                         *)
(* The service is one process.  A handler declared `def` runs in a thread  *)
(* of its own; the two declared `async def` (preview-live and execute) run *)
(* on the event loop, where one handler keeps the loop until it awaits.    *)
(* SQLite commits each handler's writes together, but its SELECTs run      *)
(* before the write transaction starts.  So a handler is a read step, in   *)
(* which every check is made and the values it will use are captured in    *)
(* req[h], and one later write step, which is atomic but re-checks only    *)
(* what its WHERE clauses say.                                             *)
(*                                                                         *)
(* Rows are values: the canonical plan, its hash and the approval MAC are  *)
(* immutable once stored, so hash and MAC comparisons always succeed here. *)
(*                                                                         *)
(* An operator whose comment starts with "Fault" is not part of the model: *)
(* it is the definition after it with a mistake in it, kept to show that a *)
(* property notices that mistake.                                          *)
(***************************************************************************)
EXTENDS Naturals, FiniteSets

CONSTANTS
  Changesets,   \* identifiers chg_... the service can hand out
  Approvals,    \* identifiers apr_... the service can hand out
  Tickets,      \* execution tickets the service can issue
  Handlers,     \* requests that can be in flight together
  People,       \* actors that request or approve
  Risk,         \* Risk[c]: classify(operation) of the plan stored as c
  Author,       \* Author[c]: requested_by of c
  Snapshots,    \* values of the canonical target and credential snapshot
  Configured,   \* those whose status is "configured"
  LiveStates,   \* values of the live-state hash a broker preview returns
  None,         \* no row, no value
  MaxGen,       \* bound: policy generations
  MaxCrashes    \* bound: process crashes

Risks == {"READ", "LOW", "HIGH", "CRITICAL"}

ASSUME RiskAssumption == Risk \in [Changesets -> Risks]
ASSUME AuthorAssumption == Author \in [Changesets -> People]
ASSUME ConfiguredAssumption == Configured \subseteq Snapshots
ASSUME BoundsAssumption == MaxGen \in Nat \ {0} /\ MaxCrashes \in Nat
ASSUME NoneAssumption ==
  None \notin UNION {Changesets, Tickets, Handlers, People, Snapshots, LiveStates}
ASSUME FinitenessAssumption == IsFiniteSet(Approvals)

VARIABLES
  gen,        \* system_state.policy_generation
  target,     \* current canonical snapshot of the target, None once deleted
  plan,       \* the immutable columns of each changesets row
  state,      \* changesets.state
  preview,    \* changesets.preview_json
  overdue,    \* changesets whose expires_at has passed
  approval,   \* the approvals table
  call,       \* broker calls dispatched so far, by ticket
  req,        \* the request each handler is serving
  loop,       \* the handler that holds the event loop between two awaits
  crashes     \* process crashes so far

vars == <<gen, target, plan, state, preview, overdue, approval, call, req,
          loop, crashes>>

-----------------------------------------------------------------------------
(* Values *)

Active == {"PLANNED", "PREVIEWED", "AWAITING_APPROVAL", "APPROVED"}
Terminal == {"REJECTED", "CANCELLED", "EXPIRED", "EXECUTED", "FAILED",
             "POLICY_DENIED", "PREVIEW_FAILED", "STALE_POLICY"}
States == Active \cup Terminal \cup {"EXECUTING"}

\* delete_target's own list of states that do not block deletion
Inactive == Terminal \ {"STALE_POLICY"}

NoPlan == [gen |-> 0, snap |-> None, source |-> None]
Plans == [gen: Nat, snap: Snapshots \cup {None}, source: Changesets \cup {None}]

\* A refused live preview is stored too: source "broker", no hash.
Previews == [source: {"none", "planner", "broker"}, hash: LiveStates \cup {None}]
NoPreview == [source |-> "none", hash |-> None]
PlannerPreview == [source |-> "planner", hash |-> None]
BrokerPreview(hash) == [source |-> "broker", hash |-> hash]

Withdrawn == {"REJECTED", "CANCELLED", "STALE_POLICY"}
ApprovalRows == [status: {"NONE", "APPROVED", "CONSUMED"} \cup Withdrawn,
                 cs: Changesets \cup {None}, by: People \cup {None},
                 overdue: BOOLEAN]
NoApproval == [status |-> "NONE", cs |-> None, by |-> None, overdue |-> FALSE]

Calls == [cs: Changesets \cup {None}, grants: SUBSET Approvals,
          hash: LiveStates \cup {None}]
NoCall == [cs |-> None, grants |-> {}, hash |-> None]

Ops == {"idle", "create", "preview", "request", "approve", "reject", "cancel",
        "expire", "bump", "drop", "live", "execute", "dispatched"}
Replies == {"none", "ok", "denied", "error"}
Requests == [op: Ops, cs: Changesets \cup {None}, who: People \cup {None},
             grants: SUBSET Approvals, gen: Nat,
             snap: Snapshots \cup {None}, source: Changesets \cup {None},
             ticket: Tickets \cup {None}, reply: Replies,
             hash: LiveStates \cup {None}]
Idle == [op |-> "idle", cs |-> None, who |-> None, grants |-> {}, gen |-> 0,
         snap |-> None, source |-> None, ticket |-> None, reply |-> "none",
         hash |-> None]

-----------------------------------------------------------------------------
(* Questions the handlers ask *)

ApprovalRequired(c) == Risk[c] \in {"HIGH", "CRITICAL"}
Required(c) == CASE Risk[c] = "CRITICAL" -> 2
                 [] Risk[c] = "HIGH" -> 1
                 [] OTHER -> 0

Stored(c) == plan[c] # NoPlan

\* _changeset returned the row as it was: either not overdue, or terminal.
Row(c, states) ==
  Stored(c) /\ state[c] \in states /\ (c \in overdue => state[c] \in Terminal)

CurrentPolicy(c) == plan[c].gen = gen

Standing(c) == {a \in Approvals : approval[a].cs = c /\ approval[a].status = "APPROVED"}
\* Fault: the SELECT forgets status='APPROVED'.
RecordedGrants(c) == {a \in Approvals : approval[a].cs = c /\ ~approval[a].overdue}
ValidGrants(c) == {a \in Standing(c) : ~approval[a].overdue}

\* Fault: rows are counted, not approvers.
QuorumOfRows(c, grants) ==
  grants \subseteq ValidGrants(c) /\ Cardinality(grants) = Required(c)

\* A choice of one valid approval for each of the required approvers.
Quorum(c, grants) ==
  /\ grants \subseteq ValidGrants(c)
  /\ Cardinality(grants) = Required(c)
  /\ \A a, b \in grants : approval[a].by = approval[b].by => a = b

Serve(h, r) == req[h] = Idle /\ req' = [req EXCEPT ![h] = r]
Answer(h) == req' = [req EXCEPT ![h] = Idle]
On(op, c) == [Idle EXCEPT !.op = op, !.cs = c]

\* Fault: execute_changeset declared `def`, each request in a thread of its own.
NoLoop == TRUE
LoopFree == loop = None

\* COUNT(DISTINCT approver) as approve_changeset runs it for request r, after
\* its INSERT: r.grants are the approvals that had lapsed when r was read.
\* Fault: COUNT(*).
CountRows(r) == (Standing(r.cs) \ r.grants) \cup {None}
CountedApprovers(r) ==
  {approval[a].by : a \in Standing(r.cs) \ r.grants} \cup {r.who}

SetState(c, s) == state' = [state EXCEPT ![c] = s]
\* Fault: the UPDATE forgets status='APPROVED'.
WithdrawAll(c, s) ==
  approval' = [a \in Approvals |->
                 IF approval[a].cs = c THEN [approval[a] EXCEPT !.status = s]
                                       ELSE approval[a]]
Withdraw(c, s) ==
  approval' = [a \in Approvals |->
                 IF a \in Standing(c) THEN [approval[a] EXCEPT !.status = s]
                                      ELSE approval[a]]

Init ==
  /\ gen = 1
  /\ target \in Configured
  /\ plan = [c \in Changesets |-> NoPlan]
  /\ state = [c \in Changesets |-> "PLANNED"]
  /\ preview = [c \in Changesets |-> NoPreview]
  /\ overdue = {}
  /\ approval = [a \in Approvals |-> NoApproval]
  /\ call = [t \in Tickets |-> NoCall]
  /\ req = [h \in Handlers |-> Idle]
  /\ loop = None
  /\ crashes = 0

-----------------------------------------------------------------------------
(* Creating plans *)

\* create_changeset and create_rollback_plan both end in _insert_changeset:
\* the generation and the target snapshot are read before the INSERT.
NewPlan(h, c, source) ==
  /\ ~Stored(c) /\ \A k \in Handlers : req[k].cs # c
  /\ target \in Configured
  /\ Serve(h, [On("create", c) EXCEPT !.gen = gen, !.snap = target,
                                      !.source = source])
  /\ UNCHANGED <<gen, target, plan, state, preview, overdue, approval, call,
                 loop, crashes>>

CreateRead(h, c) == NewPlan(h, c, None)

\* Fault: any settled ChangeSet can be rolled back.
RollbackReadSettled(h, c, source) ==
  Row(source, Terminal) /\ Risk[c] = "HIGH" /\ NewPlan(h, c, source)

\* Rollback operations all classify as HIGH.
RollbackRead(h, c, source) ==
  /\ Row(source, {"EXECUTED"})
  /\ Risk[c] = "HIGH"
  /\ NewPlan(h, c, source)

InsertWrite(h) ==
  LET r == req[h] IN
  /\ r.op = "create"
  /\ plan' = [plan EXCEPT ![r.cs] = [gen |-> r.gen, snap |-> r.snap,
                                     source |-> r.source]]
  /\ SetState(r.cs, "PLANNED")
  /\ Answer(h)
  /\ UNCHANGED <<gen, target, preview, overdue, approval, call, loop, crashes>>

-----------------------------------------------------------------------------
(* Preview, request, decisions: the handlers that run in threads *)

ReadOnly == UNCHANGED <<gen, target, plan, state, preview, overdue, approval,
                        call, loop, crashes>>

PreviewRead(h, c) ==
  /\ Row(c, {"PLANNED", "PREVIEWED"})
  /\ CurrentPolicy(c)
  /\ Serve(h, On("preview", c))
  /\ ReadOnly

PreviewWrite(h) ==
  /\ req[h].op = "preview"
  /\ preview' = [preview EXCEPT ![req[h].cs] = PlannerPreview]
  /\ SetState(req[h].cs, "PREVIEWED")
  /\ Answer(h)
  /\ UNCHANGED <<gen, target, plan, overdue, approval, call, loop, crashes>>

RequestRead(h, c) ==
  /\ Row(c, {"PREVIEWED"})
  /\ CurrentPolicy(c)
  /\ ApprovalRequired(c)
  /\ Serve(h, On("request", c))
  /\ ReadOnly

RequestWrite(h) ==
  /\ req[h].op = "request"
  /\ SetState(req[h].cs, "AWAITING_APPROVAL")
  /\ Answer(h)
  /\ UNCHANGED <<gen, target, plan, preview, overdue, approval, call, loop, crashes>>

\* The request keeps its own reading of the clock: the approvals that had
\* already lapsed when it started are the ones its COUNT leaves out.
ApproveRead(h, c, p) ==
  /\ Row(c, {"AWAITING_APPROVAL"})
  /\ CurrentPolicy(c)
  /\ Risk[c] \in {"HIGH", "CRITICAL"} => p # Author[c]
  /\ \A a \in ValidGrants(c) : approval[a].by # p
  /\ Serve(h, [On("approve", c) EXCEPT !.who = p,
                 !.grants = Standing(c) \ ValidGrants(c)])
  /\ ReadOnly

\* The COUNT runs inside the write transaction, after the INSERT.
ApproveWrite(h) ==
  LET r == req[h] IN
  /\ r.op = "approve"
  /\ \E a \in Approvals :
       /\ approval[a] = NoApproval
       /\ approval' = [approval EXCEPT ![a] =
            [status |-> "APPROVED", cs |-> r.cs, by |-> r.who,
             overdue |-> r.cs \in overdue]]
  /\ SetState(r.cs, IF Cardinality(CountedApprovers(r)) >= Required(r.cs)
                      THEN "APPROVED" ELSE "AWAITING_APPROVAL")
  /\ Answer(h)
  /\ UNCHANGED <<gen, target, plan, preview, overdue, call, loop, crashes>>

RejectRead(h, c) ==
  /\ Row(c, States \ Terminal)
  /\ CurrentPolicy(c)
  /\ Serve(h, On("reject", c))
  /\ ReadOnly

RejectWrite(h) ==
  /\ req[h].op = "reject"
  /\ SetState(req[h].cs, "REJECTED")
  /\ Withdraw(req[h].cs, "REJECTED")
  /\ Answer(h)
  /\ UNCHANGED <<gen, target, plan, preview, overdue, call, loop, crashes>>

\* Cancelling asks for no particular policy generation.
CancelRead(h, c) ==
  /\ Row(c, States \ Terminal)
  /\ Serve(h, On("cancel", c))
  /\ ReadOnly

CancelWrite(h) ==
  /\ req[h].op = "cancel"
  /\ SetState(req[h].cs, "CANCELLED")
  /\ Withdraw(req[h].cs, "CANCELLED")
  /\ Answer(h)
  /\ UNCHANGED <<gen, target, plan, preview, overdue, call, loop, crashes>>

\* Every handler reads through _changeset, which turns an overdue row into an
\* EXPIRED one by an UPDATE of its own; no handler goes on with that row.
ExpireRead(h, c) ==
  /\ Stored(c) /\ c \in overdue /\ state[c] \notin Terminal
  /\ Serve(h, On("expire", c))
  /\ ReadOnly

ExpireWrite(h) ==
  /\ req[h].op = "expire"
  /\ SetState(req[h].cs, "EXPIRED")
  /\ Answer(h)
  /\ UNCHANGED <<gen, target, plan, preview, overdue, approval, call, loop, crashes>>

-----------------------------------------------------------------------------
(* Policy generation and target *)

BumpRead(h) ==
  /\ gen < MaxGen
  /\ Serve(h, [Idle EXCEPT !.op = "bump", !.gen = gen])
  /\ ReadOnly

\* Fault: the approvals are withdrawn before the plans are made stale.
BumpWriteReordered(h) ==
  LET new == req[h].gen + 1
      stale == {c \in Changesets : Stored(c) /\ plan[c].gen # new /\ state[c] \in Active}
  IN
  /\ req[h].op = "bump"
  /\ gen' = new
  /\ state' = [c \in Changesets |-> IF c \in stale THEN "STALE_POLICY" ELSE state[c]]
  /\ approval' = [a \in Approvals |->
       IF \E c \in Changesets : a \in Standing(c) /\ state[c] = "STALE_POLICY"
         THEN [approval[a] EXCEPT !.status = "STALE_POLICY"] ELSE approval[a]]
  /\ Answer(h)
  /\ UNCHANGED <<target, plan, preview, overdue, call, loop, crashes>>

BumpWrite(h) ==
  LET new == req[h].gen + 1
      stale == {c \in Changesets : Stored(c) /\ plan[c].gen # new /\ state[c] \in Active}
  IN
  /\ req[h].op = "bump"
  /\ gen' = new
  /\ state' = [c \in Changesets |-> IF c \in stale THEN "STALE_POLICY" ELSE state[c]]
  /\ approval' = [a \in Approvals |->
       IF \E c \in Changesets : a \in Standing(c) /\ state'[c] = "STALE_POLICY"
         THEN [approval[a] EXCEPT !.status = "STALE_POLICY"] ELSE approval[a]]
  /\ Answer(h)
  /\ UNCHANGED <<target, plan, preview, overdue, call, loop, crashes>>

\* A target edit, or a credential-reference sync that changes its snapshot.
UpdateTarget(s) ==
  /\ target # None
  /\ target' = s
  /\ UNCHANGED <<gen, plan, state, preview, overdue, approval, call, req, loop, crashes>>

DeletionAllowed == \A c \in Changesets : Stored(c) => state[c] \in Inactive

DropRead(h) ==
  /\ target # None
  /\ DeletionAllowed
  /\ Serve(h, [Idle EXCEPT !.op = "drop"])
  /\ ReadOnly

DropWrite(h) ==
  /\ req[h].op = "drop"
  /\ target' = None
  /\ Answer(h)
  /\ UNCHANGED <<gen, plan, state, preview, overdue, approval, call, loop, crashes>>

-----------------------------------------------------------------------------
(* Live preview and execution: the handlers that run on the event loop *)

LiveRead(h, c) ==
  /\ LoopFree
  /\ Row(c, {"PLANNED", "PREVIEWED"})
  /\ CurrentPolicy(c)
  /\ target = plan[c].snap
  /\ Serve(h, On("live", c))
  /\ ReadOnly

\* kubernetes.post returns the broker's answer, or raises HTTPException: 403
\* as it is, anything else (the broker down, a timeout, a 4xx or 5xx) as an error.
Reply(h, reply, hash) ==
  /\ req[h].op \in {"live", "dispatched"} /\ req[h].reply = "none"
  /\ reply = "denied" => req[h].op = "live"
  /\ (hash # None) <=> (req[h].op = "live" /\ reply = "ok")
  /\ req' = [req EXCEPT ![h] = [@ EXCEPT !.reply = reply, !.hash = hash]]
  /\ ReadOnly

LiveFinish(h) ==
  LET r == req[h] IN
  /\ LoopFree
  /\ r.op = "live" /\ r.reply # "none"
  /\ preview' = [preview EXCEPT ![r.cs] = BrokerPreview(r.hash)]
  /\ SetState(r.cs, CASE r.reply = "ok" -> "PREVIEWED"
                      [] r.reply = "denied" -> "POLICY_DENIED"
                      [] OTHER -> "PREVIEW_FAILED")
  /\ Answer(h)
  /\ UNCHANGED <<gen, target, plan, overdue, approval, call, loop, crashes>>

\* The checks of execute_changeset, up to its first UPDATE.  It does not await
\* in between, so no other execute runs meanwhile; threads do.
ExecuteRead(h, c) ==
  /\ LoopFree
  /\ Row(c, {"PREVIEWED", "APPROVED"})
  /\ CurrentPolicy(c)
  /\ target = plan[c].snap
  /\ preview[c].source = "broker"
  /\ \E t \in Tickets : call[t] = NoCall   \* the bound on tickets
  /\ \E grants \in SUBSET Approvals :
       /\ Quorum(c, grants)
       /\ Serve(h, [On("execute", c) EXCEPT !.grants = grants, !.hash = preview[c].hash])
  /\ loop' = h
  /\ UNCHANGED <<gen, target, plan, state, preview, overdue, approval, call, crashes>>

\* Consume what is still APPROVED, mark the row, commit, and call the broker.
\* The number of approvals the UPDATE changed is not looked at.
ExecuteWrite(h) ==
  LET r == req[h] IN
  /\ r.op = "execute"
  /\ approval' = [a \in Approvals |->
       IF a \in r.grants /\ approval[a].status = "APPROVED"
         THEN [approval[a] EXCEPT !.status = "CONSUMED"] ELSE approval[a]]
  /\ SetState(r.cs, "EXECUTING")
  /\ \E t \in Tickets :
       /\ call[t] = NoCall
       /\ call' = [call EXCEPT ![t] = [cs |-> r.cs, grants |-> r.grants, hash |-> r.hash]]
       /\ req' = [req EXCEPT ![h] = [On("dispatched", r.cs) EXCEPT !.ticket = t]]
  /\ loop' = None
  /\ UNCHANGED <<gen, target, plan, preview, overdue, crashes>>

Settle(h, s) ==
  /\ LoopFree
  /\ req[h].op = "dispatched" /\ req[h].reply # "none"
  /\ SetState(req[h].cs, s)
  /\ Answer(h)
  /\ UNCHANGED <<gen, target, plan, preview, overdue, approval, call, loop, crashes>>

\* Fault: only a success is written back.
ExecuteFinishOnSuccess(h) == req[h].reply = "ok" /\ Settle(h, "EXECUTED")
\* Fault: the state name of an operation job.
ExecuteFinishAsJob(h) ==
  Settle(h, IF req[h].reply = "ok" THEN "SUCCEEDED" ELSE "FAILED")
ExecuteFinish(h) ==
  Settle(h, IF req[h].reply = "ok" THEN "EXECUTED" ELSE "FAILED")

-----------------------------------------------------------------------------
(* Time and failure *)

\* An approval expires no later than the ChangeSet it is for.
LapseChangeset(c) ==
  /\ Stored(c) /\ c \notin overdue
  /\ overdue' = overdue \cup {c}
  /\ approval' = [a \in Approvals |->
       IF approval[a].cs = c THEN [approval[a] EXCEPT !.overdue = TRUE] ELSE approval[a]]
  /\ UNCHANGED <<gen, target, plan, state, preview, call, req, loop, crashes>>

LapseApproval(a) ==
  /\ approval[a] # NoApproval /\ ~approval[a].overdue
  /\ approval' = [approval EXCEPT ![a] = [@ EXCEPT !.overdue = TRUE]]
  /\ UNCHANGED <<gen, target, plan, state, preview, overdue, call, req, loop, crashes>>

\* The process dies: requests in flight are lost, committed rows are not, and
\* nothing at start-up looks for rows left EXECUTING.
Crash ==
  /\ crashes < MaxCrashes
  /\ crashes' = crashes + 1
  /\ req' = [h \in Handlers |-> Idle]
  /\ loop' = None
  /\ UNCHANGED <<gen, target, plan, state, preview, overdue, approval, call>>

-----------------------------------------------------------------------------
Begin(h) ==
  \/ \E c \in Changesets :
       \/ CreateRead(h, c)
       \/ \E source \in Changesets : RollbackRead(h, c, source)
       \/ PreviewRead(h, c)
       \/ RequestRead(h, c)
       \/ \E p \in People : ApproveRead(h, c, p)
       \/ RejectRead(h, c)
       \/ CancelRead(h, c)
       \/ ExpireRead(h, c)
       \/ LiveRead(h, c)
       \/ ExecuteRead(h, c)
  \/ BumpRead(h)
  \/ DropRead(h)

Finish(h) ==
  \/ InsertWrite(h)
  \/ PreviewWrite(h)
  \/ RequestWrite(h)
  \/ ApproveWrite(h)
  \/ RejectWrite(h)
  \/ CancelWrite(h)
  \/ ExpireWrite(h)
  \/ BumpWrite(h)
  \/ DropWrite(h)
  \/ LiveFinish(h)
  \/ ExecuteWrite(h)
  \/ ExecuteFinish(h)

Outside ==
  \/ \E s \in Snapshots : UpdateTarget(s)
  \/ \E c \in Changesets : LapseChangeset(c)
  \/ \E a \in Approvals : LapseApproval(a)
  \/ Crash

Answers(h) == \E reply \in Replies \ {"none"}, hash \in LiveStates \cup {None} :
                Reply(h, reply, hash)

Next == Outside \/ \E h \in Handlers : Begin(h) \/ Finish(h) \/ Answers(h)

Spec == Init /\ [][Next]_vars

-----------------------------------------------------------------------------
(* Properties *)

(* Every variable keeps the shape of the columns and requests it stands    *)
(* for, whatever a handler wrote from values it had read earlier.          *)
TypeOK ==
  /\ gen \in Nat \ {0}
  /\ target \in Snapshots \cup {None}
  /\ plan \in [Changesets -> Plans]
  /\ state \in [Changesets -> States]
  /\ preview \in [Changesets -> Previews]
  /\ overdue \subseteq Changesets
  /\ approval \in [Approvals -> ApprovalRows]
  /\ call \in [Tickets -> Calls]
  /\ req \in [Handlers -> Requests]
  /\ loop \in Handlers \cup {None}
  /\ crashes \in Nat

Dispatched == {t \in Tickets : call[t] # NoCall}

(* SECURITY.md: "a network failure cannot replay the grant".  However       *)
(* requests interleave and whatever the broker answers, an approval backs  *)
(* at most one call to the broker.                                         *)
GrantUsedOnce ==
  \A s, t \in Dispatched : s # t => call[s].grants \cap call[t].grants = {}

(* Every call to the broker rests on as many distinct approvers as its     *)
(* risk asks for, who approved that very ChangeSet and none of whom asked  *)
(* for it.                                                                 *)
QuorumAtDispatch ==
  \A t \in Dispatched :
    LET grants == call[t].grants IN
    /\ Cardinality({approval[a].by : a \in grants}) >= Required(call[t].cs)
    /\ \A a \in grants : /\ approval[a].cs = call[t].cs
                          /\ approval[a].by # Author[call[t].cs]

(* approve_changeset moves a row to APPROVED only when enough different    *)
(* people approved it, even when one person's two requests race past the   *)
(* "already approved" check.                                               *)
ApprovedHasQuorum ==
  \A c \in Changesets : Stored(c) /\ state[c] = "APPROVED" =>
    Cardinality({approval[a].by : a \in {b \in Approvals : approval[b].cs = c}})
      >= Required(c)

(* Rejecting, cancelling or making a plan stale takes its approvals with   *)
(* it: no such ChangeSet is ever left holding an APPROVED approval, even   *)
(* by an approval that was being recorded at that moment.                  *)
DecidedHoldsNoGrant ==
  \A c \in Changesets : state[c] \in Withdrawn => Standing(c) = {}

(* An approval that was consumed or withdrawn never becomes usable again   *)
(* and never changes its verdict: the later of an execute and a cancel,    *)
(* reject or bump that race leaves the other's mark alone.                 *)
GrantsEndOnce ==
  [][\A a \in Approvals :
       approval[a].status \notin {"NONE", "APPROVED"} =>
         approval'[a].status = approval[a].status]_vars

(* Seen from outside, approvals obey OneTimeGrant: the request that holds  *)
(* the event loop between its checks and its writes is the one that has    *)
(* claimed its approvals.                                                  *)
Promise == INSTANCE OneTimeGrant WITH
  given <- {a \in Approvals : approval[a].status # "NONE"},
  revoked <- {a \in Approvals : approval[a].status \in Withdrawn},
  claims <- IF loop = None THEN {} ELSE {req[loop].grants},
  issued <- Dispatched,
  backs <- [t \in Tickets |-> call[t].grants]

KeepsGrantPromise == Promise!GrantSpec

(* A plan that calls itself a rollback undoes something: a call was made   *)
(* for the ChangeSet it was generated from, before the rollback existed.   *)
RollbackHasCause ==
  \A c \in Changesets : plan[c].source # None =>
    \E t \in Dispatched : call[t].cs = plan[c].source

=============================================================================
