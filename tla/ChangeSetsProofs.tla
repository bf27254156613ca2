-------------------------- MODULE ChangeSetsProofs --------------------------
(***************************************************************************)
(* Theorems about ChangeSets, for every set of ChangeSets, approvals,      *)
(* tickets, handlers and people, and with no bound on bumps or crashes;    *)
(* and about the two modules that extend it: Governance, which joins the   *)
(* service to the broker, and OperationJobs, which adds the jobs.          *)
(***************************************************************************)
EXTENDS Governance, OperationJobs, FiniteSetTheorems, SequenceTheorems, TLAPS

-----------------------------------------------------------------------------
(* Shapes of rows and requests *)

LEMMA IdleIsRequest == Idle \in Requests
  BY DEF Idle, Requests, Ops, Replies

LEMMA OnIsRequest ==
  ASSUME NEW op \in Ops, NEW c \in Changesets
  PROVE  /\ On(op, c) \in Requests
         /\ On(op, c).op = op /\ On(op, c).cs = c /\ On(op, c).grants = {}
  BY DEF On, Idle, Requests, Ops, Replies

LEMMA ConstantRows ==
  /\ NoPlan \in Plans /\ NoPreview \in Previews /\ PlannerPreview \in Previews
  /\ NoApproval \in ApprovalRows /\ NoCall \in Calls
  /\ Active \subseteq States /\ Terminal \subseteq States
  BY DEF NoPlan, Plans, NoPreview, PlannerPreview, Previews, NoApproval,
         ApprovalRows, NoCall, Calls, Active, Terminal, States

\* Serving or answering a request keeps req a table of requests.
LEMMA ServeType ==
  ASSUME req \in [Handlers -> Requests], NEW h \in Handlers,
         NEW r \in Requests, Serve(h, r)
  PROVE  req' \in [Handlers -> Requests]
  BY DEF Serve

LEMMA AnswerType ==
  ASSUME req \in [Handlers -> Requests], NEW h \in Handlers, Answer(h)
  PROVE  req' \in [Handlers -> Requests]
  BY IdleIsRequest DEF Answer

LEMMA WithdrawType ==
  ASSUME approval \in [Approvals -> ApprovalRows], NEW c \in Changesets,
         NEW s \in Withdrawn, Withdraw(c, s)
  PROVE  approval' \in [Approvals -> ApprovalRows]
  BY DEF Withdraw, ApprovalRows, Withdrawn, Standing

-----------------------------------------------------------------------------
(* Type correctness *)

LEMMA TypeInit == Init => TypeOK
  BY BoundsAssumption, ConfiguredAssumption, ConstantRows, IdleIsRequest
     DEF Init, TypeOK, States, Active

LEMMA TypeStep == TypeOK /\ [Next]_vars => TypeOK'
<1> SUFFICES ASSUME TypeOK, [Next]_vars
             PROVE  TypeOK'
  OBVIOUS
<1> USE DEF TypeOK
<1>1. ASSUME NEW h \in Handlers, NEW c \in Changesets, NEW source \in Changesets \cup {None},
             NewPlan(h, c, source)
      PROVE  TypeOK'
  <2>1. [On("create", c) EXCEPT !.gen = gen, !.snap = target, !.source = source] \in Requests
    BY DEF On, Idle, Requests, Ops, Replies
  <2> QED BY <1>1, <2>1, ServeType DEF NewPlan
<1>2. ASSUME NEW h \in Handlers, InsertWrite(h)
      PROVE  TypeOK'
  <2>1. req[h].cs \in Changesets \cup {None} /\ req[h].gen \in Nat
        /\ req[h].snap \in Snapshots \cup {None} /\ req[h].source \in Changesets \cup {None}
    BY DEF Requests
  <2>2. [gen |-> req[h].gen, snap |-> req[h].snap, source |-> req[h].source] \in Plans
    BY <2>1 DEF Plans
  <2>3. "PLANNED" \in States
    BY DEF States, Active
  <2> QED BY <1>2, <2>2, <2>3, AnswerType DEF InsertWrite, SetState
<1>3. ASSUME NEW h \in Handlers, NEW c \in Changesets, PreviewRead(h, c)
      PROVE  TypeOK'
  BY <1>3, OnIsRequest, ServeType DEF PreviewRead, ReadOnly, Ops
<1>4. ASSUME NEW h \in Handlers, NEW c \in Changesets, RequestRead(h, c)
      PROVE  TypeOK'
  BY <1>4, OnIsRequest, ServeType DEF RequestRead, ReadOnly, Ops
<1>5. ASSUME NEW h \in Handlers, NEW c \in Changesets, NEW p \in People, ApproveRead(h, c, p)
      PROVE  TypeOK'
  <2>1. [On("approve", c) EXCEPT !.who = p, !.grants = Standing(c) \ ValidGrants(c)] \in Requests
    BY DEF On, Idle, Requests, Ops, Replies, Standing
  <2> QED BY <1>5, <2>1, ServeType DEF ApproveRead, ReadOnly
<1>6. ASSUME NEW h \in Handlers, NEW c \in Changesets, RejectRead(h, c)
      PROVE  TypeOK'
  BY <1>6, OnIsRequest, ServeType DEF RejectRead, ReadOnly, Ops
<1>7. ASSUME NEW h \in Handlers, NEW c \in Changesets, CancelRead(h, c)
      PROVE  TypeOK'
  BY <1>7, OnIsRequest, ServeType DEF CancelRead, ReadOnly, Ops
<1>8. ASSUME NEW h \in Handlers, NEW c \in Changesets, ExpireRead(h, c)
      PROVE  TypeOK'
  BY <1>8, OnIsRequest, ServeType DEF ExpireRead, ReadOnly, Ops
<1>9. ASSUME NEW h \in Handlers, NEW c \in Changesets, LiveRead(h, c)
      PROVE  TypeOK'
  BY <1>9, OnIsRequest, ServeType DEF LiveRead, ReadOnly, Ops
<1>10. ASSUME NEW h \in Handlers, NEW c \in Changesets, ExecuteRead(h, c)
       PROVE  TypeOK'
  <2>1. PICK grants \in SUBSET Approvals :
          Serve(h, [On("execute", c) EXCEPT !.grants = grants, !.hash = preview[c].hash])
    BY <1>10 DEF ExecuteRead
  <2>2. preview[c].hash \in LiveStates \cup {None}
    BY DEF Previews
  <2>3. [On("execute", c) EXCEPT !.grants = grants, !.hash = preview[c].hash] \in Requests
    BY <2>2 DEF On, Idle, Requests, Ops, Replies
  <2> QED BY <1>10, <2>1, <2>3, ServeType DEF ExecuteRead
<1>11. ASSUME NEW h \in Handlers, BumpRead(h)
       PROVE  TypeOK'
  <2>1. [Idle EXCEPT !.op = "bump", !.gen = gen] \in Requests
    BY DEF Idle, Requests, Ops, Replies
  <2> QED BY <1>11, <2>1, ServeType DEF BumpRead, ReadOnly
<1>12. ASSUME NEW h \in Handlers, DropRead(h)
       PROVE  TypeOK'
  <2>1. [Idle EXCEPT !.op = "drop"] \in Requests
    BY DEF Idle, Requests, Ops, Replies
  <2> QED BY <1>12, <2>1, ServeType DEF DropRead, ReadOnly
<1>13. ASSUME NEW h \in Handlers, PreviewWrite(h)
       PROVE  TypeOK'
  BY <1>13, AnswerType, ConstantRows DEF PreviewWrite, SetState, States, Active
<1>14. ASSUME NEW h \in Handlers, RequestWrite(h)
       PROVE  TypeOK'
  BY <1>14, AnswerType DEF RequestWrite, SetState, States, Active
<1>15. ASSUME NEW h \in Handlers, ApproveWrite(h)
       PROVE  TypeOK'
  <2>1. PICK a \in Approvals : approval' = [approval EXCEPT ![a] =
            [status |-> "APPROVED", cs |-> req[h].cs, by |-> req[h].who,
             overdue |-> req[h].cs \in overdue]]
    BY <1>15 DEF ApproveWrite
  <2>2. req[h].cs \in Changesets \cup {None} /\ req[h].who \in People \cup {None}
    BY DEF Requests
  <2> DEFINE lapsed == req[h].cs \in overdue
  <2>3. lapsed \in BOOLEAN
    OBVIOUS
  <2> HIDE DEF lapsed
  <2>4. approval' = [approval EXCEPT ![a] =
            [status |-> "APPROVED", cs |-> req[h].cs, by |-> req[h].who, overdue |-> lapsed]]
    BY <2>1, Zenon DEF lapsed
  <2>5. [status |-> "APPROVED", cs |-> req[h].cs, by |-> req[h].who, overdue |-> lapsed]
          \in ApprovalRows
    BY <2>2, <2>3 DEF ApprovalRows
  <2>6. approval' \in [Approvals -> ApprovalRows]
    BY <2>4, <2>5
  <2> QED BY <1>15, <2>6, AnswerType DEF ApproveWrite, SetState, States, Active
<1>16. ASSUME NEW h \in Handlers, RejectWrite(h)
       PROVE  TypeOK'
  BY <1>16, AnswerType DEF RejectWrite, SetState, Withdraw, States, Terminal, Standing, ApprovalRows, Withdrawn
<1>17. ASSUME NEW h \in Handlers, CancelWrite(h)
       PROVE  TypeOK'
  BY <1>17, AnswerType DEF CancelWrite, SetState, Withdraw, States, Terminal, Standing, ApprovalRows, Withdrawn
<1>18. ASSUME NEW h \in Handlers, ExpireWrite(h)
       PROVE  TypeOK'
  BY <1>18, AnswerType DEF ExpireWrite, SetState, States, Terminal
<1>19. ASSUME NEW h \in Handlers, BumpWrite(h)
       PROVE  TypeOK'
  <2>1. req[h].gen \in Nat
    BY DEF Requests
  <2>2. gen' \in Nat \ {0}
    BY <1>19, <2>1 DEF BumpWrite
  <2>3. state' \in [Changesets -> States]
    BY <1>19 DEF BumpWrite, States, Terminal
  <2>4. approval' \in [Approvals -> ApprovalRows]
    BY <1>19 DEF BumpWrite, ApprovalRows, Withdrawn
  <2> QED BY <1>19, <2>2, <2>3, <2>4, AnswerType DEF BumpWrite
<1>20. ASSUME NEW h \in Handlers, DropWrite(h)
       PROVE  TypeOK'
  BY <1>20, AnswerType DEF DropWrite
<1>21. ASSUME NEW h \in Handlers, LiveFinish(h)
       PROVE  TypeOK'
  <2>1. req[h].hash \in LiveStates \cup {None}
    BY DEF Requests
  <2>2. BrokerPreview(req[h].hash) \in Previews
    BY <2>1 DEF BrokerPreview, Previews
  <2> QED BY <1>21, <2>2, AnswerType DEF LiveFinish, SetState, States, Active, Terminal
<1>22. ASSUME NEW h \in Handlers, ExecuteWrite(h)
       PROVE  TypeOK'
  <2>1. PICK t \in Tickets :
          /\ call' = [call EXCEPT ![t] = [cs |-> req[h].cs, grants |-> req[h].grants,
                                         hash |-> req[h].hash]]
          /\ req' = [req EXCEPT ![h] = [On("dispatched", req[h].cs) EXCEPT !.ticket = t]]
    BY <1>22 DEF ExecuteWrite
  <2>2. /\ req[h].cs \in Changesets \cup {None} /\ req[h].grants \in SUBSET Approvals
        /\ req[h].hash \in LiveStates \cup {None}
    BY DEF Requests
  <2>3. call' \in [Tickets -> Calls]
    BY <2>1, <2>2 DEF Calls
  <2>4. [On("dispatched", req[h].cs) EXCEPT !.ticket = t] \in Requests
    BY <2>2 DEF On, Idle, Requests, Ops, Replies
  <2>5. req' \in [Handlers -> Requests]
    BY <2>1, <2>4
  <2>6. approval' \in [Approvals -> ApprovalRows]
    BY <1>22 DEF ExecuteWrite, ApprovalRows
  <2> QED BY <1>22, <2>3, <2>5, <2>6 DEF ExecuteWrite, SetState, States
<1>23. ASSUME NEW h \in Handlers, ExecuteFinish(h)
       PROVE  TypeOK'
  BY <1>23, AnswerType DEF ExecuteFinish, Settle, SetState, States, Terminal
<1>24. ASSUME NEW h \in Handlers, NEW reply \in Replies, NEW hash \in LiveStates \cup {None},
              Reply(h, reply, hash)
       PROVE  TypeOK'
  <2>1. [req[h] EXCEPT !.reply = reply, !.hash = hash] \in Requests
    BY DEF Requests
  <2> QED BY <1>24, <2>1 DEF Reply, ReadOnly
<1>25. CASE Outside
  <2>1. ASSUME NEW s \in Snapshots, UpdateTarget(s)
        PROVE  TypeOK'
    BY <2>1 DEF UpdateTarget
  <2>2. ASSUME NEW c \in Changesets, LapseChangeset(c)
        PROVE  TypeOK'
    BY <2>2 DEF LapseChangeset, ApprovalRows
  <2>3. ASSUME NEW a \in Approvals, LapseApproval(a)
        PROVE  TypeOK'
    BY <2>3 DEF LapseApproval, ApprovalRows
  <2>4. CASE Crash
    BY <2>4, IdleIsRequest DEF Crash
  <2> QED BY <1>25, <2>1, <2>2, <2>3, <2>4 DEF Outside
<1>26. CASE UNCHANGED vars
  BY <1>26 DEF vars
<1> QED
  BY <1>1, <1>2, <1>3, <1>4, <1>5, <1>6, <1>7, <1>8, <1>9, <1>10, <1>11, <1>12, <1>13,
     <1>14, <1>15, <1>16, <1>17, <1>18, <1>19, <1>20, <1>21, <1>22, <1>23, <1>24, <1>25, <1>26
     DEF Next, Begin, Finish, Answers, CreateRead, RollbackRead

(* In every reachable state each variable has the shape of the columns and *)
(* requests it models, and the event loop is held by a handler or by none. *)
THEOREM TypeCorrect == Spec => []TypeOK
  BY TypeInit, TypeStep, PTL DEF Spec

-----------------------------------------------------------------------------
(* How a step can change the approvals and the claims on them              *)

\* An approval that exists keeps its ChangeSet and its approver for good, and
\* once it is no longer APPROVED it keeps its status.
Persists(a) ==
  approval[a].status # "NONE" =>
    /\ approval'[a].status # "NONE"
    /\ approval'[a].cs = approval[a].cs /\ approval'[a].by = approval[a].by
    /\ approval[a].status # "APPROVED" => approval'[a].status = approval[a].status

LEMMA ApprovalsPersist ==
  ASSUME TypeOK, [Next]_vars
  PROVE  \A a \in Approvals : Persists(a)
<1> USE DEF TypeOK
<1>1. CASE approval' = approval
  BY <1>1 DEF Persists
<1>2. ASSUME NEW h \in Handlers, ApproveWrite(h)
      PROVE  \A a \in Approvals : Persists(a)
  <2>1. PICK a \in Approvals :
          /\ approval[a] = NoApproval
          /\ approval' = [approval EXCEPT ![a] =
               [status |-> "APPROVED", cs |-> req[h].cs, by |-> req[h].who,
                overdue |-> req[h].cs \in overdue]]
    BY <1>2 DEF ApproveWrite
  <2>2. \A b \in Approvals \ {a} : approval'[b] = approval[b]
    BY <2>1
  <2>3. approval[a].status = "NONE"
    BY <2>1 DEF NoApproval
  <2> QED BY <2>2, <2>3 DEF Persists
<1>3. ASSUME NEW c \in Changesets \cup {None}, NEW s \in Withdrawn, Withdraw(c, s)
      PROVE  \A a \in Approvals : Persists(a)
  BY <1>3 DEF Withdraw, Standing, Persists, ApprovalRows, Withdrawn
<1>4. ASSUME NEW h \in Handlers, BumpWrite(h)
      PROVE  \A a \in Approvals : Persists(a)
  BY <1>4 DEF BumpWrite, Standing, Persists, ApprovalRows
<1>5. ASSUME NEW h \in Handlers, ExecuteWrite(h)
      PROVE  \A a \in Approvals : Persists(a)
  BY <1>5 DEF ExecuteWrite, Persists, ApprovalRows
<1>6. ASSUME NEW c \in Changesets, LapseChangeset(c)
      PROVE  \A a \in Approvals : Persists(a)
  BY <1>6 DEF LapseChangeset, Persists, ApprovalRows
<1>7. ASSUME NEW b \in Approvals, LapseApproval(b)
      PROVE  \A a \in Approvals : Persists(a)
  BY <1>7 DEF LapseApproval, Persists, ApprovalRows
<1>8. \A h \in Handlers : req[h].cs \in Changesets \cup {None}
  BY DEF Requests
<1>9. \A h \in Handlers : RejectWrite(h) \/ CancelWrite(h) => \A a \in Approvals : Persists(a)
  BY <1>3, <1>8 DEF RejectWrite, CancelWrite, Withdrawn
<1>10. CASE \E h \in Handlers : Begin(h)
  BY <1>1, <1>10 DEF Begin, CreateRead, RollbackRead, NewPlan, PreviewRead, RequestRead,
     ApproveRead, RejectRead, CancelRead, ExpireRead, LiveRead, ExecuteRead, BumpRead,
     DropRead, ReadOnly
<1>11. CASE \E h \in Handlers : Finish(h)
  BY <1>1, <1>2, <1>4, <1>5, <1>9, <1>11 DEF Finish, InsertWrite, PreviewWrite,
     RequestWrite, ExpireWrite, DropWrite, LiveFinish, ExecuteFinish, Settle
<1>12. CASE \E h \in Handlers : Answers(h)
  BY <1>1, <1>12 DEF Answers, Reply, ReadOnly
<1>13. CASE Outside
  BY <1>1, <1>6, <1>7, <1>13 DEF Outside, UpdateTarget, Crash
<1>14. CASE UNCHANGED vars
  BY <1>1, <1>14 DEF vars
<1> QED BY <1>10, <1>11, <1>12, <1>13, <1>14 DEF Next

(* Whatever races it, a consumed or withdrawn approval keeps its verdict.  *)
THEOREM GrantsEndForGood == Spec => GrantsEndOnce
<1>1. TypeOK /\ [Next]_vars => [\A a \in Approvals :
         approval[a].status \notin {"NONE", "APPROVED"} =>
           approval'[a].status = approval[a].status]_vars
  BY ApprovalsPersist DEF Persists
<1> QED BY <1>1, TypeCorrect, PTL DEF Spec, GrantsEndOnce

\* A step that leaves the calls, the loop and the claim of whoever executes.
Quiet ==
  /\ call' = call
  /\ loop' = loop
  /\ \A h \in Handlers :
       req'[h] = req[h] \/ (req[h].op # "execute" /\ req'[h].op # "execute")

\* Serving a request makes a handler busy with that request and no other.
LEMMA Served ==
  ASSUME req \in [Handlers -> Requests], NEW h \in Handlers, NEW r, Serve(h, r)
  PROVE  /\ req[h] = Idle /\ req[h].op = "idle" /\ req'[h] = r
         /\ \A k \in Handlers \ {h} : req'[k] = req[k]
  BY DEF Serve, Idle

LEMMA RequestOp == \A op, c : On(op, c).op = op /\ On(op, c).cs = c
  BY DEF On, Idle

LEMMA ServeIsQuiet ==
  ASSUME req \in [Handlers -> Requests], NEW h \in Handlers, NEW r, Serve(h, r),
         r.op # "execute", call' = call, loop' = loop
  PROVE  Quiet
  BY Served DEF Quiet

LEMMA StepKinds ==
  ASSUME TypeOK, [Next]_vars
  PROVE  \/ Quiet
         \/ \E h \in Handlers, c \in Changesets : ExecuteRead(h, c)
         \/ \E h \in Handlers : ExecuteWrite(h)
         \/ Crash
<1> USE DEF TypeOK
<1>1. ASSUME NEW h \in Handlers, NEW c \in Changesets, NEW source \in Changesets \cup {None},
             NewPlan(h, c, source)
      PROVE  Quiet
  <2>1. [On("create", c) EXCEPT !.gen = gen, !.snap = target, !.source = source].op # "execute"
    BY DEF On, Idle
  <2> QED BY <1>1, <2>1, ServeIsQuiet DEF NewPlan
<1>2. ASSUME NEW h \in Handlers, NEW c \in Changesets,
             PreviewRead(h, c) \/ RequestRead(h, c) \/ RejectRead(h, c) \/ CancelRead(h, c)
               \/ ExpireRead(h, c) \/ LiveRead(h, c)
      PROVE  Quiet
  BY <1>2, ServeIsQuiet, RequestOp DEF PreviewRead, RequestRead, RejectRead, CancelRead,
     ExpireRead, LiveRead, ReadOnly
<1>3. ASSUME NEW h \in Handlers, NEW c \in Changesets, NEW p \in People, ApproveRead(h, c, p)
      PROVE  Quiet
  <2>1. [On("approve", c) EXCEPT !.who = p, !.grants = Standing(c) \ ValidGrants(c)].op # "execute"
    BY DEF On, Idle
  <2> QED BY <1>3, <2>1, ServeIsQuiet DEF ApproveRead, ReadOnly
<1>4. ASSUME NEW h \in Handlers, BumpRead(h) \/ DropRead(h)
      PROVE  Quiet
  <2>1. /\ [Idle EXCEPT !.op = "bump", !.gen = gen].op # "execute"
        /\ [Idle EXCEPT !.op = "drop"].op # "execute"
    BY DEF Idle
  <2> QED BY <1>4, <2>1, ServeIsQuiet DEF BumpRead, DropRead, ReadOnly
<1>5. ASSUME NEW h \in Handlers, Finish(h), ~ExecuteWrite(h)
      PROVE  Quiet
  <2>1. req[h].op # "execute" /\ Answer(h) /\ call' = call /\ loop' = loop
    BY <1>5 DEF Finish, InsertWrite, PreviewWrite, RequestWrite, ApproveWrite,
       RejectWrite, CancelWrite, ExpireWrite, BumpWrite, DropWrite, LiveFinish, ExecuteFinish, Settle
  <2> QED BY <2>1 DEF Quiet, Answer, Idle
<1>6. ASSUME NEW h \in Handlers, Answers(h)
      PROVE  Quiet
  <2>1. req[h].op \in {"live", "dispatched"} /\ req'[h].op = req[h].op
    BY <1>6 DEF Answers, Reply, Requests
  <2>2. \A k \in Handlers \ {h} : req'[k] = req[k]
    BY <1>6 DEF Answers, Reply
  <2> QED BY <1>6, <2>1, <2>2 DEF Quiet, Answers, Reply, ReadOnly
<1>7. CASE Outside /\ ~Crash
  BY <1>7 DEF Outside, Quiet, UpdateTarget, LapseChangeset, LapseApproval
<1>8. CASE UNCHANGED vars
  BY <1>8 DEF Quiet, vars
<1> QED
  BY <1>1, <1>2, <1>3, <1>4, <1>5, <1>6, <1>7, <1>8
     DEF Next, Begin, Finish, CreateRead, RollbackRead

-----------------------------------------------------------------------------
(* An approval backs one dispatch at most                                  *)

\* The request between its checks and its writes is the one on the event loop.
LoopHeld == \A h \in Handlers : req[h].op = "execute" <=> loop = h

\* What a dispatch rests on can no longer be picked by another request.
GrantsTaken ==
  \A t \in Tickets : \A a \in call[t].grants : approval[a].status \notin {"NONE", "APPROVED"}

\* What the request on the loop has picked is in no dispatch yet.
GrantsClaimed ==
  \A h \in Handlers : req[h].op = "execute" =>
    /\ req[h].cs \in Changesets
    /\ \A a \in req[h].grants :
         approval[a].status # "NONE" /\ \A t \in Tickets : a \notin call[t].grants

GrantsApart ==
  \A s, t \in Tickets : s # t => call[s].grants \cap call[t].grants = {}

GrantInv == LoopHeld /\ GrantsTaken /\ GrantsClaimed /\ GrantsApart

LEMMA GrantInit == Init => GrantInv
  BY NoneAssumption DEF Init, GrantInv, LoopHeld, GrantsTaken, GrantsClaimed, GrantsApart,
     Idle, NoCall

\* The checks of execute_changeset, seen from the approvals.
LEMMA ExecuteReadFacts ==
  ASSUME TypeOK, NEW h \in Handlers, NEW c \in Changesets, ExecuteRead(h, c)
  PROVE  /\ loop = None /\ loop' = h /\ approval' = approval /\ call' = call
         /\ req[h].op = "idle" /\ req'[h].op = "execute" /\ req'[h].cs = c
         /\ req'[h].grants \subseteq Approvals /\ Quorum(c, req'[h].grants)
         /\ \A k \in Handlers \ {h} : req'[k] = req[k]
<1>1. PICK grants \in SUBSET Approvals :
        /\ Quorum(c, grants)
        /\ Serve(h, [On("execute", c) EXCEPT !.grants = grants, !.hash = preview[c].hash])
  BY DEF ExecuteRead
<1> DEFINE r == [On("execute", c) EXCEPT !.grants = grants, !.hash = preview[c].hash]
<1>2. r.op = "execute" /\ r.cs = c /\ r.grants = grants
  BY DEF On, Idle
<1> QED BY <1>1, <1>2, Served DEF ExecuteRead, LoopFree, TypeOK

\* Its writes, seen from the approvals.
LEMMA ExecuteWriteFacts ==
  ASSUME TypeOK, NEW h \in Handlers, ExecuteWrite(h)
  PROVE  /\ req[h].op = "execute" /\ loop' = None /\ req'[h].op = "dispatched"
         /\ \A k \in Handlers \ {h} : req'[k] = req[k]
         /\ req[h].grants \subseteq Approvals
         /\ \A a \in Approvals : approval'[a].status =
              IF a \in req[h].grants /\ approval[a].status = "APPROVED"
                THEN "CONSUMED" ELSE approval[a].status
         /\ \E t \in Tickets :
              /\ call[t] = NoCall
              /\ call'[t] = [cs |-> req[h].cs, grants |-> req[h].grants, hash |-> req[h].hash]
              /\ \A s \in Tickets \ {t} : call'[s] = call[s]
<1>1. PICK t \in Tickets :
        /\ call[t] = NoCall
        /\ call' = [call EXCEPT ![t] = [cs |-> req[h].cs, grants |-> req[h].grants,
                                       hash |-> req[h].hash]]
        /\ req' = [req EXCEPT ![h] = [On("dispatched", req[h].cs) EXCEPT !.ticket = t]]
  BY DEF ExecuteWrite
<1>2. [On("dispatched", req[h].cs) EXCEPT !.ticket = t].op = "dispatched"
  BY DEF On, Idle
<1>3. req'[h].op = "dispatched" /\ \A k \in Handlers \ {h} : req'[k] = req[k]
  BY <1>1, <1>2 DEF TypeOK
<1>4. /\ call'[t] = [cs |-> req[h].cs, grants |-> req[h].grants, hash |-> req[h].hash]
      /\ \A s \in Tickets \ {t} : call'[s] = call[s]
  BY <1>1 DEF TypeOK
<1>5. \A a \in Approvals : approval'[a].status =
              IF a \in req[h].grants /\ approval[a].status = "APPROVED"
                THEN "CONSUMED" ELSE approval[a].status
  BY DEF ExecuteWrite, TypeOK, ApprovalRows
<1>6. req[h].grants \subseteq Approvals
  BY DEF TypeOK, Requests
<1> QED BY <1>1, <1>3, <1>4, <1>5, <1>6 DEF ExecuteWrite

LEMMA GrantStep == TypeOK /\ GrantInv /\ [Next]_vars => GrantInv'
<1> SUFFICES ASSUME TypeOK, GrantInv, [Next]_vars
             PROVE  GrantInv'
  OBVIOUS
<1>1. \A a \in Approvals : Persists(a)
  BY ApprovalsPersist
<1>2. \A t \in Tickets : call[t].grants \subseteq Approvals
  BY DEF TypeOK, Calls
<1>3. \A h \in Handlers : req[h].grants \subseteq Approvals
  BY DEF TypeOK, Requests
<1> USE DEF GrantInv, LoopHeld, GrantsTaken, GrantsClaimed, GrantsApart
<1>4. CASE Quiet
  BY <1>1, <1>2, <1>3, <1>4 DEF Quiet, Persists
<1>5. ASSUME NEW h \in Handlers, NEW c \in Changesets, ExecuteRead(h, c)
      PROVE  GrantInv'
  <2>1. \A a \in req'[h].grants : approval[a].status = "APPROVED"
    BY <1>5, ExecuteReadFacts DEF Quorum, ValidGrants, Standing
  <2>2. \A k \in Handlers : req[k].op # "execute"
    BY <1>5, ExecuteReadFacts, NoneAssumption
  <2> QED BY <1>2, <1>5, <2>1, <2>2, ExecuteReadFacts
<1>6. ASSUME NEW h \in Handlers, ExecuteWrite(h)
      PROVE  GrantInv'
  <2>1. /\ req[h].op = "execute" /\ loop' = None /\ req'[h].op = "dispatched"
        /\ \A k \in Handlers \ {h} : req'[k] = req[k]
        /\ \A a \in req[h].grants : approval'[a].status =
             IF approval[a].status = "APPROVED" THEN "CONSUMED" ELSE approval[a].status
    BY <1>3, <1>6, ExecuteWriteFacts
  <2>2. PICK t \in Tickets :
          /\ call'[t].grants = req[h].grants
          /\ \A s \in Tickets \ {t} : call'[s] = call[s]
    <3>1. PICK t \in Tickets :
            /\ call'[t] = [cs |-> req[h].cs, grants |-> req[h].grants, hash |-> req[h].hash]
            /\ \A s \in Tickets \ {t} : call'[s] = call[s]
      BY <1>6, ExecuteWriteFacts
    <3> QED BY <3>1
  <2>3. \A k \in Handlers : req'[k].op # "execute"
    BY <2>1
  <2>4. LoopHeld' /\ GrantsClaimed'
    BY <2>1, <2>3, NoneAssumption
  <2>5. GrantsApart'
    BY <2>1, <2>2
  <2>6. \A a \in req[h].grants : approval'[a].status \notin {"NONE", "APPROVED"}
    BY <2>1
  <2>7. GrantsTaken'
    BY <1>1, <1>2, <2>2, <2>6 DEF Persists
  <2> QED BY <2>4, <2>5, <2>7
<1>7. CASE Crash
  BY <1>7, NoneAssumption DEF Crash, Idle
<1> QED BY <1>4, <1>5, <1>6, <1>7, StepKinds

LEMMA GrantsHold == Spec => []GrantInv
  BY GrantInit, GrantStep, TypeCorrect, PTL DEF Spec

(* Whatever interleaves, however often execute is called and whatever the  *)
(* broker answers, no approval backs two broker calls: the event loop is   *)
(* held from the choice of the approvals to the commit that consumes them. *)
THEOREM EachGrantUsedOnce == Spec => []GrantUsedOnce
<1>1. GrantInv => GrantUsedOnce
  BY DEF GrantInv, GrantsApart, GrantUsedOnce, Dispatched
<1> QED BY <1>1, GrantsHold, PTL

-----------------------------------------------------------------------------
(* A decided ChangeSet holds no usable approval                            *)

LEMMA DecidedStep == TypeOK /\ DecidedHoldsNoGrant /\ [Next]_vars => DecidedHoldsNoGrant'
<1> SUFFICES ASSUME TypeOK, DecidedHoldsNoGrant, [Next]_vars
             PROVE  DecidedHoldsNoGrant'
  OBVIOUS
<1> USE DEF TypeOK, DecidedHoldsNoGrant
\* Steps that decide nothing and give no approval.
<1>1. ASSUME \A c \in Changesets : state'[c] \in Withdrawn => state[c] \in Withdrawn,
             \A a \in Approvals : approval'[a].status = "APPROVED" =>
               approval[a].status = "APPROVED" /\ approval'[a].cs = approval[a].cs
      PROVE  DecidedHoldsNoGrant'
  BY <1>1 DEF Standing
<1>2. ASSUME approval' = approval, state' = state
      PROVE  DecidedHoldsNoGrant'
  BY <1>2 DEF Standing
<1>3. CASE \E h \in Handlers : Begin(h)
  BY <1>2, <1>3 DEF Begin, CreateRead, RollbackRead, NewPlan, PreviewRead, RequestRead,
     ApproveRead, RejectRead, CancelRead, ExpireRead, LiveRead, ExecuteRead, BumpRead,
     DropRead, ReadOnly
<1>4. ASSUME NEW h \in Handlers,
             InsertWrite(h) \/ PreviewWrite(h) \/ RequestWrite(h) \/ ExpireWrite(h)
               \/ LiveFinish(h) \/ ExecuteFinish(h) \/ DropWrite(h)
      PROVE  DecidedHoldsNoGrant'
  <2>1. approval' = approval
    BY <1>4 DEF InsertWrite, PreviewWrite, RequestWrite, ExpireWrite, LiveFinish,
       ExecuteFinish, Settle, DropWrite
  <2>2. \A c \in Changesets : state'[c] \in Withdrawn => state[c] \in Withdrawn
    BY <1>4 DEF InsertWrite, PreviewWrite, RequestWrite, ExpireWrite, LiveFinish,
       ExecuteFinish, Settle, DropWrite, SetState, Withdrawn
  <2> QED BY <1>1, <2>1, <2>2
<1>5. ASSUME NEW h \in Handlers, ExecuteWrite(h)
      PROVE  DecidedHoldsNoGrant'
  <2>1. \A a \in Approvals : approval'[a].status = "APPROVED" =>
               approval[a].status = "APPROVED" /\ approval'[a].cs = approval[a].cs
    BY <1>5 DEF ExecuteWrite, ApprovalRows
  <2>2. \A c \in Changesets : state'[c] \in Withdrawn => state[c] \in Withdrawn
    BY <1>5 DEF ExecuteWrite, SetState, Withdrawn
  <2> QED BY <1>1, <2>1, <2>2
<1>6. ASSUME NEW h \in Handlers, ApproveWrite(h)
      PROVE  DecidedHoldsNoGrant'
  <2>1. PICK a \in Approvals : approval' = [approval EXCEPT ![a] =
            [status |-> "APPROVED", cs |-> req[h].cs, by |-> req[h].who,
             overdue |-> req[h].cs \in overdue]]
    BY <1>6 DEF ApproveWrite
  <2>2. approval'[a].cs = req[h].cs /\ \A b \in Approvals \ {a} : approval'[b] = approval[b]
    BY <2>1
  <2>3. \A c \in Changesets : IF c = req[h].cs THEN state'[c] \notin Withdrawn
                                               ELSE state'[c] = state[c]
    BY <1>6 DEF ApproveWrite, SetState, Withdrawn
  <2> QED BY <2>2, <2>3 DEF Standing
<1>7. ASSUME NEW d \in Changesets \cup {None}, NEW s \in Withdrawn,
             SetState(d, s), Withdraw(d, s)
      PROVE  DecidedHoldsNoGrant'
  <2>1. \A a \in Approvals : IF a \in Standing(d)
          THEN approval'[a].status = s
          ELSE approval'[a] = approval[a]
    BY <1>7 DEF Withdraw, ApprovalRows
  <2>2. Standing(d)' = {}
    BY <2>1 DEF Standing, Withdrawn
  <2>3. \A c \in Changesets \ {d} : state'[c] = state[c] /\ Standing(c)' \subseteq Standing(c)
    BY <1>7, <2>1 DEF SetState, Standing, Withdrawn
  <2> QED BY <2>2, <2>3
<1>8. ASSUME NEW h \in Handlers, BumpWrite(h)
      PROVE  DecidedHoldsNoGrant'
  <2>1. \A c \in Changesets : Standing(c)' \subseteq Standing(c)
    BY <1>8 DEF BumpWrite, Standing, ApprovalRows
  <2>2. \A c \in Changesets : state'[c] = "STALE_POLICY" => Standing(c)' = {}
    BY <1>8 DEF BumpWrite, Standing, ApprovalRows
  <2>3. \A c \in Changesets : state'[c] # "STALE_POLICY" => state'[c] = state[c]
    BY <1>8 DEF BumpWrite
  <2> QED BY <2>1, <2>2, <2>3
<1>9. CASE \E h \in Handlers : Finish(h)
  <2>1. ASSUME NEW h \in Handlers, RejectWrite(h) \/ CancelWrite(h)
        PROVE  DecidedHoldsNoGrant'
    <3>1. req[h].cs \in Changesets \cup {None}
      BY DEF Requests
    <3> QED BY <1>7, <2>1, <3>1 DEF RejectWrite, CancelWrite, Withdrawn
  <2> QED BY <1>4, <1>5, <1>6, <1>8, <1>9, <2>1 DEF Finish
<1>10. CASE \E h \in Handlers : Answers(h)
  BY <1>2, <1>10 DEF Answers, Reply, ReadOnly
<1>11. CASE Outside
  <2>1. ASSUME NEW c \in Changesets, LapseChangeset(c)
        PROVE  DecidedHoldsNoGrant'
    BY <2>1 DEF LapseChangeset, Standing, ApprovalRows
  <2>2. ASSUME NEW a \in Approvals, LapseApproval(a)
        PROVE  DecidedHoldsNoGrant'
    BY <2>2 DEF LapseApproval, Standing, ApprovalRows
  <2> QED BY <1>2, <1>11, <2>1, <2>2 DEF Outside, UpdateTarget, Crash
<1>12. CASE UNCHANGED vars
  BY <1>2, <1>12 DEF vars
<1> QED BY <1>3, <1>9, <1>10, <1>11, <1>12 DEF Next

(* An approval in flight cannot leave a usable approval behind on a plan   *)
(* that was rejected, cancelled or made stale.                             *)
THEOREM DecisionsWithdrawGrants == Spec => []DecidedHoldsNoGrant
<1>1. Init => DecidedHoldsNoGrant
  BY DEF Init, DecidedHoldsNoGrant, Withdrawn
<1> QED BY <1>1, DecidedStep, TypeCorrect, PTL DEF Spec

-----------------------------------------------------------------------------
(* The service implements OneTimeGrant                                     *)

\* Approvals come into being one at a time, each by a request to approve.
Given(a, h) ==
  /\ req[h].op = "approve"
  /\ approval[a].status = "NONE" /\ approval'[a].status = "APPROVED"
  /\ approval'[a].cs = req[h].cs /\ approval'[a].by = req[h].who
  /\ \A b \in Approvals \ {a} : approval'[b] = approval[b]

NoneGiven ==
  \A a \in Approvals : approval[a].status = "NONE" =>
    approval'[a].status = "NONE" /\ approval'[a].cs = approval[a].cs

LEMMA GivenOneByOne ==
  ASSUME TypeOK, [Next]_vars
  PROVE  NoneGiven \/ \E h \in Handlers, a \in Approvals : ApproveWrite(h) /\ Given(a, h)
<1> USE DEF TypeOK
<1>1. ASSUME approval' = approval PROVE NoneGiven
  BY <1>1 DEF NoneGiven
<1>2. ASSUME NEW h \in Handlers, ApproveWrite(h)
      PROVE  \E a \in Approvals : ApproveWrite(h) /\ Given(a, h)
  <2>1. PICK a \in Approvals :
          /\ approval[a] = NoApproval
          /\ approval' = [approval EXCEPT ![a] =
               [status |-> "APPROVED", cs |-> req[h].cs, by |-> req[h].who,
                overdue |-> req[h].cs \in overdue]]
    BY <1>2 DEF ApproveWrite
  <2>2. /\ approval'[a].status = "APPROVED"
        /\ approval'[a].cs = req[h].cs /\ approval'[a].by = req[h].who
        /\ \A b \in Approvals \ {a} : approval'[b] = approval[b]
    BY <2>1
  <2>3. approval[a].status = "NONE"
    BY <2>1 DEF NoApproval
  <2>4. req[h].op = "approve"
    BY <1>2 DEF ApproveWrite
  <2> QED BY <1>2, <2>2, <2>3, <2>4 DEF Given
<1>3. ASSUME NEW c \in Changesets \cup {None}, NEW s \in Withdrawn, Withdraw(c, s)
      PROVE  NoneGiven
  BY <1>3 DEF Withdraw, Standing, ApprovalRows, NoneGiven
<1>4. ASSUME NEW h \in Handlers, BumpWrite(h) \/ ExecuteWrite(h)
      PROVE  NoneGiven
  BY <1>4 DEF BumpWrite, ExecuteWrite, Standing, ApprovalRows, NoneGiven
<1>5. ASSUME NEW c \in Changesets, LapseChangeset(c)
      PROVE  NoneGiven
  BY <1>5 DEF LapseChangeset, ApprovalRows, NoneGiven
<1>6. ASSUME NEW b \in Approvals, LapseApproval(b)
      PROVE  NoneGiven
  BY <1>6 DEF LapseApproval, ApprovalRows, NoneGiven
<1>7. ASSUME NEW h \in Handlers, RejectWrite(h) \/ CancelWrite(h)
      PROVE  NoneGiven
  <2>1. req[h].cs \in Changesets \cup {None}
    BY DEF Requests
  <2> QED BY <1>3, <1>7, <2>1 DEF RejectWrite, CancelWrite, Withdrawn
<1>8. CASE \E h \in Handlers : Begin(h)
  BY <1>1, <1>8 DEF Begin, CreateRead, RollbackRead, NewPlan, PreviewRead, RequestRead,
     ApproveRead, RejectRead, CancelRead, ExpireRead, LiveRead, ExecuteRead, BumpRead,
     DropRead, ReadOnly
<1>9. CASE \E h \in Handlers : Finish(h)
  BY <1>1, <1>2, <1>4, <1>7, <1>9 DEF Finish, InsertWrite, PreviewWrite, RequestWrite,
     ExpireWrite, DropWrite, LiveFinish, ExecuteFinish, Settle
<1>10. CASE \E h \in Handlers : Answers(h)
  BY <1>1, <1>10 DEF Answers, Reply, ReadOnly
<1>11. CASE Outside
  BY <1>1, <1>5, <1>6, <1>11 DEF Outside, UpdateTarget, Crash
<1>12. CASE UNCHANGED vars
  BY <1>1, <1>12 DEF vars
<1> QED BY <1>8, <1>9, <1>10, <1>11, <1>12 DEF Next

LEMMA PromiseInit == Init => Promise!GrantInit
  BY DEF Init, Promise!GrantInit, Dispatched, NoApproval, NoCall, Withdrawn

LEMMA PromiseStep ==
  ASSUME TypeOK, GrantInv, [Next]_vars
  PROVE  [Promise!GrantNext]_(Promise!grantVars)
<1> DEFINE given == {a \in Approvals : approval[a].status # "NONE"}
           revoked == {a \in Approvals : approval[a].status \in Withdrawn}
           claims == IF loop = None THEN {} ELSE {req[loop].grants}
           backs == [t \in Tickets |-> call[t].grants]
           Picked == {a \in Approvals : /\ approval[a].status = "APPROVED"
                                        /\ approval'[a].status \in Withdrawn}
<1> USE DEF Withdrawn
<1>1. \A a \in Approvals : Persists(a)
  BY ApprovalsPersist
<1>2. Promise!Used \subseteq Approvals
      /\ \A a \in Promise!Used : approval[a].status \notin {"NONE", "APPROVED"}
  BY DEF Promise!Used, GrantInv, GrantsTaken, Dispatched, TypeOK, Calls
<1>3. ASSUME Quiet
      PROVE  claims' = claims /\ Dispatched' = Dispatched /\ backs' = backs
  <2>1. call' = call /\ loop' = loop
    BY <1>3 DEF Quiet
  <2>2. loop # None => req'[loop] = req[loop]
    BY <1>3 DEF Quiet, GrantInv, LoopHeld, TypeOK
  <2> QED BY <2>1, <2>2 DEF Dispatched
<1>4. CASE Quiet /\ NoneGiven
  <2>1. given' = given /\ revoked' = revoked \cup Picked
    BY <1>1, <1>4 DEF Persists, NoneGiven
  <2>2. Picked \in SUBSET (given \ Promise!Used)
    BY <1>2
  <2> QED BY <1>3, <1>4, <2>1, <2>2 DEF Promise!GrantNext, Promise!Revoke
<1>5. ASSUME NEW h \in Handlers, NEW a \in Approvals, Quiet, Given(a, h)
      PROVE  Promise!GrantNext
  <2>1. /\ approval[a].status = "NONE" /\ approval'[a].status = "APPROVED"
        /\ \A b \in Approvals \ {a} : approval'[b] = approval[b]
    BY <1>5 DEF Given
  <2>2. a \in Approvals \ given /\ given' = given \cup {a} /\ revoked' = revoked
    BY <2>1
  <2> QED BY <1>3, <1>5, <2>2 DEF Promise!GrantNext, Promise!Give
<1>6. ASSUME NEW h \in Handlers, NEW c \in Changesets, ExecuteRead(h, c)
      PROVE  Promise!GrantNext
  <2>1. /\ loop = None /\ loop' = h /\ approval' = approval /\ call' = call
        /\ req'[h].grants \subseteq Approvals /\ Quorum(c, req'[h].grants)
    BY <1>6, ExecuteReadFacts
  <2>2. req'[h].grants \in SUBSET (given \ (revoked \cup Promise!Used))
    BY <1>2, <2>1 DEF Quorum, ValidGrants, Standing
  <2>3. claims = {} /\ claims' = {req'[h].grants}
    BY <2>1, NoneAssumption
  <2>4. given' = given /\ revoked' = revoked /\ Dispatched' = Dispatched /\ backs' = backs
    BY <2>1 DEF Dispatched
  <2> QED BY <2>2, <2>3, <2>4 DEF Promise!GrantNext, Promise!Claim
<1>7. ASSUME NEW h \in Handlers, ExecuteWrite(h)
      PROVE  Promise!GrantNext
  <2>1. /\ req[h].op = "execute" /\ loop' = None
        /\ \A a \in Approvals : approval'[a].status =
             IF a \in req[h].grants /\ approval[a].status = "APPROVED"
               THEN "CONSUMED" ELSE approval[a].status
    BY <1>7, ExecuteWriteFacts
  <2>2. PICK t \in Tickets :
          /\ call[t] = NoCall
          /\ call'[t] = [cs |-> req[h].cs, grants |-> req[h].grants, hash |-> req[h].hash]
          /\ \A s \in Tickets \ {t} : call'[s] = call[s]
    BY <1>7, ExecuteWriteFacts
  <2>3. loop = h /\ req[h].cs \in Changesets
    BY <2>1 DEF GrantInv, LoopHeld, GrantsClaimed
  <2>4. call'[t].grants = req[h].grants /\ call'[t] # NoCall
    <3>1. call'[t].cs = req[h].cs /\ call'[t].grants = req[h].grants
      BY <2>2
    <3>2. NoCall.cs = None
      BY DEF NoCall
    <3> QED BY <2>3, <3>1, <3>2, NoneAssumption
  <2>5. t \in Tickets \ Dispatched /\ Dispatched' = Dispatched \cup {t}
    BY <2>2, <2>4 DEF Dispatched
  <2>6. backs' = [backs EXCEPT ![t] = req[h].grants]
    BY <2>2, <2>4
  <2>7. claims = {req[h].grants} /\ claims' = {}
    BY <2>1, <2>3, NoneAssumption
  <2>8. given' = given /\ revoked' = revoked
    BY <2>1
  <2> QED BY <2>5, <2>6, <2>7, <2>8 DEF Promise!GrantNext, Promise!Issue
<1>8. CASE Crash
  BY <1>8 DEF Crash, Dispatched, Promise!GrantNext, Promise!Abandon
<1> QED BY <1>4, <1>5, <1>6, <1>7, <1>8, StepKinds, GivenOneByOne

(* Behind every interleaving of requests, bumps and crashes, approvals are *)
(* given, revoked, claimed and used up as OneTimeGrant allows.             *)
THEOREM ServiceKeepsGrantPromise == Spec => KeepsGrantPromise
<1>1. TypeOK /\ GrantInv /\ [Next]_vars => [Promise!GrantNext]_(Promise!grantVars)
  BY PromiseStep
<1> QED BY <1>1, PromiseInit, TypeCorrect, GrantsHold, PTL
        DEF Spec, KeepsGrantPromise, Promise!GrantSpec

-----------------------------------------------------------------------------
(* Sets of approvers                                                       *)
(*                                                                         *)
(* Enough different people, none of them the author, stand behind every    *)
(* APPROVED ChangeSet and every call to the broker.  An approval keeps its *)
(* ChangeSet and approver once it exists (ApprovalsPersist), so a set of   *)
(* approvals that backs a ChangeSet at one moment backs it for good; it is *)
(* enough to look at the moment the set is chosen, in ExecuteRead, and at  *)
(* the moment an approval is counted, in ApproveWrite.                     *)

ApproversIn(table, S) == {table[a].by : a \in S}

LEMMA ApproversFinite ==
  ASSUME NEW table, NEW S \in SUBSET Approvals
  PROVE  /\ IsFiniteSet(S) /\ IsFiniteSet(ApproversIn(table, S))
         /\ Cardinality(ApproversIn(table, S)) \in Nat
         /\ (\A a, b \in S : table[a].by = table[b].by => a = b)
              => Cardinality(ApproversIn(table, S)) = Cardinality(S)
<1> DEFINE f == [a \in S |-> table[a].by]
<1>1. IsFiniteSet(S)
  BY FinitenessAssumption, FS_Subset
<1>2. f \in Surjection(S, ApproversIn(table, S))
  BY DEF Surjection, ApproversIn
<1>3. IsFiniteSet(ApproversIn(table, S))
  BY <1>1, <1>2, FS_Surjection
<1>4. ASSUME \A a, b \in S : table[a].by = table[b].by => a = b
      PROVE  Cardinality(ApproversIn(table, S)) = Cardinality(S)
  <2>1. f \in Injection(S, ApproversIn(table, S))
    BY <1>2, <1>4 DEF Injection, IsInjective, Surjection
  <2> QED BY <1>1, <1>2, <2>1, FS_Surjection
<1> QED BY <1>1, <1>3, <1>4, FS_CardinalityType

LEMMA RequiredType ==
  ASSUME NEW c
  PROVE  Required(c) \in Nat /\ (Required(c) # 0 => ApprovalRequired(c))
  BY DEF Required, ApprovalRequired

\* Enough approvers, of this very ChangeSet, none of them its author.
Backed(table, c, grants) ==
  /\ Cardinality(ApproversIn(table, grants)) >= Required(c)
  /\ \A a \in grants : table[a].cs = c /\ table[a].by # Author[c]

LEMMA BackedPersists ==
  ASSUME NEW c, NEW grants \in SUBSET Approvals, Backed(approval, c, grants),
         \A a \in Approvals : Persists(a),
         \A a \in grants : approval[a].status # "NONE"
  PROVE  /\ Backed(approval', c, grants)
         /\ \A a \in grants : approval'[a].status # "NONE"
<1>1. \A a \in grants : /\ approval'[a].cs = approval[a].cs
                         /\ approval'[a].by = approval[a].by
                         /\ approval'[a].status # "NONE"
  BY DEF Persists
<1>2. ApproversIn(approval', grants) = ApproversIn(approval, grants)
  BY <1>1 DEF ApproversIn
<1> QED BY <1>1, <1>2 DEF Backed

-----------------------------------------------------------------------------
(* The invariant                                                           *)

\* Nobody approves what they asked for, neither in the table ...
AuthorsApart ==
  \A a \in Approvals : approval[a].status # "NONE" =>
    (ApprovalRequired(approval[a].cs) => approval[a].by # Author[approval[a].cs])

\* ... nor in a request that has passed the check.
AskersApart ==
  \A h \in Handlers : req[h].op = "approve" =>
    (ApprovalRequired(req[h].cs) => req[h].who # Author[req[h].cs])

PicksBacked ==
  \A h \in Handlers : req[h].op = "execute" =>
    Backed(approval, req[h].cs, req[h].grants)

CallsBacked ==
  \A t \in Dispatched : Backed(approval, call[t].cs, call[t].grants)

QuorumInv == AuthorsApart /\ AskersApart /\ PicksBacked /\ CallsBacked

LEMMA QuorumInit == Init => QuorumInv
  BY DEF Init, QuorumInv, AuthorsApart, AskersApart, PicksBacked, CallsBacked, Dispatched,
     Idle, NoApproval

\* What ExecuteRead picks is enough.
LEMMA QuorumBacks ==
  ASSUME TypeOK, AuthorsApart, NEW c \in Changesets, NEW grants \in SUBSET Approvals,
         Quorum(c, grants)
  PROVE  Backed(approval, c, grants)
<1>1. Cardinality(ApproversIn(approval, grants)) = Required(c)
  BY ApproversFinite DEF Quorum
<1>2. \A a \in grants : approval[a].cs = c /\ approval[a].status = "APPROVED"
  BY DEF Quorum, ValidGrants, Standing
<1>3. grants # {} => ApprovalRequired(c)
  <2>1. IsFiniteSet(grants) /\ Cardinality(grants) = Required(c)
    BY ApproversFinite DEF Quorum
  <2> QED BY <2>1, FS_EmptySet, RequiredType
<1> QED BY <1>1, <1>2, <1>3, RequiredType DEF Backed, AuthorsApart

\* A request to approve that starts has passed the author check.
LEMMA AskersStep ==
  ASSUME TypeOK, AskersApart, [Next]_vars
  PROVE  AskersApart'
<1> USE DEF TypeOK
<1> DEFINE Calm == \A h \in Handlers : req'[h].op = "approve" => req'[h] = req[h]
<1>1. ASSUME Calm PROVE AskersApart'
  BY <1>1 DEF AskersApart
<1>2. ASSUME NEW h \in Handlers, NEW r, Serve(h, r), r.op # "approve" PROVE Calm
  BY <1>2, Served
<1>3. ASSUME NEW h \in Handlers, Answer(h) PROVE Calm
  BY <1>3 DEF Answer, Idle
<1> HIDE DEF Calm
<1>4. ASSUME NEW h \in Handlers, NEW c \in Changesets, NEW source, NewPlan(h, c, source)
      PROVE  Calm
  <2>1. [On("create", c) EXCEPT !.gen = gen, !.snap = target, !.source = source].op # "approve"
    BY DEF On, Idle
  <2> QED BY <1>2, <1>4, <2>1 DEF NewPlan
<1>5. ASSUME NEW h \in Handlers, NEW c \in Changesets,
             PreviewRead(h, c) \/ RequestRead(h, c) \/ RejectRead(h, c) \/ CancelRead(h, c)
               \/ ExpireRead(h, c) \/ LiveRead(h, c)
      PROVE  Calm
  BY <1>2, <1>5, RequestOp DEF PreviewRead, RequestRead, RejectRead, CancelRead,
     ExpireRead, LiveRead
<1>6. ASSUME NEW h \in Handlers, NEW c \in Changesets, NEW p \in People, ApproveRead(h, c, p)
      PROVE  AskersApart'
  <2> DEFINE r == [On("approve", c) EXCEPT !.who = p,
                     !.grants = Standing(c) \ ValidGrants(c)]
  <2>1. r.cs = c /\ r.who = p
    BY DEF On, Idle
  <2>2. req'[h] = r /\ \A k \in Handlers \ {h} : req'[k] = req[k]
    BY <1>6, Served DEF ApproveRead
  <2>3. ApprovalRequired(c) => p # Author[c]
    BY <1>6 DEF ApproveRead, ApprovalRequired
  <2> QED BY <2>1, <2>2, <2>3 DEF AskersApart, ApprovalRequired
<1>7. ASSUME NEW h \in Handlers, NEW c \in Changesets, ExecuteRead(h, c)
      PROVE  Calm
  BY <1>7, ExecuteReadFacts DEF Calm
<1>8. ASSUME NEW h \in Handlers, BumpRead(h) \/ DropRead(h)
      PROVE  Calm
  <2>1. /\ [Idle EXCEPT !.op = "bump", !.gen = gen].op # "approve"
        /\ [Idle EXCEPT !.op = "drop"].op # "approve"
    BY DEF Idle
  <2> QED BY <1>2, <1>8, <2>1 DEF BumpRead, DropRead
<1>9. ASSUME NEW h \in Handlers, Finish(h)
      PROVE  Calm
  <2>1. CASE ExecuteWrite(h)
    BY <2>1, ExecuteWriteFacts DEF Calm
  <2>2. CASE Answer(h)
    BY <2>2, <1>3
  <2> QED BY <1>9, <2>1, <2>2 DEF Finish, InsertWrite, PreviewWrite, RequestWrite,
       ApproveWrite, RejectWrite, CancelWrite, ExpireWrite, BumpWrite, DropWrite,
       LiveFinish, ExecuteFinish, Settle
<1>10. ASSUME NEW h \in Handlers, Answers(h)
       PROVE  Calm
  <2>1. req[h].op \in {"live", "dispatched"} /\ req'[h].op = req[h].op
    BY <1>10 DEF Answers, Reply, Requests
  <2>2. \A k \in Handlers \ {h} : req'[k] = req[k]
    BY <1>10 DEF Answers, Reply
  <2> QED BY <2>1, <2>2 DEF Calm
<1>11. CASE Outside
  BY <1>11 DEF Outside, UpdateTarget, LapseChangeset, LapseApproval, Crash, Idle, AskersApart
<1>12. CASE UNCHANGED vars
  BY <1>12 DEF vars, AskersApart
<1> QED
  BY <1>1, <1>4, <1>5, <1>6, <1>7, <1>8, <1>9, <1>10, <1>11, <1>12
     DEF Next, Begin, CreateRead, RollbackRead

LEMMA AuthorsStep ==
  ASSUME TypeOK, AuthorsApart, AskersApart, [Next]_vars
  PROVE  AuthorsApart'
<1>1. \A a \in Approvals : Persists(a)
  BY ApprovalsPersist
<1>2. CASE NoneGiven
  BY <1>1, <1>2 DEF NoneGiven, Persists, AuthorsApart, ApprovalRequired
<1>3. ASSUME NEW h \in Handlers, NEW a \in Approvals, Given(a, h)
      PROVE  AuthorsApart'
  BY <1>3 DEF Given, AuthorsApart, AskersApart, ApprovalRequired
<1> QED BY <1>2, <1>3, GivenOneByOne

LEMMA QuorumStep ==
  ASSUME TypeOK, GrantInv, QuorumInv, [Next]_vars
  PROVE  QuorumInv'
<1>1. AuthorsApart' /\ AskersApart'
  BY AuthorsStep, AskersStep DEF QuorumInv
<1>2. \A a \in Approvals : Persists(a)
  BY ApprovalsPersist
<1>3. \A t \in Dispatched :
        /\ Backed(approval', call[t].cs, call[t].grants)
        /\ call[t].grants \subseteq Approvals
  <2>1. ASSUME NEW t \in Dispatched
        PROVE  /\ Backed(approval', call[t].cs, call[t].grants)
               /\ call[t].grants \subseteq Approvals
    <3>1. call[t].grants \in SUBSET Approvals
      BY DEF Dispatched, TypeOK, Calls
    <3>2. \A a \in call[t].grants : approval[a].status # "NONE"
      BY DEF GrantInv, GrantsTaken, Dispatched
    <3>3. Backed(approval, call[t].cs, call[t].grants)
      BY DEF QuorumInv, CallsBacked
    <3> QED BY <1>2, <3>1, <3>2, <3>3, BackedPersists
  <2> QED BY <2>1
<1>4. \A h \in Handlers : req[h].op = "execute" =>
        Backed(approval', req[h].cs, req[h].grants)
  <2>1. ASSUME NEW h \in Handlers, req[h].op = "execute"
        PROVE  Backed(approval', req[h].cs, req[h].grants)
    <3>1. req[h].grants \in SUBSET Approvals
      BY DEF TypeOK, Requests
    <3>2. \A a \in req[h].grants : approval[a].status # "NONE"
      BY <2>1 DEF GrantInv, GrantsClaimed
    <3>3. Backed(approval, req[h].cs, req[h].grants)
      BY <2>1 DEF QuorumInv, PicksBacked
    <3> QED BY <1>2, <3>1, <3>2, <3>3, BackedPersists
  <2> QED BY <2>1
<1>5. CASE Quiet
  <2>1. CallsBacked'
    BY <1>3, <1>5 DEF Quiet, CallsBacked, Dispatched
  <2>2. PicksBacked'
    BY <1>4, <1>5 DEF Quiet, PicksBacked
  <2> QED BY <1>1, <2>1, <2>2 DEF QuorumInv
<1>6. ASSUME NEW h \in Handlers, NEW c \in Changesets, ExecuteRead(h, c)
      PROVE  QuorumInv'
  <2>1. /\ approval' = approval /\ call' = call
        /\ req'[h].cs = c /\ req'[h].grants \in SUBSET Approvals /\ Quorum(c, req'[h].grants)
        /\ \A k \in Handlers \ {h} : req'[k] = req[k]
    BY <1>6, ExecuteReadFacts
  <2>2. Backed(approval, c, req'[h].grants)
    BY <2>1, QuorumBacks DEF QuorumInv
  <2>3. PicksBacked'
    BY <1>4, <2>1, <2>2 DEF PicksBacked
  <2>4. CallsBacked'
    BY <1>3, <2>1 DEF CallsBacked, Dispatched
  <2> QED BY <1>1, <2>3, <2>4 DEF QuorumInv
<1>7. ASSUME NEW h \in Handlers, ExecuteWrite(h)
      PROVE  QuorumInv'
  <2>1. /\ req[h].op = "execute" /\ req'[h].op = "dispatched"
        /\ \A k \in Handlers \ {h} : req'[k] = req[k]
    BY <1>7, ExecuteWriteFacts
  <2>2. PICK t \in Tickets :
          /\ call'[t] = [cs |-> req[h].cs, grants |-> req[h].grants, hash |-> req[h].hash]
          /\ \A s \in Tickets \ {t} : call'[s] = call[s]
    BY <1>7, ExecuteWriteFacts
  <2>3. call'[t].cs = req[h].cs /\ call'[t].grants = req[h].grants
    BY <2>2
  <2>4. PicksBacked'
    BY <1>4, <2>1 DEF PicksBacked
  <2>5. CallsBacked'
    BY <1>3, <1>4, <2>1, <2>2, <2>3 DEF CallsBacked, Dispatched
  <2> QED BY <1>1, <2>4, <2>5 DEF QuorumInv
<1>8. CASE Crash
  <2>1. PicksBacked'
    BY <1>8 DEF Crash, PicksBacked, Idle
  <2>2. CallsBacked'
    BY <1>3, <1>8 DEF Crash, CallsBacked, Dispatched
  <2> QED BY <1>1, <2>1, <2>2 DEF QuorumInv
<1> QED BY <1>5, <1>6, <1>7, <1>8, StepKinds

LEMMA QuorumHolds == Spec => []QuorumInv
  BY QuorumInit, QuorumStep, TypeCorrect, GrantsHold, PTL DEF Spec

(* Whatever races it, a broker call rests on enough different approvers of *)
(* that ChangeSet, none of whom asked for it.                              *)
THEOREM QuorumBehindEveryCall == Spec => []QuorumAtDispatch
<1>1. QuorumInv => QuorumAtDispatch
  BY DEF QuorumInv, CallsBacked, Backed, ApproversIn, QuorumAtDispatch
<1> QED BY <1>1, QuorumHolds, PTL

-----------------------------------------------------------------------------
(* An APPROVED ChangeSet has its quorum                                    *)

\* A row that is not there yet belongs to no ChangeSet.
BlankRows == \A a \in Approvals : approval[a].status = "NONE" => approval[a].cs = None

ApprovedCounted ==
  \A c \in Changesets : state[c] = "APPROVED" =>
    Cardinality(ApproversIn(approval, {b \in Approvals : approval[b].cs = c})) >= Required(c)

CountInv == BlankRows /\ ApprovedCounted

\* Only approve_changeset moves a row to APPROVED.
LEMMA OnlyApproveApproves ==
  ASSUME TypeOK, [Next]_vars,
         ~\E h \in Handlers : ApproveWrite(h)
  PROVE  \A c \in Changesets : state'[c] = "APPROVED" => state[c] = "APPROVED"
<1> USE DEF TypeOK
<1>1. CASE \E h \in Handlers : Begin(h)
  BY <1>1 DEF Begin, CreateRead, RollbackRead, NewPlan, PreviewRead, RequestRead,
     ApproveRead, RejectRead, CancelRead, ExpireRead, LiveRead, ExecuteRead, BumpRead,
     DropRead, ReadOnly
<1>2. ASSUME NEW d, NEW s, s # "APPROVED", SetState(d, s)
      PROVE  \A c \in Changesets : state'[c] = "APPROVED" => state[c] = "APPROVED"
  BY <1>2 DEF SetState
<1>3. ASSUME NEW h \in Handlers, Finish(h)
      PROVE  \A c \in Changesets : state'[c] = "APPROVED" => state[c] = "APPROVED"
  BY <1>2, <1>3 DEF Finish, InsertWrite, PreviewWrite, RequestWrite, RejectWrite,
     CancelWrite, ExpireWrite, BumpWrite, DropWrite, LiveFinish, ExecuteWrite,
     ExecuteFinish, Settle
<1>4. CASE \E h \in Handlers : Answers(h)
  BY <1>4 DEF Answers, Reply, ReadOnly
<1>5. CASE Outside
  BY <1>5 DEF Outside, UpdateTarget, LapseChangeset, LapseApproval, Crash
<1>6. CASE UNCHANGED vars
  BY <1>6 DEF vars
<1> QED BY <1>1, <1>3, <1>4, <1>5, <1>6 DEF Next

LEMMA CountStep ==
  ASSUME TypeOK, CountInv, [Next]_vars
  PROVE  CountInv'
<1> DEFINE Rows(table, c) == {b \in Approvals : table[b].cs = c}
<1>1. \A a \in Approvals : Persists(a)
  BY ApprovalsPersist
<1>2. BlankRows'
  BY <1>1, GivenOneByOne DEF NoneGiven, Given, Persists, CountInv, BlankRows
<1>3. ASSUME NEW c \in Changesets
      PROVE  /\ ApproversIn(approval, Rows(approval, c)) \subseteq
                  ApproversIn(approval', Rows(approval', c))
             /\ \A S \in SUBSET ApproversIn(approval', Rows(approval', c)) :
                  Cardinality(S) >= Required(c) =>
                    Cardinality(ApproversIn(approval', Rows(approval', c))) >= Required(c)
  <2>1. \A b \in Rows(approval, c) : /\ b \in Rows(approval', c)
                                     /\ approval'[b].by = approval[b].by
    BY <1>1, NoneAssumption DEF Persists, CountInv, BlankRows
  <2>2. ApproversIn(approval, Rows(approval, c)) \subseteq
          ApproversIn(approval', Rows(approval', c))
    BY <2>1 DEF ApproversIn
  <2> DEFINE T == ApproversIn(approval', Rows(approval', c))
  <2>3. IsFiniteSet(T)
    BY ApproversFinite
  <2>4. \A S \in SUBSET T : /\ Cardinality(S) \in Nat /\ Cardinality(T) \in Nat
                            /\ Cardinality(S) <= Cardinality(T)
    BY <2>3, FS_Subset, FS_CardinalityType
  <2> QED BY <2>2, <2>4, RequiredType
<1>4. ASSUME NEW h \in Handlers, ApproveWrite(h)
      PROVE  ApprovedCounted'
  <2>1. PICK a \in Approvals :
          /\ approval' = [approval EXCEPT ![a] =
               [status |-> "APPROVED", cs |-> req[h].cs, by |-> req[h].who,
                overdue |-> req[h].cs \in overdue]]
    BY <1>4 DEF ApproveWrite
  <2>2. approval'[a].cs = req[h].cs /\ approval'[a].by = req[h].who
    BY <2>1 DEF TypeOK
  <2>3. ASSUME NEW c \in Changesets, c = req[h].cs, state'[c] = "APPROVED"
        PROVE  Cardinality(ApproversIn(approval', Rows(approval', c))) >= Required(c)
    <3>1. Cardinality(CountedApprovers(req[h])) >= Required(c)
      BY <1>4, <2>3 DEF ApproveWrite, SetState, TypeOK
    <3>2. CountedApprovers(req[h]) \subseteq
            ApproversIn(approval, Rows(approval, c)) \cup {req[h].who}
      BY <2>3 DEF CountedApprovers, Standing, ApproversIn
    <3>3. req[h].who \in ApproversIn(approval', Rows(approval', c))
      BY <2>2, <2>3 DEF ApproversIn
    <3> QED BY <1>3, <3>1, <3>2, <3>3
  <2>4. \A c \in Changesets : c # req[h].cs => state'[c] = state[c]
    BY <1>4 DEF ApproveWrite, SetState, TypeOK
  <2> QED BY <1>3, <2>3, <2>4 DEF CountInv, ApprovedCounted
<1>5. ASSUME ~\E h \in Handlers : ApproveWrite(h)
      PROVE  ApprovedCounted'
  BY <1>3, <1>5, OnlyApproveApproves DEF CountInv, ApprovedCounted
<1> QED BY <1>2, <1>4, <1>5 DEF CountInv

(* A row that says APPROVED was approved by enough different people, even  *)
(* when the requests of one person race.                                   *)
THEOREM ApprovedMeansQuorum == Spec => []ApprovedHasQuorum
<1>1. Init => CountInv
  BY DEF Init, CountInv, BlankRows, ApprovedCounted, NoApproval
<1>2. CountInv => ApprovedHasQuorum
  BY DEF CountInv, ApprovedCounted, ApproversIn, ApprovedHasQuorum
<1> QED BY <1>1, <1>2, CountStep, TypeCorrect, PTL DEF Spec

-----------------------------------------------------------------------------
(* A rollback plan undoes something                                        *)
(*                                                                         *)
(* A rollback is planned from an EXECUTED row, only the end of a dispatch  *)
(* makes a row EXECUTED, a dispatch has its call on record, and a call is  *)
(* never taken back: the cause is there before the rollback is read, and   *)
(* while its plan waits to be written.                                     *)

HasCall(c) == \E t \in Dispatched : call[t].cs = c
GetsCall(c) == \E t \in Dispatched' : call'[t].cs = c

\* A call is on record for good.
LEMMA CallsPersist ==
  ASSUME TypeOK, GrantInv, [Next]_vars
  PROVE  \A t \in Dispatched : t \in Dispatched' /\ call'[t] = call[t]
<1>1. CASE call' = call
  BY <1>1 DEF Dispatched
<1>2. ASSUME NEW h \in Handlers, ExecuteWrite(h)
      PROVE  \A t \in Dispatched : t \in Dispatched' /\ call'[t] = call[t]
  BY <1>2, ExecuteWriteFacts DEF Dispatched
<1> QED BY <1>1, <1>2, StepKinds, ExecuteReadFacts DEF Quiet, Crash

\* A dispatch puts the call of its request on record, and waits for its answer.
LEMMA DispatchFacts ==
  ASSUME TypeOK, GrantInv, NEW h \in Handlers, ExecuteWrite(h)
  PROVE  /\ req'[h].ticket \in Tickets \ Dispatched
         /\ Dispatched' = Dispatched \cup {req'[h].ticket}
         /\ call'[req'[h].ticket].cs = req[h].cs /\ req'[h].cs = req[h].cs
         /\ req'[h].op = "dispatched" /\ req'[h].reply = "none"
         /\ req[h].cs \in Changesets
<1>1. PICK t \in Tickets :
        /\ call[t] = NoCall
        /\ call' = [call EXCEPT ![t] = [cs |-> req[h].cs, grants |-> req[h].grants,
                                       hash |-> req[h].hash]]
        /\ req' = [req EXCEPT ![h] = [On("dispatched", req[h].cs) EXCEPT !.ticket = t]]
  BY DEF ExecuteWrite
<1> DEFINE r == [On("dispatched", req[h].cs) EXCEPT !.ticket = t]
<1>2. /\ r.ticket = t /\ r.cs = req[h].cs /\ r.op = "dispatched" /\ r.reply = "none"
  BY DEF On, Idle
<1>3. req'[h] = r
  BY <1>1 DEF TypeOK
<1>4. /\ call'[t].cs = req[h].cs
      /\ \A s \in Tickets \ {t} : call'[s] = call[s]
  BY <1>1 DEF TypeOK
<1>5. req[h].cs \in Changesets
  BY DEF ExecuteWrite, GrantInv, GrantsClaimed
<1>6. call'[t] # NoCall
  BY <1>4, <1>5, NoneAssumption DEF NoCall
<1> QED BY <1>1, <1>2, <1>3, <1>4, <1>5, <1>6 DEF Dispatched

\* How a request can come to create a plan, or to wait for the broker.
RequestKinds(h) ==
  \/ req'[h] = req[h]
  \/ req'[h].op \notin {"create", "dispatched"}
  \/ \E c \in Changesets : CreateRead(h, c) \/ \E s \in Changesets : RollbackRead(h, c, s)
  \/ ExecuteWrite(h)
  \/ \E reply \in Replies, hash \in LiveStates \cup {None} : Reply(h, reply, hash)

LEMMA RequestCases ==
  ASSUME TypeOK, [Next]_vars
  PROVE  \A h \in Handlers : RequestKinds(h)
<1> USE DEF TypeOK
<1> DEFINE Goal == \A h \in Handlers : RequestKinds(h)
<1>1. ASSUME NEW h \in Handlers, RequestKinds(h),
             \A k \in Handlers \ {h} : req'[k] = req[k]
      PROVE  Goal
  BY <1>1 DEF RequestKinds
<1>2. ASSUME NEW h \in Handlers, NEW r, Serve(h, r), r.op \notin {"create", "dispatched"}
      PROVE  Goal
  BY <1>1, <1>2, Served DEF RequestKinds
<1>3. ASSUME NEW h \in Handlers, Answer(h)
      PROVE  Goal
  <2>1. req'[h] = Idle /\ \A k \in Handlers \ {h} : req'[k] = req[k]
    BY <1>3 DEF Answer
  <2>2. RequestKinds(h)
    BY <2>1 DEF RequestKinds, Idle
  <2> QED BY <1>1, <2>1, <2>2
<1> HIDE DEF Goal
<1>4. ASSUME NEW h \in Handlers, NEW c \in Changesets,
             CreateRead(h, c) \/ \E s \in Changesets : RollbackRead(h, c, s)
      PROVE  Goal
  <2>1. \A k \in Handlers \ {h} : req'[k] = req[k]
    BY <1>4 DEF CreateRead, RollbackRead, NewPlan, Serve
  <2> QED BY <1>1, <1>4, <2>1 DEF RequestKinds
<1>5. ASSUME NEW h \in Handlers, NEW c \in Changesets,
             PreviewRead(h, c) \/ RequestRead(h, c) \/ RejectRead(h, c) \/ CancelRead(h, c)
               \/ ExpireRead(h, c) \/ LiveRead(h, c)
      PROVE  Goal
  BY <1>2, <1>5, RequestOp DEF PreviewRead, RequestRead, RejectRead, CancelRead,
     ExpireRead, LiveRead
<1>6. ASSUME NEW h \in Handlers, NEW c \in Changesets, NEW p \in People, ApproveRead(h, c, p)
      PROVE  Goal
  <2>1. [On("approve", c) EXCEPT !.who = p, !.grants = Standing(c) \ ValidGrants(c)].op
          = "approve"
    BY DEF On, Idle
  <2> QED BY <1>2, <1>6, <2>1 DEF ApproveRead
<1>7. ASSUME NEW h \in Handlers, NEW c \in Changesets, ExecuteRead(h, c)
      PROVE  Goal
  BY <1>1, <1>7, ExecuteReadFacts DEF RequestKinds
<1>8. ASSUME NEW h \in Handlers, BumpRead(h) \/ DropRead(h)
      PROVE  Goal
  <2>1. /\ [Idle EXCEPT !.op = "bump", !.gen = gen].op = "bump"
        /\ [Idle EXCEPT !.op = "drop"].op = "drop"
    BY DEF Idle
  <2> QED BY <1>2, <1>8, <2>1 DEF BumpRead, DropRead
<1>9. ASSUME NEW h \in Handlers, Finish(h)
      PROVE  Goal
  <2>1. CASE ExecuteWrite(h)
    BY <2>1, <1>1, ExecuteWriteFacts DEF RequestKinds
  <2>2. CASE Answer(h)
    BY <2>2, <1>3
  <2> QED BY <1>9, <2>1, <2>2 DEF Finish, InsertWrite, PreviewWrite, RequestWrite,
       ApproveWrite, RejectWrite, CancelWrite, ExpireWrite, BumpWrite, DropWrite,
       LiveFinish, ExecuteFinish, Settle
<1>10. ASSUME NEW h \in Handlers, NEW reply \in Replies, NEW hash \in LiveStates \cup {None},
              Reply(h, reply, hash)
       PROVE  Goal
  <2>1. RequestKinds(h)
    BY <1>10 DEF RequestKinds
  <2>2. \A k \in Handlers \ {h} : req'[k] = req[k]
    BY <1>10 DEF Reply
  <2> QED BY <1>1, <2>1, <2>2
<1>11. CASE Outside
  BY <1>11 DEF Outside, UpdateTarget, LapseChangeset, LapseApproval, Crash, Idle,
     RequestKinds, Goal
<1>12. CASE UNCHANGED vars
  BY <1>12 DEF vars, RequestKinds, Goal
<1> QED
  BY <1>4, <1>5, <1>6, <1>7, <1>8, <1>9, <1>10, <1>11, <1>12
     DEF Next, Begin, Answers, Goal

\* Only the end of a dispatch makes a row EXECUTED, and only an INSERT a plan.
LEMMA RowCases ==
  ASSUME TypeOK, [Next]_vars, NEW c \in Changesets
  PROVE  /\ state'[c] = "EXECUTED" =>
              \/ state[c] = "EXECUTED"
              \/ \E h \in Handlers : /\ req[h].op = "dispatched" /\ req[h].cs = c
                                     /\ req[h].reply = "ok"
         /\ plan'[c] # plan[c] =>
              \E h \in Handlers : /\ req[h].op = "create" /\ req[h].cs = c
                                  /\ plan'[c].source = req[h].source
<1> USE DEF TypeOK
<1>1. CASE plan' = plan /\ state' = state
  BY <1>1
<1>2. ASSUME NEW d, NEW s, s # "EXECUTED", SetState(d, s), plan' = plan
      PROVE  plan'[c] = plan[c] /\ (state'[c] = "EXECUTED" => state[c] = "EXECUTED")
  BY <1>2 DEF SetState
<1>3. ASSUME NEW h \in Handlers, InsertWrite(h)
      PROVE  /\ state'[c] = "EXECUTED" => state[c] = "EXECUTED"
             /\ plan'[c] # plan[c] =>
                  \E k \in Handlers : /\ req[k].op = "create" /\ req[k].cs = c
                                      /\ plan'[c].source = req[k].source
  BY <1>3 DEF InsertWrite, SetState
<1>4. ASSUME NEW h \in Handlers, ExecuteFinish(h)
      PROVE  /\ plan'[c] = plan[c]
             /\ state'[c] = "EXECUTED" =>
                  \/ state[c] = "EXECUTED"
                  \/ \E k \in Handlers : /\ req[k].op = "dispatched" /\ req[k].cs = c
                                         /\ req[k].reply = "ok"
  BY <1>4 DEF ExecuteFinish, Settle, SetState
<1>5. ASSUME NEW h \in Handlers,
             PreviewWrite(h) \/ RequestWrite(h) \/ ApproveWrite(h) \/ RejectWrite(h)
               \/ CancelWrite(h) \/ ExpireWrite(h) \/ BumpWrite(h) \/ DropWrite(h)
               \/ LiveFinish(h) \/ ExecuteWrite(h)
      PROVE  plan'[c] = plan[c] /\ (state'[c] = "EXECUTED" => state[c] = "EXECUTED")
  BY <1>2, <1>5 DEF PreviewWrite, RequestWrite, ApproveWrite, RejectWrite, CancelWrite,
     ExpireWrite, BumpWrite, DropWrite, LiveFinish, ExecuteWrite
<1>6. CASE \E h \in Handlers : Begin(h)
  BY <1>1, <1>6 DEF Begin, CreateRead, RollbackRead, NewPlan, PreviewRead, RequestRead,
     ApproveRead, RejectRead, CancelRead, ExpireRead, LiveRead, ExecuteRead, BumpRead,
     DropRead, ReadOnly
<1>7. CASE \E h \in Handlers : Finish(h)
  BY <1>3, <1>4, <1>5, <1>7 DEF Finish
<1>8. CASE \E h \in Handlers : Answers(h)
  BY <1>1, <1>8 DEF Answers, Reply, ReadOnly
<1>9. CASE Outside
  BY <1>1, <1>9 DEF Outside, UpdateTarget, LapseChangeset, LapseApproval, Crash
<1>10. CASE UNCHANGED vars
  BY <1>1, <1>10 DEF vars
<1> QED BY <1>6, <1>7, <1>8, <1>9, <1>10 DEF Next

CallsPlaced == \A t \in Dispatched : call[t].cs \in Changesets

\* A request that waits for the broker waits for a call on record.
DispatchesCalled ==
  \A h \in Handlers : req[h].op = "dispatched" =>
    req[h].ticket \in Dispatched /\ call[req[h].ticket].cs = req[h].cs

ExecutedCalled == \A c \in Changesets : state[c] = "EXECUTED" => HasCall(c)

CreationsCalled ==
  \A h \in Handlers : req[h].op = "create" /\ req[h].source # None => HasCall(req[h].source)

CallInv ==
  CallsPlaced /\ DispatchesCalled /\ ExecutedCalled /\ CreationsCalled /\ RollbackHasCause

LEMMA CallInit == Init => CallInv
  BY DEF Init, CallInv, CallsPlaced, DispatchesCalled, ExecutedCalled, CreationsCalled,
     RollbackHasCause, Dispatched, Idle, NoPlan

LEMMA DispatchesStep ==
  ASSUME TypeOK, GrantInv, DispatchesCalled, [Next]_vars
  PROVE  DispatchesCalled'
<1> SUFFICES ASSUME NEW h \in Handlers, req'[h].op = "dispatched"
             PROVE  req'[h].ticket \in Dispatched' /\ call'[req'[h].ticket].cs = req'[h].cs
  BY DEF DispatchesCalled
<1>1. \A t \in Dispatched : t \in Dispatched' /\ call'[t] = call[t]
  BY CallsPersist
<1>2. CASE req'[h] = req[h]
  BY <1>1, <1>2 DEF DispatchesCalled
<1>3. ASSUME NEW c \in Changesets, NEW source, NewPlan(h, c, source)
      PROVE  FALSE
  <2>1. [On("create", c) EXCEPT !.gen = gen, !.snap = target, !.source = source].op
          # "dispatched"
    BY DEF On, Idle
  <2> QED BY <1>3, <2>1, Served DEF NewPlan, TypeOK
<1>4. CASE ExecuteWrite(h)
  BY <1>4, DispatchFacts
<1>5. ASSUME NEW reply \in Replies, NEW hash \in LiveStates \cup {None}, Reply(h, reply, hash)
      PROVE  req[h].op = "dispatched" /\ req'[h].ticket = req[h].ticket
             /\ req'[h].cs = req[h].cs
  BY <1>5 DEF Reply, TypeOK, Requests
<1> QED BY <1>1, <1>2, <1>3, <1>4, <1>5, RequestCases
        DEF RequestKinds, CreateRead, RollbackRead, DispatchesCalled

LEMMA CallStep ==
  ASSUME TypeOK, GrantInv, CallInv, [Next]_vars
  PROVE  CallInv'
<1>1. DispatchesCalled'
  BY DispatchesStep DEF CallInv
<1>2. CallsPlaced'
  <2>1. CASE call' = call
    BY <2>1 DEF CallInv, CallsPlaced, Dispatched
  <2>2. ASSUME NEW h \in Handlers, ExecuteWrite(h)
        PROVE  CallsPlaced'
    BY <2>2, DispatchFacts, CallsPersist DEF CallInv, CallsPlaced
  <2> QED BY <2>1, <2>2, StepKinds, ExecuteReadFacts DEF Quiet, Crash
<1>3. \A c : HasCall(c) => GetsCall(c)
  BY CallsPersist DEF HasCall, GetsCall
<1>4. ExecutedCalled'
  <2>1. ASSUME NEW h \in Handlers, req[h].op = "dispatched"
        PROVE  HasCall(req[h].cs)
    BY <2>1 DEF CallInv, DispatchesCalled, HasCall
  <2> SUFFICES ASSUME NEW c \in Changesets, state'[c] = "EXECUTED"
               PROVE  GetsCall(c)
    BY DEF ExecutedCalled, HasCall, GetsCall
  <2>2. HasCall(c)
    BY <2>1, RowCases DEF CallInv, ExecutedCalled
  <2> QED BY <1>3, <2>2
<1>5. CreationsCalled'
  <2> SUFFICES ASSUME NEW h \in Handlers, req'[h].op = "create", req'[h].source # None
               PROVE  GetsCall(req'[h].source)
    BY DEF CreationsCalled, HasCall, GetsCall
  <2>1. CASE req'[h] = req[h]
    BY <1>3, <2>1 DEF CallInv, CreationsCalled
  <2>2. ASSUME NEW c \in Changesets, NEW source, NewPlan(h, c, source)
        PROVE  req'[h].source = source
    <3>1. [On("create", c) EXCEPT !.gen = gen, !.snap = target, !.source = source].source
            = source
      BY DEF On, Idle
    <3> QED BY <2>2, <3>1, Served DEF NewPlan, TypeOK
  <2>3. ASSUME NEW c \in Changesets, CreateRead(h, c)
        PROVE  FALSE
    BY <2>2, <2>3 DEF CreateRead
  <2>4. ASSUME NEW c \in Changesets, NEW source \in Changesets, RollbackRead(h, c, source)
        PROVE  GetsCall(req'[h].source)
    <3>1. HasCall(source)
      BY <2>4 DEF RollbackRead, Row, CallInv, ExecutedCalled
    <3> QED BY <1>3, <2>2, <2>4, <3>1 DEF RollbackRead
  <2>5. CASE ExecuteWrite(h)
    BY <2>5, ExecuteWriteFacts
  <2>6. ASSUME NEW reply \in Replies, NEW hash \in LiveStates \cup {None},
               Reply(h, reply, hash)
        PROVE  FALSE
    BY <2>6 DEF Reply, TypeOK, Requests
  <2> QED BY <2>1, <2>3, <2>4, <2>5, <2>6, RequestCases DEF RequestKinds
<1>6. RollbackHasCause'
  <2> SUFFICES ASSUME NEW c \in Changesets, plan'[c].source # None
               PROVE  GetsCall(plan'[c].source)
    BY DEF RollbackHasCause, GetsCall
  <2>1. CASE plan'[c] = plan[c]
    BY <1>3, <2>1 DEF CallInv, RollbackHasCause, HasCall
  <2>2. CASE plan'[c] # plan[c]
    BY <1>3, <2>2, RowCases DEF CallInv, CreationsCalled
  <2> QED BY <2>1, <2>2
<1> QED BY <1>1, <1>2, <1>4, <1>5, <1>6 DEF CallInv

LEMMA CallsHold == Spec => []CallInv
  BY CallInit, CallStep, TypeCorrect, GrantsHold, PTL DEF Spec

(* However requests interleave, a rollback plan is only ever stored for a  *)
(* ChangeSet for which a call has been made.                               *)
THEOREM RollbacksHaveCauses == Spec => []RollbackHasCause
<1>1. CallInv => RollbackHasCause
  BY DEF CallInv
<1> QED BY <1>1, CallsHold, PTL

-----------------------------------------------------------------------------
(* The service and the broker together                                     *)
(*                                                                         *)
(* A step of Governance is a step of the service or a step of the broker,  *)
(* so whatever is invariant of one of them is invariant of both.  What     *)
(* needs both is small: the broker counts what it applies per life, and an *)
(* answer "ok" is only given for a call it has applied.                    *)

LEMMA GovernanceCases ==
  ASSUME BrokerTypeOK, [GovernanceNext]_governanceVars
  PROVE  \/ [Next]_vars /\ UNCHANGED brokerState
         \/ BrokerStep /\ UNCHANGED vars
<1>1. ASSUME ControlPlaneStep
      PROVE  Next
  <2>1. ASSUME NEW h \in Handlers, PreviewAnswer(h) \/ ExecuteAnswer(h)
        PROVE  Answers(h)
    <3>1. live \in LiveStates
      BY DEF BrokerTypeOK, Broker!BrokerTypeOK
    <3>2. {"ok", "denied", "error"} \subseteq Replies \ {"none"}
      BY DEF Replies
    <3> QED BY <2>1, <3>1, <3>2 DEF PreviewAnswer, ExecuteAnswer, Answers
  <2> QED BY <1>1, <2>1 DEF ControlPlaneStep, Next
<1>2. CASE UNCHANGED governanceVars
  BY <1>2 DEF governanceVars
<1> QED BY <1>1, <1>2 DEF GovernanceNext

LEMMA BrokerTypeInit == GovernanceInit => BrokerTypeOK
  BY DEF GovernanceInit, Broker!BrokerInit, BrokerTypeOK, Broker!BrokerTypeOK

LEMMA BrokerTypeStep ==
  ASSUME CallsPlaced, BrokerTypeOK, [GovernanceNext]_governanceVars
  PROVE  BrokerTypeOK'
<1> USE DEF BrokerTypeOK, Broker!BrokerTypeOK, Broker!Running, Broker!Ended
<1>1. CASE UNCHANGED brokerState
  BY <1>1 DEF brokerState
<1>2. ASSUME NEW t \in Tickets, Broker!Admit(t) \/ Broker!TicketLapses(t)
                \/ Broker!CheckDrift(t, call[t].hash) \/ Broker!Verify(t)
      PROVE  BrokerTypeOK'
  BY <1>2 DEF Broker!Admit, Broker!TicketLapses, Broker!CheckDrift, Broker!Verify
<1>3. ASSUME NEW t \in Dispatched, Broker!Apply(t, Desired[call[t].cs])
      PROVE  BrokerTypeOK'
  <2>1. Desired[call[t].cs] \in LiveStates
    BY GovernanceAssumption DEF CallsPlaced
  <2> QED BY <1>3, <2>1 DEF Broker!Apply, Dispatched
<1>4. CASE Broker!Restart
  BY <1>4 DEF Broker!Restart
<1>5. ASSUME NEW s \in Intruders, Broker!OutsideChange(s)
      PROVE  BrokerTypeOK'
  BY <1>5, GovernanceAssumption DEF Broker!OutsideChange
<1> QED BY <1>1, <1>2, <1>3, <1>4, <1>5, GovernanceCases DEF BrokerStep, BrokerWork, Dispatched

\* How often a ticket's command may have been run: once for each life of the
\* broker in which the ticket was admitted, this one included only when the
\* request has come that far.
AppliedOncePerLife ==
  \A t \in Tickets :
    /\ progress[t] \in Broker!Running => t \in used
    /\ applied[t] <= 1 + restarts
    /\ t \notin used \/ progress[t] \in {"admitted", "checked"} => applied[t] <= restarts

\* What has been applied, answered or settled as done was applied.
DoneIsApplied ==
  /\ \A t \in Tickets : progress[t] \in {"applied", "done"} => applied[t] > 0
  /\ \A h \in Handlers : req[h].op = "dispatched" /\ req[h].reply = "ok" =>
       applied[req[h].ticket] > 0
  /\ \A c \in Changesets : state[c] = "EXECUTED" =>
       \E t \in Dispatched : call[t].cs = c /\ applied[t] > 0

EffectInv == AppliedOncePerLife /\ DoneIsApplied

LEMMA EffectInit == GovernanceInit => EffectInv
  BY DEF GovernanceInit, Init, Broker!BrokerInit, EffectInv, AppliedOncePerLife,
     DoneIsApplied, Broker!Running, Idle, Active

LEMMA BrokerEffectStep ==
  ASSUME BrokerTypeOK, AppliedOncePerLife, BrokerStep,
         \A t \in Tickets : progress[t] \in {"applied", "done"} => applied[t] > 0
  PROVE  /\ AppliedOncePerLife'
         /\ \A t \in Tickets : /\ applied'[t] >= applied[t]
                               /\ progress'[t] \in {"applied", "done"} => applied'[t] > 0
<1> USE DEF BrokerTypeOK, Broker!BrokerTypeOK, Broker!Running, Broker!Ended, AppliedOncePerLife
<1> DEFINE Goal == /\ AppliedOncePerLife'
                   /\ \A t \in Tickets :
                        /\ applied'[t] >= applied[t]
                        /\ progress'[t] \in {"applied", "done"} => applied'[t] > 0
<1>1. ASSUME NEW t \in Tickets, Broker!Admit(t)
      PROVE  Goal
  BY <1>1 DEF Broker!Admit
<1>2. ASSUME NEW t \in Tickets, Broker!CheckDrift(t, call[t].hash)
      PROVE  Goal
  BY <1>2 DEF Broker!CheckDrift
<1>3. ASSUME NEW t \in Tickets, Broker!Apply(t, Desired[call[t].cs])
      PROVE  Goal
  BY <1>3 DEF Broker!Apply
<1>4. ASSUME NEW t \in Tickets, Broker!Verify(t)
      PROVE  Goal
  BY <1>4 DEF Broker!Verify
<1>5. ASSUME NEW t \in Tickets, Broker!TicketLapses(t)
      PROVE  Goal
  BY <1>5 DEF Broker!TicketLapses
<1>6. CASE Broker!Restart
  BY <1>6 DEF Broker!Restart
<1>7. ASSUME NEW s \in Intruders, Broker!OutsideChange(s)
      PROVE  Goal
  BY <1>7 DEF Broker!OutsideChange
<1> QED BY <1>1, <1>2, <1>3, <1>4, <1>5, <1>6, <1>7 DEF BrokerStep, BrokerWork, Dispatched

\* "ok" is what the broker answers for a job that has ended well.
LEMMA AnswersAreTrue ==
  ASSUME TypeOK, BrokerTypeOK, ControlPlaneStep, NEW h \in Handlers,
         req[h].op = "dispatched", req'[h].op = "dispatched",
         req'[h].reply = "ok", req'[h] # req[h]
  PROVE  progress[req[h].ticket] = "done" /\ req'[h].ticket = req[h].ticket
<1> USE DEF TypeOK
<1>1. ASSUME NEW k \in Handlers, req[k].op # "dispatched",
             \A l \in Handlers \ {k} : req'[l] = req[l]
      PROVE  FALSE
  BY <1>1
<1>2. ASSUME NEW k \in Handlers, Begin(k)
      PROVE  FALSE
  <2>1. req[k] = Idle /\ \E r : req' = [req EXCEPT ![k] = r]
    BY <1>2 DEF Begin, CreateRead, RollbackRead, NewPlan, PreviewRead, RequestRead,
       ApproveRead, RejectRead, CancelRead, ExpireRead, LiveRead, ExecuteRead, BumpRead,
       DropRead, Serve
  <2> QED BY <1>1, <2>1 DEF Idle
<1>3. ASSUME NEW k \in Handlers, Finish(k)
      PROVE  FALSE
  <2>1. CASE ExecuteWrite(k)
    BY <1>1, <2>1, ExecuteWriteFacts
  <2>2. CASE Answer(k)
    BY <2>2 DEF Answer, Idle
  <2> QED BY <1>3, <2>1, <2>2 DEF Finish, InsertWrite, PreviewWrite, RequestWrite,
       ApproveWrite, RejectWrite, CancelWrite, ExpireWrite, BumpWrite, DropWrite,
       LiveFinish, ExecuteFinish, Settle
<1>4. CASE Outside
  BY <1>4 DEF Outside, UpdateTarget, LapseChangeset, LapseApproval, Crash, Idle
<1>5. ASSUME NEW k \in Handlers, PreviewAnswer(k)
      PROVE  FALSE
  BY <1>5, <1>1 DEF PreviewAnswer, Reply
<1>6. ASSUME NEW k \in Handlers, ExecuteAnswer(k)
      PROVE  progress[req[h].ticket] = "done" /\ req'[h].ticket = req[h].ticket
  <2>1. PICK reply, hash : /\ Reply(k, reply, hash)
                           /\ reply = "error" \/ progress[req[k].ticket] = "done"
    BY <1>6 DEF ExecuteAnswer
  <2>2. k = h
    BY <2>1 DEF Reply
  <2>3. req'[h].reply = reply /\ req'[h].ticket = req[h].ticket
    BY <2>1, <2>2 DEF Reply, Requests
  <2> QED BY <2>1, <2>2, <2>3
<1> QED BY <1>2, <1>3, <1>4, <1>5, <1>6 DEF ControlPlaneStep

LEMMA EffectStep ==
  ASSUME TypeOK, GrantInv, CallInv, BrokerTypeOK, EffectInv,
         [GovernanceNext]_governanceVars
  PROVE  EffectInv'
<1> USE DEF EffectInv
<1>1. CASE BrokerStep /\ UNCHANGED vars
  <2>1. /\ AppliedOncePerLife'
        /\ \A t \in Tickets : /\ applied'[t] >= applied[t]
                              /\ progress'[t] \in {"applied", "done"} => applied'[t] > 0
    BY <1>1, BrokerEffectStep DEF DoneIsApplied
  <2>2. ASSUME NEW t \in Tickets, applied[t] > 0
        PROVE  applied'[t] > 0
    <3>1. applied[t] \in Nat /\ applied'[t] \in Nat
      BY BrokerTypeStep DEF CallInv, BrokerTypeOK, Broker!BrokerTypeOK
    <3>2. applied'[t] >= applied[t]
      BY <2>1
    <3> QED BY <2>2, <3>1, <3>2
  <2>3. \A h \in Handlers : req[h].op = "dispatched" => req[h].ticket \in Tickets
    BY DEF CallInv, DispatchesCalled, Dispatched
  <2>4. UNCHANGED <<req, state, call>> /\ Dispatched' = Dispatched
    BY <1>1 DEF vars, Dispatched
  <2>5. ASSUME NEW h \in Handlers, req'[h].op = "dispatched", req'[h].reply = "ok"
        PROVE  applied'[req'[h].ticket] > 0
    BY <2>2, <2>3, <2>4, <2>5 DEF DoneIsApplied
  <2>6. ASSUME NEW c \in Changesets, state'[c] = "EXECUTED"
        PROVE  \E t \in Dispatched' : call'[t].cs = c /\ applied'[t] > 0
    BY <2>2, <2>4, <2>6 DEF DoneIsApplied, Dispatched
  <2> QED BY <2>1, <2>5, <2>6 DEF DoneIsApplied
<1>2. CASE [Next]_vars /\ UNCHANGED brokerState /\ (ControlPlaneStep \/ UNCHANGED vars)
  <2>1. /\ AppliedOncePerLife'
        /\ \A t \in Tickets : progress'[t] \in {"applied", "done"} => applied'[t] > 0
    BY <1>2 DEF brokerState, AppliedOncePerLife, DoneIsApplied
  <2>2. ASSUME NEW h \in Handlers, req'[h].op = "dispatched", req'[h].reply = "ok"
        PROVE  applied'[req'[h].ticket] > 0
    <3>1. CASE req'[h] = req[h]
      BY <1>2, <2>2, <3>1 DEF brokerState, DoneIsApplied
    <3>2. CASE req'[h] # req[h]
      <4>1. \A c, s : ~NewPlan(h, c, s)
        <5>1. ASSUME NEW c, NEW s, NewPlan(h, c, s)
              PROVE  FALSE
          <6>1. [On("create", c) EXCEPT !.gen = gen, !.snap = target, !.source = s].op
                  # "dispatched"
            BY DEF On, Idle
          <6> QED BY <2>2, <5>1, <6>1, Served DEF NewPlan, TypeOK
        <5> QED BY <5>1
      <4>2. ~ExecuteWrite(h)
        BY <2>2, DispatchFacts
      <4>3. req[h].op = "dispatched"
        <5>1. PICK reply \in Replies, hash \in LiveStates \cup {None} : Reply(h, reply, hash)
          BY <1>2, <2>2, <3>2, <4>1, <4>2, RequestCases
             DEF RequestKinds, CreateRead, RollbackRead
        <5> QED BY <2>2, <5>1 DEF Reply, TypeOK, Requests
      <4>4. ControlPlaneStep
        BY <1>2, <3>2 DEF vars
      <4>5. progress[req[h].ticket] = "done" /\ req'[h].ticket = req[h].ticket
        BY <2>2, <3>2, <4>3, <4>4, AnswersAreTrue
      <4>6. req[h].ticket \in Tickets
        BY <4>3 DEF CallInv, DispatchesCalled, Dispatched
      <4> QED BY <1>2, <4>5, <4>6 DEF brokerState, DoneIsApplied
    <3> QED BY <3>1, <3>2
  <2>3. ASSUME NEW c \in Changesets, state'[c] = "EXECUTED"
        PROVE  \E t \in Dispatched' : call'[t].cs = c /\ applied'[t] > 0
    <3>1. \E t \in Dispatched : call[t].cs = c /\ applied[t] > 0
      BY <1>2, <2>3, RowCases DEF CallInv, DispatchesCalled, DoneIsApplied
    <3> QED BY <1>2, <3>1, CallsPersist DEF brokerState
  <2> QED BY <2>1, <2>2, <2>3 DEF DoneIsApplied
<1>3. CASE UNCHANGED governanceVars
  BY <1>2, <1>3 DEF governanceVars
<1> QED BY <1>1, <1>2, <1>3, GovernanceCases DEF GovernanceNext

\* Everything the composition keeps, to be proved of its steps together.
GovernanceInv == TypeOK /\ GrantInv /\ CallInv /\ BrokerTypeOK /\ EffectInv

LEMMA GovernanceStep == GovernanceInv /\ [GovernanceNext]_governanceVars => GovernanceInv'
<1> SUFFICES ASSUME GovernanceInv, [GovernanceNext]_governanceVars
             PROVE  GovernanceInv'
  OBVIOUS
<1> USE DEF GovernanceInv
<1>1. [Next]_vars
  BY GovernanceCases
<1>2. TypeOK' /\ GrantInv' /\ CallInv'
  BY <1>1, TypeStep, GrantStep, CallStep
<1>3. BrokerTypeOK'
  BY BrokerTypeStep DEF CallInv
<1>4. EffectInv'
  BY EffectStep
<1> QED BY <1>2, <1>3, <1>4

LEMMA GovernanceHolds == GovernanceSpec => []GovernanceInv
<1>1. GovernanceInit => GovernanceInv
  BY TypeInit, GrantInit, CallInit, BrokerTypeInit, EffectInit DEF GovernanceInit, GovernanceInv
<1> QED BY <1>1, GovernanceStep, PTL DEF GovernanceSpec

(* Whatever the composition does, the broker's tables keep their shape.    *)
THEOREM BrokerTypeCorrect == GovernanceSpec => []BrokerTypeOK
<1>1. GovernanceInv => BrokerTypeOK
  BY DEF GovernanceInv
<1> QED BY <1>1, GovernanceHolds, PTL

(* However answers are lost, requests time out and tickets are presented   *)
(* again, an approval changes the cluster once per life of the broker.     *)
THEOREM GrantsApplyOnce == GovernanceSpec => []GrantAppliesOnce
<1>1. GovernanceInv => GrantAppliesOnce
  BY DEF GovernanceInv, GrantInv, GrantsApart, EffectInv, AppliedOncePerLife,
     GrantAppliesOnce, Dispatched
<1> QED BY <1>1, GovernanceHolds, PTL

(* A ChangeSet is EXECUTED only when the broker applied a call made for it. *)
THEOREM ExecutedMeansApplied == GovernanceSpec => []ExecutedReachedCluster
<1>1. GovernanceInv => ExecutedReachedCluster
  BY DEF GovernanceInv, EffectInv, DoneIsApplied, ExecutedReachedCluster
<1> QED BY <1>1, GovernanceHolds, PTL

-----------------------------------------------------------------------------
(* Operation jobs: a job starts only on approvals that are consumed for it *)
(* and make up a quorum; the jobs implement CheckedGrant; no outcome is    *)
(* recorded without a start.                                               *)
(*                                                                         *)
(* The argument: a step of the composition is a step of ChangeSets, which  *)
(* the lemmas about ChangeSets cover, or a step of a job handler, of which *)
(* only a start touches the approvals, and it takes all or none.  A set of *)
(* approvals that was once a quorum stays one, since rows never change     *)
(* their ChangeSet or approver; so it is enough to follow the set from the *)
(* authorisation through the job's row and the requests that copy it.      *)

-----------------------------------------------------------------------------
(* The two kinds of steps *)

\* A step of the ChangeSet service or of its surroundings.
ServiceStep ==
  /\ [Next]_vars
  /\ starts' = starts
  /\ job' \in [Changesets -> Jobs] /\ jreq' \in [Handlers -> JobRequests]
  /\ \A c \in Changesets : job'[c].grants = job[c].grants /\ job'[c].state = job[c].state
                            /\ (job'[c].ticket = "none" <=> job[c].ticket = "none")
  /\ \A h \in Handlers : jreq'[h] = jreq[h] \/ jreq'[h] = NoJobRequest

LEMMA StepCases ==
  ASSUME JobTypeOK, [JobNext]_allVars
  PROVE  ServiceStep \/ \E h \in Handlers : JobStep(h)
<1> USE DEF JobTypeOK
<1>1. ASSUME NEW h \in Handlers, BeginOther(h) \/ (Finish(h) /\ UNCHANGED jobVars) \/ AnswerOther(h)
      PROVE  ServiceStep
  <2>1. Next /\ UNCHANGED jobVars
    BY <1>1 DEF BeginOther, AnswerOther, Next
  <2> QED BY <2>1 DEF ServiceStep, jobVars
<1>2. CASE OutsideOther
  <2>1. NoJobRequest \in JobRequests
    BY DEF NoJobRequest, JobRequests
  <2> QED BY <1>2, <2>1 DEF OutsideOther, ServiceStep, Next
<1>3. ASSUME NEW c \in Changesets, LapseTicket(c)
      PROVE  ServiceStep
  BY <1>3 DEF LapseTicket, ServiceStep, Jobs
<1>4. CASE UNCHANGED allVars
  BY <1>4 DEF allVars, jobVars, ServiceStep
<1> QED BY <1>1, <1>2, <1>3, <1>4 DEF JobNext

\* What the job handlers leave alone, and how they change the approvals.
LEMMA JobStepFrame ==
  ASSUME JobTypeOK, NEW h \in Handlers, JobStep(h)
  PROVE  /\ req' = req /\ call' = call /\ gen' = gen /\ target' = target
         /\ overdue' = overdue /\ crashes' = crashes
         /\ \/ approval' = approval /\ starts' = starts
            \/ /\ jreq[h].op \in {"start", "transition"}
               /\ jreq[h].op = "transition" => jreq[h].from = "READY"
               /\ Start(jreq[h])
  BY DEF JobStep, PlanRead, PlanWrite, AuthorizeRead, AuthorizeWrite, ExecuteJobRead,
     ExecuteJobWrite, ExecuteJobRefused, JobSucceeds, JobFails, JobEnds, ResultMalformed,
     TransitionRead, TransitionStarts, TransitionRefused, TransitionWrite, ReadOnlyJob

-----------------------------------------------------------------------------
(* Types *)

\* A request that is being served names the ChangeSet it is about.
Busy == \A h \in Handlers : jreq[h].op # "idle" => jreq[h].cs \in Changesets

LEMMA JobRequestType ==
  /\ NoJobRequest \in JobRequests /\ NoJobRequest.op = "idle"
  /\ \A op \in {"plan", "authorize", "start", "running", "transition"}, c \in Changesets :
       /\ JobOn(op, c) \in JobRequests /\ JobOn(op, c).op = op /\ JobOn(op, c).cs = c
       /\ JobOn(op, c).grants = {}
  BY DEF NoJobRequest, JobRequests, JobOn

LEMMA ServeJobType ==
  ASSUME jreq \in [Handlers -> JobRequests], Busy, NEW h \in Handlers,
         NEW r \in JobRequests, r.cs \in Changesets, ServeJob(h, r)
  PROVE  jreq' \in [Handlers -> JobRequests] /\ Busy'
  BY DEF ServeJob, Busy

LEMMA AnswerJobType ==
  ASSUME jreq \in [Handlers -> JobRequests], Busy, NEW h \in Handlers, AnswerJob(h)
  PROVE  jreq' \in [Handlers -> JobRequests] /\ Busy'
  BY JobRequestType DEF AnswerJob, Busy

LEMMA SetJobType ==
  ASSUME job \in [Changesets -> Jobs], NEW c \in Changesets,
         NEW s \in JobStates \cup {"NONE"}, SetJob(c, s)
  PROVE  job' \in [Changesets -> Jobs]
  BY DEF SetJob, Jobs

LEMMA StartType ==
  ASSUME JobTypeOK, NEW r \in JobRequests, r.cs \in Changesets, Start(r)
  PROVE  /\ approval' \in [Approvals -> ApprovalRows] /\ state' \in [Changesets -> States]
         /\ job' \in [Changesets -> Jobs]
         /\ starts' \in Seq([cs: Changesets, grants: SUBSET Approvals])
<1> USE DEF JobTypeOK, TypeOK
<1>1. "RUNNING" \in JobStates /\ "EXECUTING" \in States
  BY DEF JobStates, States
<1>2. \A a \in Approvals : [approval[a] EXCEPT !.status = "CONSUMED"] \in ApprovalRows
  BY DEF ApprovalRows
<1>3. approval' \in [Approvals -> ApprovalRows]
  BY <1>2 DEF Start
<1>4. job' \in [Changesets -> Jobs]
  BY <1>1, SetJobType DEF Start
<1>5. state' \in [Changesets -> States]
  BY <1>1 DEF Start, SetState
<1>6. [cs |-> r.cs, grants |-> r.grants] \in [cs: Changesets, grants: SUBSET Approvals]
  BY DEF JobRequests
<1>7. starts' \in Seq([cs: Changesets, grants: SUBSET Approvals])
  BY <1>6 DEF Start
<1> QED BY <1>3, <1>4, <1>5, <1>7

LEMMA ServiceStepType ==
  ASSUME JobTypeOK, Busy, ServiceStep
  PROVE  JobTypeOK' /\ Busy'
<1>1. TypeOK'
  BY TypeStep DEF JobTypeOK, ServiceStep
<1>2. Busy'
  BY JobRequestType DEF ServiceStep, Busy
<1> QED BY <1>1, <1>2 DEF JobTypeOK, ServiceStep

LEMMA JobStepType ==
  ASSUME JobTypeOK, Busy, NEW h \in Handlers, JobStep(h)
  PROVE  JobTypeOK' /\ Busy'
<1> USE DEF JobTypeOK, TypeOK
<1>1. ASSUME NEW c \in Changesets, PlanRead(h, c)
      PROVE  JobTypeOK' /\ Busy'
  <2> DEFINE r == [JobOn("plan", c) EXCEPT !.gen = gen, !.snap = target]
  <2>1. r \in JobRequests /\ r.cs = c
    BY DEF JobOn, NoJobRequest, JobRequests
  <2>2. jreq' \in [Handlers -> JobRequests] /\ Busy'
    BY <1>1, <2>1, ServeJobType DEF PlanRead
  <2> QED BY <1>1, <2>2 DEF PlanRead, ReadOnlyJob
<1>2. CASE PlanWrite(h)
  <2>1. jreq[h].cs \in Changesets
    BY <1>2 DEF PlanWrite, Busy
  <2>2. [gen |-> jreq[h].gen, snap |-> jreq[h].snap, source |-> None] \in Plans
    BY DEF JobRequests, Plans
  <2>3. "PREVIEWED" \in States /\ "WAITING_APPROVAL" \in JobStates
    BY DEF States, Active, JobStates
  <2>4. job' \in [Changesets -> Jobs]
    BY <1>2, <2>1, <2>3, SetJobType DEF PlanWrite
  <2>5. jreq' \in [Handlers -> JobRequests] /\ Busy'
    BY <1>2, AnswerJobType DEF PlanWrite
  <2>6. preview' \in [Changesets -> Previews] /\ state' \in [Changesets -> States]
        /\ plan' \in [Changesets -> Plans]
    BY <1>2, <2>1, <2>2, <2>3, ConstantRows DEF PlanWrite, SetState
  <2> QED BY <1>2, <2>4, <2>5, <2>6 DEF PlanWrite
<1>3. ASSUME NEW c \in Changesets, AuthorizeRead(h, c)
      PROVE  JobTypeOK' /\ Busy'
  <2>1. PICK grants \in SUBSET Approvals :
          ServeJob(h, [JobOn("authorize", c) EXCEPT !.grants = grants])
    BY <1>3 DEF AuthorizeRead
  <2> DEFINE r == [JobOn("authorize", c) EXCEPT !.grants = grants]
  <2>2. r \in JobRequests /\ r.cs = c
    BY DEF JobOn, NoJobRequest, JobRequests
  <2>3. jreq' \in [Handlers -> JobRequests] /\ Busy'
    BY <2>1, <2>2, ServeJobType
  <2> QED BY <1>3, <2>3 DEF AuthorizeRead, ReadOnlyJob
<1>4. CASE AuthorizeWrite(h)
  <2>1. [state |-> "READY", ticket |-> "fresh", grants |-> jreq[h].grants] \in Jobs
    BY DEF JobRequests, Jobs, JobStates
  <2>2. jreq' \in [Handlers -> JobRequests] /\ Busy'
    BY <1>4, AnswerJobType DEF AuthorizeWrite
  <2> QED BY <1>4, <2>1, <2>2 DEF AuthorizeWrite
<1>5. ASSUME NEW c \in Changesets, ExecuteJobRead(h, c)
      PROVE  JobTypeOK' /\ Busy'
  <2> DEFINE r == [JobOn("start", c) EXCEPT !.grants = job[c].grants]
  <2>1. r \in JobRequests /\ r.cs = c
    BY DEF JobOn, NoJobRequest, JobRequests, Jobs
  <2>2. jreq' \in [Handlers -> JobRequests] /\ Busy'
    BY <1>5, <2>1, ServeJobType DEF ExecuteJobRead
  <2> QED BY <1>5, <2>2 DEF ExecuteJobRead, ReadOnlyJob
<1>6. ASSUME jreq[h].op = "start" \/ jreq[h].op = "transition", Start(jreq[h])
      PROVE  /\ jreq[h].cs \in Changesets
             /\ approval' \in [Approvals -> ApprovalRows] /\ state' \in [Changesets -> States]
             /\ job' \in [Changesets -> Jobs]
             /\ starts' \in Seq([cs: Changesets, grants: SUBSET Approvals])
  BY <1>6, StartType DEF Busy
<1>7. CASE ExecuteJobWrite(h)
  <2>1. jreq' \in [Handlers -> JobRequests] /\ Busy'
    BY <1>6, <1>7, JobRequestType DEF ExecuteJobWrite, Busy
  <2> QED BY <1>6, <1>7, <2>1 DEF ExecuteJobWrite
<1>8. CASE TransitionStarts(h)
  <2>1. jreq' \in [Handlers -> JobRequests] /\ Busy'
    BY <1>8, AnswerJobType DEF TransitionStarts
  <2> QED BY <1>6, <1>8, <2>1 DEF TransitionStarts
<1>9. CASE ExecuteJobRefused(h) \/ TransitionRefused(h)
  <2>1. jreq' \in [Handlers -> JobRequests] /\ Busy'
    BY <1>9, AnswerJobType DEF ExecuteJobRefused, TransitionRefused
  <2> QED BY <1>9, <2>1 DEF ExecuteJobRefused, TransitionRefused, ReadOnlyJob
<1>10. CASE JobSucceeds(h) \/ JobFails(h)
  <2>1. PICK s \in JobStates, t \in States : JobEnds(h, s, t)
    BY <1>10 DEF JobSucceeds, JobFails, JobStates, States, Terminal
  <2>2. jreq[h].cs \in Changesets
    BY <2>1 DEF JobEnds, Busy
  <2>3. job' \in [Changesets -> Jobs]
    BY <2>1, <2>2, SetJobType DEF JobEnds
  <2>4. jreq' \in [Handlers -> JobRequests] /\ Busy'
    BY <2>1, AnswerJobType DEF JobEnds
  <2> QED BY <2>1, <2>3, <2>4 DEF JobEnds, SetState
<1>11. CASE ResultMalformed(h)
  <2>1. "EXPIRED" \in States
    BY DEF States, Terminal
  <2>2. jreq[h].cs \in Changesets
    BY <1>11 DEF ResultMalformed, Busy
  <2>3. jreq' \in [Handlers -> JobRequests] /\ Busy'
    BY <1>11, AnswerJobType DEF ResultMalformed
  <2> QED BY <1>11, <2>1, <2>2, <2>3 DEF ResultMalformed, SetState
<1>12. ASSUME NEW c \in Changesets, NEW to \in JobStates, TransitionRead(h, c, to)
       PROVE  JobTypeOK' /\ Busy'
  <2> DEFINE r == [JobOn("transition", c) EXCEPT
                     !.from = job[c].state, !.to = to, !.grants = job[c].grants]
  <2>1. r \in JobRequests /\ r.cs = c
    BY DEF JobOn, NoJobRequest, JobRequests, Jobs
  <2>2. jreq' \in [Handlers -> JobRequests] /\ Busy'
    BY <1>12, <2>1, ServeJobType DEF TransitionRead
  <2> QED BY <1>12, <2>2 DEF TransitionRead, ReadOnlyJob
<1>13. CASE TransitionWrite(h)
  <2>1. jreq[h].cs \in Changesets /\ jreq[h].to \in JobStates \cup {"NONE"}
    BY <1>13 DEF TransitionWrite, Busy, JobRequests
  <2>2. job' \in [Changesets -> Jobs]
    BY <1>13, <2>1, SetJobType DEF TransitionWrite
  <2>3. state' \in [Changesets -> States]
    <3>1. "EXECUTED" \in States /\ "FAILED" \in States
      BY DEF States, Terminal
    <3> QED BY <1>13, <2>1, <3>1 DEF TransitionWrite, SetState
  <2>4. jreq' \in [Handlers -> JobRequests] /\ Busy'
    BY <1>13, AnswerJobType DEF TransitionWrite
  <2> QED BY <1>13, <2>2, <2>3, <2>4 DEF TransitionWrite
<1> QED BY <1>1, <1>2, <1>3, <1>4, <1>5, <1>7, <1>8, <1>9, <1>10, <1>11, <1>12, <1>13
        DEF JobStep

LEMMA JobTypesHold == JobSpec => [](JobTypeOK /\ Busy)
<1>1. JobInit => JobTypeOK /\ Busy
  <2> SUFFICES ASSUME JobInit PROVE JobTypeOK /\ Busy
    OBVIOUS
  <2>1. TypeOK
    BY TypeInit DEF JobInit
  <2>2. NoJob \in Jobs
    BY DEF NoJob, Jobs
  <2> QED BY <2>1, <2>2, JobRequestType DEF JobInit, JobTypeOK, Busy
<1>2. JobTypeOK /\ Busy /\ [JobNext]_allVars => JobTypeOK' /\ Busy'
  BY StepCases, ServiceStepType, JobStepType
<1> QED BY <1>1, <1>2, PTL DEF JobSpec

(* Every job row and request keeps its shape, whatever a handler writes    *)
(* from values it read earlier, and so do the ChangeSet service's rows.    *)
THEOREM JobTypeCorrect == JobSpec => []JobTypeOK
  BY JobTypesHold, PTL

-----------------------------------------------------------------------------
(* Starts rest on a consumed quorum                                        *)

LEMMA StartElement ==
  ASSUME JobTypeOK, NEW i \in DOMAIN starts
  PROVE  starts[i].cs \in Changesets /\ starts[i].grants \in SUBSET Approvals
<1>1. DOMAIN starts = 1..Len(starts)
  BY LenProperties DEF JobTypeOK
<1>2. starts[i] \in [cs: Changesets, grants: SUBSET Approvals]
  BY <1>1, ElementOfSeq DEF JobTypeOK
<1> QED BY <1>2

LEMMA JobApprovalsPersist ==
  ASSUME JobTypeOK, [JobNext]_allVars
  PROVE  \A a \in Approvals : Persists(a)
<1>1. CASE ServiceStep
  BY <1>1, ApprovalsPersist DEF ServiceStep, JobTypeOK
<1>2. ASSUME NEW h \in Handlers, JobStep(h)
      PROVE  \A a \in Approvals : Persists(a)
  <2>1. CASE approval' = approval
    BY <2>1 DEF Persists
  <2>2. CASE Start(jreq[h])
    BY <2>2 DEF Start, Unspent, Persists, JobTypeOK, TypeOK, ApprovalRows
  <2> QED BY <1>2, <2>1, <2>2, JobStepFrame
<1> QED BY <1>1, <1>2, StepCases

\* A set of approvals that was once a quorum for c.
Vouched(table, c, grants) ==
  Backed(table, c, grants) /\ \A a \in grants : table[a].status # "NONE"

LEMMA VouchedPersists ==
  ASSUME NEW c, NEW grants \in SUBSET Approvals, Vouched(approval, c, grants),
         \A a \in Approvals : Persists(a)
  PROVE  Vouched(approval', c, grants)
  BY BackedPersists DEF Vouched

LEMMA AuthorizedVouches ==
  ASSUME TypeOK, AuthorsApart, NEW c \in Changesets, NEW grants \in SUBSET Approvals,
         Authorized(c, grants)
  PROVE  Vouched(approval, c, grants)
<1>1. Backed(approval, c, grants)
  BY QuorumBacks DEF Authorized
<1> QED BY <1>1 DEF Authorized, Quorum, ValidGrants, Standing, Vouched

JobsVouched ==
  \A c \in Changesets : job[c].ticket # "none" => Vouched(approval, c, job[c].grants)

Carries == {"authorize", "start", "transition"}
RequestsVouched ==
  \A h \in Handlers : jreq[h].op \in Carries => Vouched(approval, jreq[h].cs, jreq[h].grants)

Spent(table, grants) == \A a \in grants : table[a].status = "CONSUMED"
StartsVouched ==
  \A i \in DOMAIN starts : /\ Vouched(approval, starts[i].cs, starts[i].grants)
                            /\ Spent(approval, starts[i].grants)

JobInv == AuthorsApart /\ AskersApart /\ JobsVouched /\ RequestsVouched /\ StartsVouched

\* What was vouched for before a step still is after it.
LEMMA VouchedBefore ==
  ASSUME JobTypeOK, JobInv, [JobNext]_allVars
  PROVE  /\ \A c \in Changesets : job[c].ticket # "none" => Vouched(approval', c, job[c].grants)
         /\ \A h \in Handlers : jreq[h].op \in Carries =>
              Vouched(approval', jreq[h].cs, jreq[h].grants)
         /\ \A i \in DOMAIN starts : /\ Vouched(approval', starts[i].cs, starts[i].grants)
                                     /\ Spent(approval', starts[i].grants)
<1> USE DEF JobTypeOK
<1>1. \A a \in Approvals : Persists(a)
  BY JobApprovalsPersist
<1>2. ASSUME NEW c \in Changesets, job[c].ticket # "none"
      PROVE  Vouched(approval', c, job[c].grants)
  BY <1>1, <1>2, VouchedPersists DEF JobInv, JobsVouched, Jobs
<1>3. ASSUME NEW h \in Handlers, jreq[h].op \in Carries
      PROVE  Vouched(approval', jreq[h].cs, jreq[h].grants)
  BY <1>1, <1>3, VouchedPersists DEF JobInv, RequestsVouched, JobRequests
<1>4. ASSUME NEW i \in DOMAIN starts
      PROVE  Vouched(approval', starts[i].cs, starts[i].grants)
             /\ Spent(approval', starts[i].grants)
  <2>1. starts[i].grants \in SUBSET Approvals
    BY StartElement
  <2>2. Vouched(approval, starts[i].cs, starts[i].grants) /\ Spent(approval, starts[i].grants)
    BY DEF JobInv, StartsVouched
  <2>3. Vouched(approval', starts[i].cs, starts[i].grants)
    BY <1>1, <2>1, <2>2, VouchedPersists
  <2> QED BY <1>1, <2>1, <2>2, <2>3 DEF Spent, Persists
<1> QED BY <1>2, <1>3, <1>4

\* How a job handler's step changes its own request and the jobs.
LEMMA JobStepMoves ==
  ASSUME JobTypeOK, Busy, NEW h \in Handlers, JobStep(h)
  PROVE  /\ \A k \in Handlers \ {h} : jreq'[k] = jreq[k]
         /\ \/ jreq'[h].op \notin Carries
            \/ \E c \in Changesets, grants \in SUBSET Approvals :
                 /\ jreq'[h].cs = c /\ jreq'[h].grants = grants
                 /\ approval' = approval
                 /\ \/ Authorized(c, grants)
                    \/ job[c].ticket # "none" /\ grants = job[c].grants
         /\ \A c \in Changesets :
              \/ job'[c].ticket = job[c].ticket /\ job'[c].grants = job[c].grants
              \/ jreq[h].op \in Carries /\ c = jreq[h].cs /\ job'[c].grants = jreq[h].grants
<1> DEFINE Others == \A k \in Handlers \ {h} : jreq'[k] = jreq[k]
           Kept == \A c \in Changesets :
                     job'[c].ticket = job[c].ticket /\ job'[c].grants = job[c].grants
           Freed == jreq'[h].op \notin Carries
           Taken == \E c \in Changesets, grants \in SUBSET Approvals :
                      /\ jreq'[h].cs = c /\ jreq'[h].grants = grants
                      /\ approval' = approval
                      /\ \/ Authorized(c, grants)
                         \/ job[c].ticket # "none" /\ grants = job[c].grants
<1> USE DEF JobTypeOK
<1>1. ASSUME NEW r, ServeJob(h, r) PROVE Others /\ jreq'[h] = r
  BY <1>1 DEF ServeJob
<1>2. ASSUME AnswerJob(h) PROVE Others /\ Freed
  BY <1>2, JobRequestType DEF AnswerJob, Carries
<1>3. ASSUME NEW c \in Changesets, NEW s, SetJob(c, s) PROVE Kept
  BY <1>3 DEF SetJob, Jobs
<1>4. ASSUME NEW c \in Changesets, PlanRead(h, c)
      PROVE  Others /\ Freed /\ Kept
  <2>1. [JobOn("plan", c) EXCEPT !.gen = gen, !.snap = target].op = "plan"
    BY DEF JobOn, NoJobRequest
  <2> QED BY <1>1, <1>4, <2>1 DEF PlanRead, ReadOnlyJob, Carries
<1>5. CASE PlanWrite(h)
  BY <1>2, <1>3, <1>5 DEF PlanWrite, Busy
<1>6. ASSUME NEW c \in Changesets, AuthorizeRead(h, c)
      PROVE  Others /\ Taken /\ Kept
  <2>1. PICK grants \in SUBSET Approvals :
          /\ Authorized(c, grants)
          /\ ServeJob(h, [JobOn("authorize", c) EXCEPT !.grants = grants])
    BY <1>6 DEF AuthorizeRead
  <2> DEFINE r == [JobOn("authorize", c) EXCEPT !.grants = grants]
  <2>2. r.cs = c /\ r.grants = grants
    BY DEF JobOn, NoJobRequest
  <2> QED BY <1>1, <1>6, <2>1, <2>2 DEF AuthorizeRead, ReadOnlyJob
<1>7. CASE AuthorizeWrite(h)
  <2>1. jreq[h].op \in Carries /\ jreq[h].cs \in Changesets
    BY <1>7 DEF AuthorizeWrite, Carries, Busy
  <2>2. \A c \in Changesets :
          \/ job'[c] = job[c]
          \/ c = jreq[h].cs /\ job'[c].grants = jreq[h].grants
    BY <1>7 DEF AuthorizeWrite
  <2> QED BY <1>2, <1>7, <2>1, <2>2 DEF AuthorizeWrite
<1>8. ASSUME NEW c \in Changesets, ExecuteJobRead(h, c)
      PROVE  Others /\ Taken /\ Kept
  <2> DEFINE r == [JobOn("start", c) EXCEPT !.grants = job[c].grants]
  <2>1. r.cs = c /\ r.grants = job[c].grants
    BY DEF JobOn, NoJobRequest
  <2>2. job[c].grants \in SUBSET Approvals
    BY DEF Jobs
  <2> QED BY <1>1, <1>8, <2>1, <2>2 DEF ExecuteJobRead, TicketHolds, ReadOnlyJob
<1>9. CASE ExecuteJobWrite(h)
  <2>1. jreq[h].cs \in Changesets /\ SetJob(jreq[h].cs, "RUNNING")
    BY <1>9 DEF ExecuteJobWrite, Start, Busy
  <2>2. Others /\ Freed
    BY <1>9, <2>1, JobRequestType DEF ExecuteJobWrite, Carries
  <2> QED BY <1>3, <2>1, <2>2
<1>10. CASE TransitionStarts(h)
  <2>1. jreq[h].cs \in Changesets /\ SetJob(jreq[h].cs, "RUNNING")
    BY <1>10 DEF TransitionStarts, Start, Busy
  <2> QED BY <1>2, <1>3, <1>10, <2>1 DEF TransitionStarts
<1>11. CASE ExecuteJobRefused(h) \/ TransitionRefused(h) \/ ResultMalformed(h)
  BY <1>2, <1>11 DEF ExecuteJobRefused, TransitionRefused, ResultMalformed, ReadOnlyJob
<1>12. CASE JobSucceeds(h) \/ JobFails(h)
  <2>1. PICK s, t : JobEnds(h, s, t)
    BY <1>12 DEF JobSucceeds, JobFails
  <2> QED BY <1>2, <1>3, <2>1 DEF JobEnds, Busy
<1>13. ASSUME NEW c \in Changesets, NEW to \in JobStates, TransitionRead(h, c, to)
       PROVE  Others /\ Taken /\ Kept
  <2> DEFINE r == [JobOn("transition", c) EXCEPT
                     !.from = job[c].state, !.to = to, !.grants = job[c].grants]
  <2>1. r.cs = c /\ r.grants = job[c].grants
    BY DEF JobOn, NoJobRequest
  <2>2. job[c].grants \in SUBSET Approvals /\ job[c].ticket # "none"
    BY <1>13 DEF Jobs, TransitionRead, TicketHolds
  <2>3. ServeJob(h, r) /\ approval' = approval /\ job' = job
    BY <1>13 DEF TransitionRead, ReadOnlyJob
  <2> QED BY <1>1, <2>1, <2>2, <2>3
<1>14. CASE TransitionWrite(h)
  BY <1>2, <1>3, <1>14 DEF TransitionWrite, Busy
<1> QED BY <1>4, <1>5, <1>6, <1>7, <1>8, <1>9, <1>10, <1>11, <1>12, <1>13, <1>14
        DEF JobStep

LEMMA JobInvServiceStep ==
  ASSUME JobTypeOK, JobInv, [JobNext]_allVars, ServiceStep
  PROVE  JobInv'
<1> USE DEF JobTypeOK
<1>1. AuthorsApart' /\ AskersApart'
  BY AuthorsStep, AskersStep DEF JobInv, ServiceStep
<1>2. JobsVouched'
  BY VouchedBefore DEF ServiceStep, JobsVouched
<1>3. RequestsVouched'
  BY VouchedBefore, JobRequestType DEF ServiceStep, RequestsVouched, Carries
<1>4. StartsVouched'
  BY VouchedBefore DEF ServiceStep, StartsVouched
<1> QED BY <1>1, <1>2, <1>3, <1>4 DEF JobInv

\* A start adds one element, which its own request vouches for.
LEMMA StartsVouchedStep ==
  ASSUME JobTypeOK, JobInv, [JobNext]_allVars, NEW h \in Handlers, JobStep(h)
  PROVE  StartsVouched'
<1> USE DEF JobTypeOK
<1>1. CASE starts' = starts
  BY <1>1, VouchedBefore DEF StartsVouched
<1>2. ASSUME jreq[h].op \in {"start", "transition"}, Start(jreq[h])
      PROVE  StartsVouched'
  <2> DEFINE new == [cs |-> jreq[h].cs, grants |-> jreq[h].grants]
  <2>1. Len(starts) \in Nat /\ DOMAIN starts = 1..Len(starts)
    BY LenProperties
  <2>2. starts' = Append(starts, new)
    BY <1>2 DEF Start
  <2>3. /\ DOMAIN starts' = 1..(Len(starts) + 1)
        /\ \A i \in DOMAIN starts : starts'[i] = starts[i]
        /\ starts'[Len(starts) + 1] = new
    BY <2>1, <2>2
  <2>4. Vouched(approval', jreq[h].cs, jreq[h].grants)
    BY <1>2, VouchedBefore DEF Carries
  <2>5. Spent(approval', jreq[h].grants)
    BY <1>2 DEF Start, Spent, JobRequests, TypeOK, ApprovalRows
  <2>6. \A i \in DOMAIN starts : Vouched(approval', starts[i].cs, starts[i].grants)
                                /\ Spent(approval', starts[i].grants)
    BY VouchedBefore
  <2>7. \A i \in DOMAIN starts' : i \in DOMAIN starts \/ i = Len(starts) + 1
    BY <2>1, <2>3
  <2> QED BY <2>3, <2>4, <2>5, <2>6, <2>7 DEF StartsVouched
<1> QED BY <1>1, <1>2, JobStepFrame

LEMMA JobInvJobStep ==
  ASSUME JobTypeOK, Busy, JobInv, [JobNext]_allVars, NEW h \in Handlers, JobStep(h)
  PROVE  JobInv'
<1> USE DEF JobTypeOK
<1>1. req' = req /\ \A a \in Approvals :
        /\ approval'[a].cs = approval[a].cs /\ approval'[a].by = approval[a].by
        /\ approval'[a].status = "NONE" <=> approval[a].status = "NONE"
  <2>1. CASE Start(jreq[h])
    BY <2>1, JobStepFrame DEF Start, Unspent, TypeOK, ApprovalRows
  <2> QED BY <2>1, JobStepFrame
<1>2. AuthorsApart' /\ AskersApart'
  BY <1>1 DEF JobInv, AuthorsApart, AskersApart
<1>3. JobsVouched'
  BY VouchedBefore, JobStepMoves DEF JobsVouched
<1>4. RequestsVouched'
  <2>1. \A k \in Handlers \ {h} : jreq'[k].op \in Carries =>
          Vouched(approval', jreq'[k].cs, jreq'[k].grants)
    BY VouchedBefore, JobStepMoves
  <2>2. ASSUME jreq'[h].op \in Carries
        PROVE  Vouched(approval', jreq'[h].cs, jreq'[h].grants)
    <3>1. PICK c \in Changesets, grants \in SUBSET Approvals :
            /\ jreq'[h].cs = c /\ jreq'[h].grants = grants
            /\ approval' = approval
            /\ \/ Authorized(c, grants)
               \/ job[c].ticket # "none" /\ grants = job[c].grants
      BY <2>2, JobStepMoves
    <3>2. Vouched(approval, c, grants)
      BY <3>1, AuthorizedVouches DEF JobInv, JobsVouched
    <3> QED BY <3>1, <3>2
  <2> QED BY <2>1, <2>2 DEF RequestsVouched
<1>5. StartsVouched'
  BY StartsVouchedStep
<1> QED BY <1>2, <1>3, <1>4, <1>5 DEF JobInv

LEMMA JobInvInit == JobInit => JobInv
<1> SUFFICES ASSUME JobInit PROVE JobInv
  OBVIOUS
<1>1. AuthorsApart /\ AskersApart
  BY QuorumInit DEF JobInit, QuorumInv
<1>2. DOMAIN starts = {}
  BY DEF JobInit
<1> QED BY <1>1, <1>2, JobRequestType
        DEF JobInit, JobInv, JobsVouched, RequestsVouched, StartsVouched, NoJob, Carries

LEMMA JobInvHolds == JobSpec => []JobInv
<1>1. JobTypeOK /\ Busy /\ JobInv /\ [JobNext]_allVars => JobInv'
  BY StepCases, JobInvServiceStep, JobInvJobStep
<1> QED BY <1>1, JobInvInit, JobTypesHold, PTL DEF JobSpec

(* However a start races cancels, rejections, bumps, expiry and other      *)
(* starts, its approvals were a quorum for its ChangeSet and are consumed. *)
THEOREM StartsHaveConsumedQuorum == JobSpec => []StartsOnConsumedQuorum
<1>1. JobInv => StartsOnConsumedQuorum
  BY DEF JobInv, StartsVouched, Vouched, Backed, ApproversIn, Spent, StartsOnConsumedQuorum
<1> QED BY <1>1, JobInvHolds, PTL

-----------------------------------------------------------------------------
(* Jobs implement CheckedGrant                                             *)

\* The grants of the starts, as a sequence of their own.
GrantsOf(q) == [i \in DOMAIN q |-> q[i].grants]

LEMMA GrantsOfAppend ==
  ASSUME NEW T, NEW q \in Seq(T), NEW e \in T,
         \A t \in T : t.grants \in SUBSET Approvals
  PROVE  GrantsOf(Append(q, e)) = Append(GrantsOf(q), e.grants)
<1> DEFINE u == GrantsOf(q)
           n == Len(q)
<1>1. n \in Nat /\ DOMAIN q = 1..n /\ \A i \in 1..n : q[i] \in T
  BY LenProperties, ElementOfSeq
<1>2. u \in [1..n -> SUBSET Approvals]
  BY <1>1 DEF GrantsOf
<1>3. u \in Seq(SUBSET Approvals) /\ Len(u) = n
  BY <1>1, <1>2
<1>4. Append(u, e.grants) = [i \in 1..(n + 1) |-> IF i = n + 1 THEN e.grants ELSE u[i]]
  BY <1>1, <1>3
<1> DEFINE w == Append(q, e)
<1>5. w \in Seq(T) /\ Len(w) = n + 1 /\ w[n + 1] = e /\ \A i \in 1..n : w[i] = q[i]
  BY AppendProperties
<1>6. \A i \in 1..(n + 1) : i # n + 1 => i \in 1..n
  BY <1>1
<1>7. \A i \in 1..n : u[i] = q[i].grants
  BY <1>1 DEF GrantsOf
<1>9. DOMAIN w = 1..(n + 1)
  BY <1>5, LenProperties
<1>8. \A i \in 1..(n + 1) : w[i].grants = IF i = n + 1 THEN e.grants ELSE u[i]
  BY <1>5, <1>6, <1>7, Zenon
<1> HIDE DEF w, u
<1>10. GrantsOf(w) = Append(u, e.grants)
  BY <1>4, <1>8, <1>9 DEF GrantsOf
<1> QED BY <1>10 DEF w, u

LEMMA CheckedInit == JobInit => Checked!CheckedInit
  BY DEF JobInit, Init, Checked!CheckedInit, NoApproval, Withdrawn

LEMMA CheckedStep ==
  ASSUME JobTypeOK, Busy, JobInv, [JobNext]_allVars
  PROVE  [Checked!CheckedNext]_(Checked!checkedVars)
<1> DEFINE given == {a \in Approvals : approval[a].status # "NONE"}
           revoked == {a \in Approvals : approval[a].status \in Withdrawn}
           uses == GrantsOf(starts)
           spent == UNION {uses[i] : i \in DOMAIN uses}
           Picked == {a \in Approvals : /\ approval[a].status = "APPROVED"
                                        /\ approval'[a].status \in Withdrawn}
<1> USE DEF JobTypeOK, Withdrawn
<1>1. \A a \in spent : a \in Approvals /\ approval[a].status = "CONSUMED"
  <2>1. \A i \in DOMAIN uses : i \in DOMAIN starts /\ uses[i] = starts[i].grants
    BY DEF GrantsOf
  <2>2. \A i \in DOMAIN starts : /\ starts[i].grants \in SUBSET Approvals
                                /\ Spent(approval, starts[i].grants)
    BY StartElement DEF JobInv, StartsVouched
  <2> QED BY <2>1, <2>2 DEF Spent
<1>2. spent = Checked!Used
  BY DEF Checked!Used, GrantsOf
<1> HIDE DEF spent
<1>3. CASE ServiceStep
  <2>1. uses' = uses /\ \A a \in Approvals : Persists(a)
    BY <1>3, JobApprovalsPersist DEF ServiceStep
  <2>2. CASE NoneGiven
    <3>1. given' = given /\ revoked' = revoked \cup Picked
      BY <2>1, <2>2 DEF Persists, NoneGiven
    <3>2. Picked \in SUBSET (given \ spent)
      BY <1>1
    <3> QED BY <1>2, <2>1, <3>1, <3>2 DEF Checked!CheckedNext, Checked!Revoke, GrantsOf
  <2>3. ASSUME NEW h \in Handlers, NEW a \in Approvals, Given(a, h)
        PROVE  Checked!CheckedNext
    <3>1. a \in Approvals \ given /\ given' = given \cup {a} /\ revoked' = revoked
      BY <2>3 DEF Given
    <3> QED BY <2>1, <3>1 DEF Checked!CheckedNext, Checked!Give, GrantsOf
  <2> QED BY <1>3, <2>2, <2>3, GivenOneByOne DEF ServiceStep
<1>4. ASSUME NEW h \in Handlers, JobStep(h), approval' = approval, starts' = starts
      PROVE  UNCHANGED Checked!checkedVars
  BY <1>4 DEF Checked!checkedVars
<1>5. ASSUME NEW h \in Handlers, jreq[h].op \in {"start", "transition"}, Start(jreq[h])
      PROVE  Checked!CheckedNext
  <2> DEFINE grants == jreq[h].grants
  <2>1. grants \in SUBSET Approvals /\ jreq[h].cs \in Changesets
    BY <1>5 DEF JobRequests, Busy
  <2>2. grants \in SUBSET (given \ (revoked \cup spent))
    BY <1>1, <1>5, <2>1 DEF Start, Unspent
  <2>3. given' = given /\ revoked' = revoked
    BY <1>5 DEF Start, Unspent, TypeOK, ApprovalRows
  <2>4. uses' = Append(uses, grants)
    <3> DEFINE T == [cs: Changesets, grants: SUBSET Approvals]
               e == [cs |-> jreq[h].cs, grants |-> grants]
    <3>1. starts' = Append(starts, e) /\ e \in T /\ e.grants = grants
      BY <1>5, <2>1 DEF Start
    <3>2. \A t \in T : t.grants \in SUBSET Approvals
      OBVIOUS
    <3> HIDE DEF e, T
    <3>3. GrantsOf(Append(starts, e)) = Append(GrantsOf(starts), e.grants)
      BY <3>1, <3>2, GrantsOfAppend DEF T
    <3> QED BY <3>1, <3>3
  <2> QED BY <1>2, <2>2, <2>3, <2>4 DEF Checked!CheckedNext, Checked!Use, GrantsOf
<1> QED BY <1>3, <1>4, <1>5, StepCases, JobStepFrame

(* Behind every interleaving of the job handlers with the ChangeSet        *)
(* service, a start uses approvals that nobody withdrew and nothing spent.  *)
THEOREM JobsKeepCheckedPromise == JobSpec => KeepsCheckedPromise
<1>1. JobTypeOK /\ Busy /\ JobInv /\ [JobNext]_allVars
        => [Checked!CheckedNext]_(Checked!checkedVars)
  BY CheckedStep
<1> QED BY <1>1, CheckedInit, JobTypesHold, JobInvHolds, PTL
        DEF JobSpec, KeepsCheckedPromise, Checked!CheckedSpec

-----------------------------------------------------------------------------
(* Outcomes have a start                                                   *)

\* A broker call for c; an unused ticket has None for its ChangeSet.
Called(table, c) == \E t \in Tickets : table[t].cs = c
Started(q, c) == \E i \in DOMAIN q : q[i].cs = c

Callers == {"execute", "dispatched"}
CallersCalled ==
  \A h \in Handlers :
    /\ req[h].op \in Callers => req[h].cs \in Changesets
    /\ req[h].op = "dispatched" => Called(call, req[h].cs)

\* A step that calls nobody: no request becomes one that calls or has called.
Callless ==
  /\ call' = call
  /\ \A h \in Handlers : \/ req'[h].op \notin Callers
                         \/ req'[h].op = req[h].op /\ req'[h].cs = req[h].cs

LEMMA ServeCallsNobody ==
  ASSUME TypeOK, NEW h \in Handlers, NEW r, Serve(h, r), r.op \notin Callers, call' = call
  PROVE  Callless
  BY Served DEF Callless, TypeOK

LEMMA CallKinds ==
  ASSUME TypeOK, [Next]_vars
  PROVE  \/ Callless
         \/ \E h \in Handlers, c \in Changesets : ExecuteRead(h, c)
         \/ \E h \in Handlers : ExecuteWrite(h)
<1> USE DEF TypeOK, Callers
<1>1. ASSUME NEW h \in Handlers, NEW c \in Changesets, NEW source \in Changesets \cup {None},
             NewPlan(h, c, source)
      PROVE  Callless
  <2>1. [On("create", c) EXCEPT !.gen = gen, !.snap = target, !.source = source].op = "create"
    BY DEF On, Idle
  <2> QED BY <1>1, <2>1, ServeCallsNobody DEF NewPlan
<1>2. ASSUME NEW h \in Handlers, NEW c \in Changesets,
             PreviewRead(h, c) \/ RequestRead(h, c) \/ RejectRead(h, c) \/ CancelRead(h, c)
               \/ ExpireRead(h, c) \/ LiveRead(h, c)
      PROVE  Callless
  BY <1>2, ServeCallsNobody, RequestOp DEF PreviewRead, RequestRead, RejectRead, CancelRead,
     ExpireRead, LiveRead, ReadOnly
<1>3. ASSUME NEW h \in Handlers, NEW c \in Changesets, NEW p \in People, ApproveRead(h, c, p)
      PROVE  Callless
  <2>1. [On("approve", c) EXCEPT !.who = p, !.grants = Standing(c) \ ValidGrants(c)].op = "approve"
    BY DEF On, Idle
  <2> QED BY <1>3, <2>1, ServeCallsNobody DEF ApproveRead, ReadOnly
<1>4. ASSUME NEW h \in Handlers, BumpRead(h) \/ DropRead(h)
      PROVE  Callless
  <2>1. /\ [Idle EXCEPT !.op = "bump", !.gen = gen].op = "bump"
        /\ [Idle EXCEPT !.op = "drop"].op = "drop"
    BY DEF Idle
  <2> QED BY <1>4, <2>1, ServeCallsNobody DEF BumpRead, DropRead, ReadOnly
<1>5. ASSUME NEW h \in Handlers, Finish(h), ~ExecuteWrite(h)
      PROVE  Callless
  <2>1. Answer(h) /\ call' = call
    BY <1>5 DEF Finish, InsertWrite, PreviewWrite, RequestWrite, ApproveWrite,
       RejectWrite, CancelWrite, ExpireWrite, BumpWrite, DropWrite, LiveFinish, ExecuteFinish, Settle
  <2> QED BY <2>1 DEF Callless, Answer, Idle
<1>6. ASSUME NEW h \in Handlers, Answers(h)
      PROVE  Callless
  <2>1. req'[h].op = req[h].op /\ req'[h].cs = req[h].cs /\ call' = call
    BY <1>6 DEF Answers, Reply, Requests, ReadOnly
  <2>2. \A k \in Handlers \ {h} : req'[k] = req[k]
    BY <1>6 DEF Answers, Reply
  <2> QED BY <2>1, <2>2 DEF Callless
<1>7. CASE Outside
  BY <1>7 DEF Outside, Callless, UpdateTarget, LapseChangeset, LapseApproval, Crash, Idle
<1>8. CASE UNCHANGED vars
  BY <1>8 DEF Callless, vars
<1> QED
  BY <1>1, <1>2, <1>3, <1>4, <1>5, <1>6, <1>7, <1>8
     DEF Next, Begin, Finish, CreateRead, RollbackRead

\* Calls stay on record, and a request that has called is behind one.
LEMMA CallersStep ==
  ASSUME TypeOK, CallersCalled, [Next]_vars
  PROVE  /\ \A c \in Changesets : Called(call, c) => Called(call', c)
         /\ CallersCalled'
<1> USE DEF TypeOK
<1>1. CASE Callless
  BY <1>1 DEF Callless, CallersCalled, Callers
<1>2. ASSUME NEW h \in Handlers, NEW c \in Changesets, ExecuteRead(h, c)
      PROVE  /\ \A d \in Changesets : Called(call, d) => Called(call', d)
             /\ CallersCalled'
  <2>1. PICK grants \in SUBSET Approvals :
          Serve(h, [On("execute", c) EXCEPT !.grants = grants, !.hash = preview[c].hash])
    BY <1>2 DEF ExecuteRead
  <2> DEFINE r == [On("execute", c) EXCEPT !.grants = grants, !.hash = preview[c].hash]
  <2>2. r.op = "execute" /\ r.cs = c
    BY DEF On, Idle
  <2>3. req'[h] = r /\ \A k \in Handlers \ {h} : req'[k] = req[k]
    BY <2>1, Served
  <2>4. call' = call
    BY <1>2 DEF ExecuteRead
  <2> HIDE DEF r
  <2> QED BY <2>2, <2>3, <2>4 DEF CallersCalled, Callers
<1>3. ASSUME NEW h \in Handlers, ExecuteWrite(h)
      PROVE  /\ \A d \in Changesets : Called(call, d) => Called(call', d)
             /\ CallersCalled'
  <2>1. PICK t \in Tickets :
          /\ call[t] = NoCall
          /\ call' = [call EXCEPT ![t] = [cs |-> req[h].cs, grants |-> req[h].grants,
                                         hash |-> req[h].hash]]
          /\ req' = [req EXCEPT ![h] = [On("dispatched", req[h].cs) EXCEPT !.ticket = t]]
    BY <1>3 DEF ExecuteWrite
  <2> DEFINE r == [On("dispatched", req[h].cs) EXCEPT !.ticket = t]
  <2>2. r.op = "dispatched" /\ r.cs = req[h].cs
    BY DEF On, Idle
  <2>3. req'[h] = r /\ \A k \in Handlers \ {h} : req'[k] = req[k]
    BY <2>1
  <2> HIDE DEF r
  <2>4. req[h].cs \in Changesets
    BY <1>3 DEF ExecuteWrite, CallersCalled, Callers
  <2>5. call'[t].cs = req[h].cs /\ call[t].cs = None /\ \A s \in Tickets \ {t} : call'[s] = call[s]
    BY <2>1 DEF NoCall
  <2>6. \A d \in Changesets : Called(call, d) => Called(call', d)
    BY <2>5, NoneAssumption DEF Called
  <2>7. Called(call', req[h].cs)
    BY <2>5 DEF Called
  <2>8. ASSUME NEW k \in Handlers
        PROVE  /\ req'[k].op \in Callers => req'[k].cs \in Changesets
               /\ req'[k].op = "dispatched" => Called(call', req'[k].cs)
    <3>1. CASE k = h
      BY <2>2, <2>3, <2>4, <2>7, <3>1
    <3>2. CASE k # h
      BY <2>3, <2>6, <3>2 DEF CallersCalled, Callers
    <3> QED BY <3>1, <3>2
  <2> QED BY <2>6, <2>8 DEF CallersCalled
<1> QED BY <1>1, <1>2, <1>3, CallKinds

Done == {"EXECUTING", "EXECUTED"}
Ran == {"RUNNING", "PAUSED", "SUCCEEDED"}

\* The ChangeSet service marks a row only for a call.
LEMMA ServiceDone ==
  ASSUME TypeOK, CallersCalled, [Next]_vars
  PROVE  \A c \in Changesets : state'[c] \in Done => state[c] \in Done \/ Called(call', c)
<1> USE DEF TypeOK, Done
<1>1. CASE \E h \in Handlers : Begin(h)
  BY <1>1 DEF Begin, CreateRead, RollbackRead, NewPlan, PreviewRead, RequestRead,
     ApproveRead, RejectRead, CancelRead, ExpireRead, LiveRead, ExecuteRead, BumpRead,
     DropRead, ReadOnly
<1>2. ASSUME NEW d, NEW s, SetState(d, s), s \in Done => d \in Changesets /\ Called(call', d)
      PROVE  \A c \in Changesets : state'[c] \in Done => state[c] \in Done \/ Called(call', c)
  BY <1>2 DEF SetState
<1>3. ASSUME NEW h \in Handlers, Finish(h)
      PROVE  \A c \in Changesets : state'[c] \in Done => state[c] \in Done \/ Called(call', c)
  <2>1. CASE ExecuteWrite(h)
    <3>1. req'[h].op = "dispatched" /\ req'[h].cs = req[h].cs
      <4>1. PICK t \in Tickets :
              req' = [req EXCEPT ![h] = [On("dispatched", req[h].cs) EXCEPT !.ticket = t]]
        BY <2>1 DEF ExecuteWrite
      <4>2. /\ [On("dispatched", req[h].cs) EXCEPT !.ticket = t].op = "dispatched"
            /\ [On("dispatched", req[h].cs) EXCEPT !.ticket = t].cs = req[h].cs
        BY DEF On, Idle
      <4> QED BY <4>1, <4>2
    <3>2. req[h].cs \in Changesets /\ Called(call', req[h].cs)
      BY <2>1, <3>1, CallersStep DEF CallersCalled, Callers, ExecuteWrite
    <3> QED BY <1>2, <2>1, <3>2 DEF ExecuteWrite
  <2>2. CASE ExecuteFinish(h)
    <3>1. PICK s : Settle(h, s)
      BY <2>2 DEF ExecuteFinish
    <3>2. req[h].cs \in Changesets /\ Called(call, req[h].cs) /\ call' = call
      BY <3>1 DEF Settle, CallersCalled, Callers
    <3>3. Called(call', req[h].cs)
      BY <3>2
    <3> QED BY <1>2, <3>1, <3>2, <3>3 DEF Settle
  <2>3. CASE BumpWrite(h)
    BY <2>3 DEF BumpWrite
  <2>4. CASE DropWrite(h)
    BY <2>4 DEF DropWrite
  <2>5. CASE InsertWrite(h) \/ PreviewWrite(h) \/ RequestWrite(h) \/ ApproveWrite(h)
               \/ RejectWrite(h) \/ CancelWrite(h) \/ ExpireWrite(h) \/ LiveFinish(h)
    <3>1. PICK d, s : SetState(d, s) /\ s \notin Done
      BY <2>5 DEF InsertWrite, PreviewWrite, RequestWrite, ApproveWrite, RejectWrite,
         CancelWrite, ExpireWrite, LiveFinish
    <3> QED BY <1>2, <3>1
  <2> QED BY <1>3, <2>1, <2>2, <2>3, <2>4, <2>5 DEF Finish
<1>4. CASE \E h \in Handlers : Answers(h)
  BY <1>4 DEF Answers, Reply, ReadOnly
<1>5. CASE Outside
  BY <1>5 DEF Outside, UpdateTarget, LapseChangeset, LapseApproval, Crash
<1>6. CASE UNCHANGED vars
  BY <1>6 DEF vars
<1> QED BY <1>1, <1>3, <1>4, <1>5, <1>6 DEF Next

\* A report that is being written ends a job that was started, or gives up
\* one that was not.
ReportsKnow ==
  \A h \in Handlers :
    /\ jreq[h].op = "running" => Started(starts, jreq[h].cs)
    /\ jreq[h].op = "transition" =>
         IF jreq[h].from = "READY" THEN jreq[h].to \in {"RUNNING", "FAILED"}
                                   ELSE Started(starts, jreq[h].cs)
JobsStarted == \A c \in Changesets : job[c].state \in Ran => Started(starts, c)
RowsDone == \A c \in Changesets : state[c] \in Done => Started(starts, c) \/ Called(call, c)

OutcomeInv == CallersCalled /\ ReportsKnow /\ JobsStarted /\ RowsDone

LEMMA OutcomeServiceStep ==
  ASSUME JobTypeOK, OutcomeInv, ServiceStep
  PROVE  OutcomeInv'
<1> USE DEF OutcomeInv, ServiceStep
<1>1. CallersCalled' /\ \A c \in Changesets : Called(call, c) => Called(call', c)
  BY CallersStep DEF JobTypeOK
<1>2. RowsDone'
  BY <1>1, ServiceDone DEF JobTypeOK, RowsDone
<1>3. ReportsKnow'
  BY JobRequestType DEF ReportsKnow
<1>4. JobsStarted'
  BY DEF JobsStarted
<1> QED BY <1>1, <1>2, <1>3, <1>4

LEMMA StartIsRecorded ==
  ASSUME JobTypeOK, NEW r \in JobRequests, r.cs \in Changesets, Start(r)
  PROVE  /\ Started(starts', r.cs)
         /\ \A c : Started(starts, c) => Started(starts', c)
<1> DEFINE T == [cs: Changesets, grants: SUBSET Approvals]
           new == [cs |-> r.cs, grants |-> r.grants]
<1>1. starts \in Seq(T) /\ new \in T /\ starts' = Append(starts, new)
  BY DEF JobTypeOK, JobRequests, Start
<1>2. Len(starts) \in Nat /\ DOMAIN starts = 1..Len(starts)
  BY <1>1, LenProperties
<1>3. /\ DOMAIN starts' = 1..(Len(starts) + 1)
      /\ \A i \in DOMAIN starts : i \in DOMAIN starts' /\ starts'[i] = starts[i]
      /\ starts'[Len(starts) + 1] = new
  BY <1>1, <1>2
<1>4. Len(starts) + 1 \in DOMAIN starts'
  BY <1>2, <1>3
<1> QED BY <1>3, <1>4 DEF Started

\* What a handler writes to its job and row, given what its request knows.
LEMMA OutcomeJobStep ==
  ASSUME JobTypeOK, Busy, OutcomeInv, NEW h \in Handlers, JobStep(h)
  PROVE  OutcomeInv'
<1> USE DEF JobTypeOK, OutcomeInv
<1> DEFINE Others == \A k \in Handlers \ {h} : jreq'[k] = jreq[k]
           Kept == \A c : Started(starts, c) => Started(starts', c)
           Knows(r) == /\ r.op = "running" => Started(starts', r.cs)
                       /\ r.op = "transition" =>
                            IF r.from = "READY" THEN r.to \in {"RUNNING", "FAILED"}
                                                ELSE Started(starts', r.cs)
           Jobs2 == \A c \in Changesets : job'[c].state \in Ran =>
                      job[c].state \in Ran \/ Started(starts', c)
           Rows2 == \A c \in Changesets : state'[c] \in Done =>
                      state[c] \in Done \/ Started(starts', c)
<1>1. CallersCalled' /\ call' = call
  BY JobStepFrame DEF CallersCalled
<1>2. ASSUME Others, Kept, Knows(jreq'[h]), Jobs2, Rows2
      PROVE  OutcomeInv'
  <2>1. ReportsKnow'
    <3> SUFFICES ASSUME NEW k \in Handlers PROVE Knows(jreq'[k])
      BY DEF ReportsKnow
    <3>1. CASE k = h
      BY <1>2, <3>1
    <3>2. CASE k # h
      BY <1>2, <3>2 DEF ReportsKnow
    <3> QED BY <3>1, <3>2
  <2>2. JobsStarted'
    BY <1>2 DEF JobsStarted
  <2>3. RowsDone'
    BY <1>1, <1>2 DEF RowsDone
  <2> QED BY <1>1, <2>1, <2>2, <2>3
<1>3. ASSUME NEW r, ServeJob(h, r) PROVE Others /\ jreq'[h] = r
  BY <1>3 DEF ServeJob
<1>4. ASSUME AnswerJob(h) PROVE Others /\ Knows(jreq'[h])
  BY <1>4, JobRequestType DEF AnswerJob
<1>5. ASSUME NEW c \in Changesets, NEW s, SetJob(c, s), s \in Ran => Started(starts', c)
      PROVE  Jobs2
  BY <1>5 DEF SetJob, Jobs
<1>6. ASSUME NEW c \in Changesets, NEW s, SetState(c, s), s \in Done => Started(starts', c)
      PROVE  Rows2
  BY <1>6 DEF SetState, TypeOK
<1>7. ASSUME starts' = starts PROVE Kept
  BY <1>7
<1> HIDE DEF Others, Kept, Knows, Jobs2, Rows2
<1>8. ASSUME NEW r, ServeJob(h, r), r.op \in {"plan", "authorize", "start"}, ReadOnlyJob
      PROVE  OutcomeInv'
  BY <1>2, <1>3, <1>7, <1>8 DEF ReadOnlyJob, Knows, Jobs2, Rows2
<1>9. ASSUME NEW c \in Changesets,
             PlanRead(h, c) \/ AuthorizeRead(h, c) \/ ExecuteJobRead(h, c)
      PROVE  OutcomeInv'
  <2>1. /\ [JobOn("plan", c) EXCEPT !.gen = gen, !.snap = target].op = "plan"
        /\ \A grants : [JobOn("authorize", c) EXCEPT !.grants = grants].op = "authorize"
        /\ \A grants : [JobOn("start", c) EXCEPT !.grants = grants].op = "start"
    BY DEF JobOn, NoJobRequest
  <2> QED BY <1>8, <1>9, <2>1 DEF PlanRead, AuthorizeRead, ExecuteJobRead
<1>10. CASE PlanWrite(h)
  BY <1>2, <1>4, <1>5, <1>6, <1>7, <1>10 DEF PlanWrite, Busy, Ran, Done
<1>11. CASE AuthorizeWrite(h)
  <2>1. jreq[h].cs \in Changesets
    BY <1>11 DEF AuthorizeWrite, Busy
  <2>2. Jobs2
    BY <1>11, <2>1 DEF AuthorizeWrite, Jobs2, Ran
  <2> QED BY <1>2, <1>4, <1>7, <1>11, <2>2 DEF AuthorizeWrite, Rows2
<1>12. ASSUME jreq[h].op \in {"start", "transition"}, Start(jreq[h])
       PROVE  /\ jreq[h].cs \in Changesets /\ Started(starts', jreq[h].cs)
              /\ Kept /\ Jobs2 /\ Rows2
  <2>1. jreq[h].cs \in Changesets
    BY <1>12 DEF Busy
  <2>2. Started(starts', jreq[h].cs) /\ Kept
    BY <1>12, <2>1, StartIsRecorded DEF Kept
  <2> QED BY <1>5, <1>6, <1>12, <2>1, <2>2 DEF Start
<1>13. CASE ExecuteJobWrite(h)
  <2>1. jreq'[h] = JobOn("running", jreq[h].cs) /\ Others
    BY <1>13 DEF ExecuteJobWrite, Others
  <2>2. Started(starts', jreq[h].cs) /\ jreq[h].cs \in Changesets /\ Kept /\ Jobs2 /\ Rows2
    BY <1>12, <1>13 DEF ExecuteJobWrite
  <2>3. Knows(jreq'[h])
    BY <2>1, <2>2, JobRequestType DEF Knows
  <2> QED BY <1>2, <2>1, <2>2, <2>3
<1>14. CASE TransitionStarts(h)
  BY <1>2, <1>4, <1>12, <1>14 DEF TransitionStarts
<1>15. CASE ExecuteJobRefused(h) \/ TransitionRefused(h)
  BY <1>2, <1>4, <1>7, <1>15
     DEF ExecuteJobRefused, TransitionRefused, ReadOnlyJob, Jobs2, Rows2
<1>16. ASSUME NEW s, NEW t, JobEnds(h, s, t)
       PROVE  OutcomeInv'
  <2>1. jreq[h].cs \in Changesets /\ Started(starts', jreq[h].cs)
    BY <1>16 DEF JobEnds, Busy, ReportsKnow
  <2> QED BY <1>2, <1>4, <1>5, <1>6, <1>7, <1>16, <2>1 DEF JobEnds
<1>17. CASE ResultMalformed(h)
  <2>1. jreq[h].cs \in Changesets /\ Started(starts', jreq[h].cs)
    BY <1>17 DEF ResultMalformed, Busy, ReportsKnow
  <2> QED BY <1>2, <1>4, <1>6, <1>7, <1>17, <2>1 DEF ResultMalformed, Jobs2
<1>18. ASSUME NEW c \in Changesets, NEW to \in JobStates, TransitionRead(h, c, to)
       PROVE  OutcomeInv'
  <2> DEFINE r == [JobOn("transition", c) EXCEPT
                     !.from = job[c].state, !.to = to, !.grants = job[c].grants]
  <2>1. r.op = "transition" /\ r.cs = c /\ r.from = job[c].state /\ r.to = to
    BY DEF JobOn, NoJobRequest
  <2>2. ServeJob(h, r) /\ ReadOnlyJob
    BY <1>18 DEF TransitionRead
  <2>3. to \in Allowed(job[c].state)
    BY <1>18 DEF TransitionRead
  <2>4. \/ job[c].state = "READY" /\ to \in {"RUNNING", "FAILED"}
        \/ job[c].state \in Ran
    BY <2>3 DEF Allowed, Ran
  <2>5. job[c].state \in Ran => Started(starts', c)
    BY <2>2 DEF JobsStarted, ReadOnlyJob
  <2> HIDE DEF r
  <2>6. jreq'[h] = r /\ Others
    BY <1>3, <2>2
  <2>7. Knows(r)
    BY <2>1, <2>4, <2>5 DEF Knows, Ran
  <2> QED BY <1>2, <1>7, <2>2, <2>6, <2>7 DEF ReadOnlyJob, Jobs2, Rows2
<1>19. CASE TransitionWrite(h)
  <2>1. jreq[h].cs \in Changesets
    BY <1>19 DEF TransitionWrite, Busy
  <2>2. Started(starts', jreq[h].cs) \/ jreq[h].to = "FAILED"
    BY <1>19 DEF TransitionWrite, ReportsKnow
  <2>3. Jobs2
    BY <1>5, <1>19, <2>1, <2>2 DEF TransitionWrite, Ran
  <2>4. Rows2
    BY <1>6, <1>19, <2>1, <2>2 DEF TransitionWrite, Done, SetState, Rows2
  <2> QED BY <1>2, <1>4, <1>7, <1>19, <2>3, <2>4 DEF TransitionWrite
<1> QED BY <1>9, <1>10, <1>11, <1>13, <1>14, <1>15, <1>16, <1>17, <1>18, <1>19
        DEF JobStep, JobSucceeds, JobFails

LEMMA OutcomeInit == JobInit => OutcomeInv
<1> SUFFICES ASSUME JobInit PROVE OutcomeInv
  OBVIOUS
<1>1. CallersCalled
  BY DEF JobInit, Init, CallersCalled, Callers, Idle
<1> QED BY <1>1, JobRequestType
        DEF JobInit, Init, OutcomeInv, ReportsKnow, JobsStarted, RowsDone, NoJob, Ran, Done

(* However reports, executions, authorisations and cancels race: a job     *)
(* that runs or succeeded was started, and a row that says EXECUTING or    *)
(* EXECUTED has a start or a broker call behind it.                        *)
THEOREM OutcomesHaveStarts == JobSpec => []OutcomeHasStart
<1>1. JobTypeOK /\ Busy /\ OutcomeInv /\ [JobNext]_allVars => OutcomeInv'
  BY StepCases, OutcomeServiceStep, OutcomeJobStep
<1>2. OutcomeInv => OutcomeHasStart
  <2> SUFFICES ASSUME OutcomeInv, NEW c \in Changesets
               PROVE  /\ job[c].state \in Ran => Started(starts, c)
                      /\ state[c] \in Done =>
                           Started(starts, c) \/ \E t \in Dispatched : call[t].cs = c
    BY DEF OutcomeHasStart, Started, Ran, Done
  <2>1. \A t \in Tickets : call[t].cs = c => t \in Dispatched
    BY NoneAssumption DEF Dispatched, NoCall
  <2> QED BY <2>1 DEF OutcomeInv, JobsStarted, RowsDone, Called
<1> QED BY <1>1, <1>2, OutcomeInit, JobTypesHold, PTL DEF JobSpec
=============================================================================
