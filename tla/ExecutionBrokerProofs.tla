------------------------ MODULE ExecutionBrokerProofs ------------------------
(***************************************************************************)
(* Theorems about ExecutionBroker, for every number of capabilities,       *)
(* execute requests, decision calls and slots, and with no bound on policy *)
(* changes or crashes.                                                     *)
(***************************************************************************)
EXTENDS ExecutionBroker, FiniteSetTheorems, TLAPS

-----------------------------------------------------------------------------
(* Type correctness *)

LEMMA ConstantRows ==
  /\ NoCap \in CapRows /\ NoPrep \in Preps /\ NoAsk \in AskRows
  /\ IdleCourier \in Couriers /\ NoPost \in PostStates /\ IdleReq \in ReqStates
  BY DEF CapRows, NoCap, Preps, NoPrep, AskRows, NoAsk, Decisions,
         Couriers, IdleCourier, PostStates, NoPost, ReqStates, IdleReq

LEMMA TypeInit == Init => TypeOK
<1> SUFFICES ASSUME Init
             PROVE  TypeOK
  OBVIOUS
<1>1. enabled \in BOOLEAN /\ bumping \in BOOLEAN
  BY Zenon DEF Init
<1>2. gen \in Nat \ {0} /\ free \in Nat /\ crashes \in Nat /\ runs \in [Caps -> Nat]
  BY SlotsAssumption DEF Init
<1>3. lapsed \subseteq Caps /\ closed \subseteq Caps
  BY DEF Init
<1> QED BY <1>1, <1>2, <1>3, ConstantRows DEF Init, TypeOK

\* What the handlers do to the tables keeps each a table of its rows.
LEMMA WithdrawType ==
  ASSUME cap \in [Caps -> CapRows], NEW c \in Caps, Withdraw(c)
  PROVE  cap' \in [Caps -> CapRows]
  BY DEF Withdraw, CapRows

LEMMA SendDecisionType ==
  ASSUME post \in [Posts -> PostStates], NEW c \in Caps, NEW m \in Posts, SendDecision(c, m)
  PROVE  post' \in [Posts -> PostStates] /\ courier' \in Couriers
  BY DEF SendDecision, PostStates, Couriers

LEMMA AnswerType ==
  ASSUME post \in [Posts -> PostStates], courier \in Couriers, NEW m \in Posts,
         NEW reply \in {"yes", "no"}, Answer(m, reply)
  PROVE  post' \in [Posts -> PostStates] /\ courier' \in Couriers
  BY DEF Answer, PostStates, NoPost, Couriers

LEMMA LeaveType ==
  ASSUME req \in [Requests -> ReqStates], free \in Nat, NEW r \in Requests, Leave(r)
  PROVE  req' \in [Requests -> ReqStates] /\ free' \in Nat
  BY DEF Leave, ReqStates, IdleReq

LEMMA TypeStep == TypeOK /\ [Next]_vars => TypeOK'
<1> SUFFICES ASSUME TypeOK, [Next]_vars
             PROVE  TypeOK'
  OBVIOUS
<1> USE DEF TypeOK, policyVars, approverVars, executeVars
<1>1. ASSUME NEW c \in Caps, Prepare(c)
      PROVE  TypeOK'
  <2>1. [cap[c] EXCEPT !.stored = TRUE, !.gen = gen] \in CapRows
    BY DEF CapRows
  <2>2. prep' \in [Caps -> Preps]
    BY <1>1 DEF Prepare, Preps
  <2> QED BY <1>1, <2>1, <2>2 DEF Prepare
<1>2. ASSUME NEW c \in Caps, SendRequest(c)
      PROVE  TypeOK'
  BY <1>2 DEF SendRequest, Preps
<1>3. ASSUME NEW c \in Caps, Ask(c)
      PROVE  TypeOK'
  BY <1>3 DEF Ask, AskRows
<1>4. ASSUME NEW c \in Caps, Deliver(c)
      PROVE  TypeOK'
  <2>1. PICK stage \in {"delivered", "gone"} : ask' = [ask EXCEPT ![c].stage = stage]
    BY <1>4 DEF Deliver
  <2>2. [ask[c] EXCEPT !.stage = stage] \in AskRows
    BY DEF AskRows
  <2> QED BY <1>4, <2>1, <2>2 DEF Deliver
<1>5. ASSUME NEW c \in Caps, Prepared(c)
      PROVE  TypeOK'
  BY <1>5 DEF Prepared, Preps
<1>6. ASSUME NEW c \in Caps, PrepareFails(c)
      PROVE  TypeOK'
  BY <1>6, WithdrawType DEF PrepareFails, Preps
<1>7. ASSUME NEW c \in Caps, Cancel(c)
      PROVE  TypeOK'
  BY <1>7, WithdrawType DEF Cancel
<1>8. ASSUME NEW c \in Caps, Lapse(c) \/ Close(c)
      PROVE  TypeOK'
  BY <1>8 DEF Lapse, Close
<1>9. ASSUME NEW c \in Caps, NEW m \in Posts, Resend(c, m)
      PROVE  TypeOK'
  BY <1>9, SendDecisionType DEF Resend
<1>10. ASSUME NEW c \in Caps, NEW m \in Posts, NEW decision \in Decisions, Press(c, decision, m)
       PROVE  TypeOK'
  <2>1. ask' \in [Caps -> AskRows]
    BY <1>10 DEF Press, AskRows
  <2> QED BY <1>10, <2>1, SendDecisionType DEF Press
<1>11. ASSUME NEW c \in Caps, NEW r \in Requests, ExecuteStart(r, c)
       PROVE  TypeOK'
  BY <1>11 DEF ExecuteStart, ReqStates
<1>12. ASSUME NEW m \in Posts, Lose(m)
       PROVE  TypeOK'
  BY <1>12, AnswerType DEF Lose
<1>13. ASSUME NEW m \in Posts, Receive(m)
       PROVE  TypeOK'
  <2>1. CASE post' = [post EXCEPT ![m].stage = "checked"] /\ UNCHANGED courier
    BY <1>13, <2>1 DEF Receive, PostStates
  <2>2. CASE Answer(m, "no")
    BY <1>13, <2>2, AnswerType DEF Receive
  <2> QED BY <1>13, <2>1, <2>2 DEF Receive
<1>14. ASSUME NEW m \in Posts, Accept(m)
       PROVE  TypeOK'
  <2>1. post' \in [Posts -> PostStates] /\ courier' \in Couriers
    BY <1>14, AnswerType DEF Accept
  <2>2. cap' \in [Caps -> CapRows]
    <3>1. CASE cap' = [cap EXCEPT ![post[m].cap].approved = TRUE]
      BY <3>1 DEF CapRows
    <3>2. CASE Withdraw(post[m].cap)
      BY <3>2 DEF Withdraw, CapRows
    <3> QED BY <1>14, <3>1, <3>2 DEF Accept
  <2> QED BY <1>14, <2>1, <2>2 DEF Accept
<1>15. ASSUME NEW r \in Requests, Claim(r)
       PROVE  TypeOK'
  <2>1. cap' \in [Caps -> CapRows]
    BY <1>15 DEF Claim, Withdraw, CapRows
  <2> QED BY <1>15, <2>1 DEF Claim, ReqStates
<1>16. ASSUME NEW r \in Requests, GiveUp(r) \/ Refuse(r) \/ Stop(r)
       PROVE  TypeOK'
  <2>1. Leave(r)
    BY <1>16 DEF GiveUp, Refuse, Stop
  <2> QED BY <2>1, LeaveType DEF Leave
<1>17. ASSUME NEW r \in Requests, Run(r)
       PROVE  TypeOK'
  <2>1. req' \in [Requests -> ReqStates]
    BY <1>17 DEF Run, ReqStates
  <2>2. runs' \in [Caps -> Nat]
    <3> DEFINE c == req[r].cap
    <3>1. runs' = [runs EXCEPT ![c] = @ + 1]
      BY <1>17 DEF Run
    <3> HIDE DEF c
    <3>2. CASE c \in Caps
      BY <3>1, <3>2
    <3>3. CASE c \notin Caps
      BY <3>1, <3>3
    <3> QED BY <3>2, <3>3
  <2> QED BY <1>17, <2>1, <2>2 DEF Run
<1>18. CASE StopWaiting
  BY <1>18 DEF StopWaiting, Couriers
<1>19. CASE Settle
  BY <1>19 DEF Settle, Couriers, IdleCourier, AskRows
<1>20. CASE WritePolicy \/ BumpGeneration
  <2>1. bumping' \in BOOLEAN /\ enabled' \in BOOLEAN
    BY <1>20, Zenon DEF WritePolicy, BumpGeneration, TypeOK
  <2> QED BY <1>20, <2>1 DEF WritePolicy, BumpGeneration
<1>21. CASE BrokerCrash
  <2>1. cap' \in [Caps -> CapRows]
    BY <1>21 DEF BrokerCrash, CapRows
  <2>2. prep' \in [Caps -> Preps]
    BY <1>21 DEF BrokerCrash, Preps
  <2>3. courier' \in Couriers
    BY <1>21 DEF BrokerCrash, Couriers
  <2>4. post' \in [Posts -> PostStates] /\ req' \in [Requests -> ReqStates]
    BY <1>21 DEF BrokerCrash, NoPost, PostStates, IdleReq, ReqStates
  <2> QED BY <1>21, <2>1, <2>2, <2>3, <2>4, SlotsAssumption DEF BrokerCrash
<1>22. CASE ApproverCrash
  <2>1. ask' \in [Caps -> AskRows]
    BY <1>22 DEF ApproverCrash, AskRows
  <2> QED BY <1>22, <2>1 DEF ApproverCrash, Couriers, IdleCourier
<1>23. CASE AdminCrash
  <2>1. bumping' \in BOOLEAN
    BY <1>23, Zenon DEF AdminCrash
  <2> QED BY <1>23, <2>1 DEF AdminCrash
<1>24. CASE UNCHANGED vars
  BY <1>24 DEF vars
<1> QED
  BY <1>1, <1>2, <1>3, <1>4, <1>5, <1>6, <1>7, <1>8, <1>9, <1>10, <1>11, <1>12,
     <1>13, <1>14, <1>15, <1>16, <1>17, <1>18, <1>19, <1>20, <1>21, <1>22, <1>23, <1>24
     DEF Next, CapStep, PostStep, RequestStep

(* The tables of broker and approver, the calls between them and the       *)
(* execute handlers keep their types.                                      *)
THEOREM TypeCorrect == Spec => []TypeOK
  BY TypeInit, TypeStep, PTL DEF Spec

-----------------------------------------------------------------------------
(* How the steps change what the safety theorems look at *)

\* A capability never becomes unapproved or unconsumed, and a decision stays.
LEMMA MarksStay ==
  ASSUME TypeOK, [Next]_vars, NEW c \in Caps
  PROVE  /\ cap[c].approved => cap'[c].approved
         /\ cap[c].consumed => cap'[c].consumed
         /\ ask[c].decision # "pending" => ask'[c].decision = ask[c].decision
<1> USE DEF TypeOK
<1>1. CASE UNCHANGED cap /\ UNCHANGED ask
  BY <1>1
<1>2. CASE UNCHANGED ask /\ \E d \in Caps : Prepare(d) \/ Withdraw(d)
                               \/ cap' = [cap EXCEPT ![d].approved = TRUE]
  <2>1. ASSUME NEW d \in Caps, Prepare(d)
        PROVE  cap'[c].approved = cap[c].approved /\ cap'[c].consumed = cap[c].consumed
    <3>1. cap' = [cap EXCEPT ![d] = [cap[d] EXCEPT !.stored = TRUE, !.gen = gen]]
      BY <2>1 DEF Prepare
    <3>2. cap'[c] \in {cap[c], [cap[c] EXCEPT !.stored = TRUE, !.gen = gen]}
      BY <3>1
    <3> QED BY <3>2 DEF CapRows
  <2>2. ASSUME NEW d \in Caps, Withdraw(d)
        PROVE  cap'[c].approved = cap[c].approved /\ (cap[c].consumed => cap'[c].consumed)
    BY <2>2 DEF Withdraw, CapRows
  <2>3. ASSUME NEW d \in Caps, cap' = [cap EXCEPT ![d].approved = TRUE]
        PROVE  (cap[c].approved => cap'[c].approved) /\ cap'[c].consumed = cap[c].consumed
    BY <2>3 DEF CapRows
  <2> QED BY <1>2, <2>1, <2>2, <2>3
<1>3. CASE UNCHANGED cap /\ \E d \in Caps : Ask(d) \/ Deliver(d)
  <2>1. ASSUME NEW d \in Caps, Ask(d)
        PROVE  ask[c].decision # "pending" => ask'[c].decision = ask[c].decision
    BY <2>1 DEF Ask, AskRows, NoAsk
  <2>2. ASSUME NEW d \in Caps, Deliver(d)
        PROVE  ask[c].decision # "pending" => ask'[c].decision = ask[c].decision
    BY <2>2 DEF Deliver, AskRows
  <2> QED BY <1>3, <2>1, <2>2
<1>4. CASE UNCHANGED cap /\ \E d \in Caps, m \in Posts, decision \in Decisions : Press(d, decision, m)
  BY <1>4 DEF Press, AskRows
<1>5. CASE Settle
  BY <1>5 DEF Settle, AskRows
<1>6. CASE BrokerCrash
  BY <1>6 DEF BrokerCrash, CapRows
<1>7. CASE ApproverCrash
  BY <1>7 DEF ApproverCrash, AskRows
<1>8. ASSUME NEW m \in Posts, Accept(m)
      PROVE  /\ UNCHANGED ask
             /\ \/ UNCHANGED cap
                \/ \E d \in Caps : Withdraw(d) \/ cap' = [cap EXCEPT ![d].approved = TRUE]
                \/ post[m].cap \notin Caps /\ UNCHANGED cap
  <2> DEFINE d == post[m].cap
  <2>1. UNCHANGED ask
    BY <1>8 DEF Accept
  <2>2. UNCHANGED cap \/ Withdraw(d) \/ cap' = [cap EXCEPT ![d].approved = TRUE]
    BY <1>8 DEF Accept
  <2>3. CASE d \notin Caps
    BY <2>1, <2>2, <2>3 DEF Withdraw
  <2> QED BY <2>1, <2>2, <2>3
<1>9. ASSUME NEW r \in Requests, Claim(r)
      PROVE  UNCHANGED ask /\ (UNCHANGED cap \/ \E d \in Caps : Withdraw(d))
  <2>1. UNCHANGED ask /\ Withdraw(req[r].cap)
    BY <1>9 DEF Claim, approverVars
  <2>2. CASE req[r].cap \notin Caps
    BY <2>1, <2>2 DEF Withdraw
  <2> QED BY <2>1, <2>2
<1>10. ASSUME NEW d \in Caps, PrepareFails(d) \/ Cancel(d) \/ Prepare(d)
       PROVE  UNCHANGED ask
  BY <1>10 DEF PrepareFails, Cancel, Prepare, approverVars
<1>11. ASSUME NEW d \in Caps, CapStep(d)
       PROVE  \/ UNCHANGED cap /\ UNCHANGED ask
              \/ UNCHANGED ask /\ (Prepare(d) \/ Withdraw(d))
              \/ UNCHANGED cap /\ (Ask(d) \/ Deliver(d)
                   \/ \E m \in Posts, decision \in Decisions : Press(d, decision, m))
  BY <1>10, <1>11 DEF CapStep, SendRequest, Ask, Deliver, Prepared, PrepareFails, Cancel,
     Lapse, Close, Resend, Press, ExecuteStart, approverVars
<1>12. ASSUME NEW m \in Posts, Lose(m) \/ Receive(m)
       PROVE  UNCHANGED cap /\ UNCHANGED ask
  BY <1>12 DEF Lose, Receive
<1>13. ASSUME NEW r \in Requests, GiveUp(r) \/ Refuse(r) \/ Run(r) \/ Stop(r)
       PROVE  UNCHANGED cap /\ UNCHANGED ask
  BY <1>13 DEF GiveUp, Refuse, Run, Stop, Leave, approverVars
<1>14. ASSUME StopWaiting \/ WritePolicy \/ BumpGeneration \/ AdminCrash \/ UNCHANGED vars
       PROVE  UNCHANGED cap /\ UNCHANGED ask
  BY <1>14 DEF StopWaiting, WritePolicy, BumpGeneration, AdminCrash, vars, approverVars
<1> QED
  <2>1. CASE \E d \in Caps : CapStep(d)
    BY <2>1, <1>1, <1>2, <1>3, <1>4, <1>11
  <2>2. CASE \E m \in Posts : PostStep(m)
    BY <2>2, <1>1, <1>2, <1>8, <1>12 DEF PostStep
  <2>3. CASE \E r \in Requests : RequestStep(r)
    BY <2>3, <1>1, <1>2, <1>9, <1>13 DEF RequestStep
  <2> QED BY <2>1, <2>2, <2>3, <1>1, <1>5, <1>6, <1>7, <1>14 DEF Next

\* The execute handlers and their slots change only by these steps.
LEMMA ExecuteSteps ==
  ASSUME [Next]_vars
  PROVE  \/ \E r \in Requests, c \in Caps : ExecuteStart(r, c)
         \/ \E r \in Requests : Claim(r) \/ GiveUp(r) \/ Refuse(r) \/ Run(r) \/ Stop(r)
         \/ BrokerCrash
         \/ UNCHANGED executeVars
<1> USE DEF executeVars
<1>1. ASSUME NEW c \in Caps, CapStep(c)
      PROVE  (\E r \in Requests : ExecuteStart(r, c)) \/ UNCHANGED executeVars
  BY <1>1 DEF CapStep, Prepare, SendRequest, Ask, Deliver, Prepared, PrepareFails, Cancel,
     Lapse, Close, Resend, Press
<1>2. ASSUME NEW m \in Posts, PostStep(m)
      PROVE  UNCHANGED executeVars
  BY <1>2 DEF PostStep, Lose, Receive, Accept
<1>3. ASSUME StopWaiting \/ Settle \/ WritePolicy \/ BumpGeneration \/ ApproverCrash
              \/ AdminCrash \/ UNCHANGED vars
      PROVE  UNCHANGED executeVars
  BY <1>3 DEF StopWaiting, Settle, WritePolicy, BumpGeneration, ApproverCrash, AdminCrash, vars
<1> QED BY <1>1, <1>2, <1>3 DEF Next, RequestStep

-----------------------------------------------------------------------------
(* Slots *)

Busy == {r \in Requests : req[r] # IdleReq}

LEMMA SlotsStep == TypeOK /\ SlotsConserved /\ [Next]_vars => SlotsConserved'
<1> SUFFICES ASSUME TypeOK, SlotsConserved, [Next]_vars
             PROVE  SlotsConserved'
  OBVIOUS
<1>1. /\ IsFiniteSet(Busy) /\ free + Cardinality(Busy) = Slots
      /\ Cardinality(Busy) \in Nat
  BY FinitenessAssumption, FS_Subset, FS_CardinalityType DEF Busy, SlotsConserved
<1>2. SUFFICES free' + Cardinality(Busy') = Slots
  BY DEF Busy, SlotsConserved
<1>3. req \in [Requests -> ReqStates] /\ free \in Nat
  BY DEF TypeOK
<1>4. ASSUME NEW r \in Requests, NEW c \in Caps, ExecuteStart(r, c)
      PROVE  free' + Cardinality(Busy') = Slots
  <2>1. req' = [req EXCEPT ![r] = [op |-> "waiting", cap |-> c, gen |-> gen]]
    BY <1>4 DEF ExecuteStart
  <2>2. [op |-> "waiting", cap |-> c, gen |-> gen] # IdleReq
    BY DEF IdleReq
  <2>3. Busy' = Busy \cup {r} /\ r \notin Busy
    BY <1>3, <1>4, <2>1, <2>2 DEF Busy, ExecuteStart
  <2>4. Cardinality(Busy') = Cardinality(Busy) + 1
    BY <1>1, <2>3, FS_AddElement
  <2> QED BY <1>1, <1>3, <1>4, <2>4 DEF ExecuteStart
<1>5. ASSUME NEW r \in Requests, Leave(r), req[r] # IdleReq
      PROVE  free' + Cardinality(Busy') = Slots
  <2>1. Busy' = Busy \ {r} /\ r \in Busy
    BY <1>3, <1>5 DEF Busy, Leave
  <2>2. Cardinality(Busy') = Cardinality(Busy) - 1
    BY <1>1, <2>1, FS_RemoveElement
  <2> QED BY <1>1, <1>3, <1>5, <2>2 DEF Leave
<1>6. ASSUME NEW r \in Requests, GiveUp(r) \/ Refuse(r) \/ Stop(r)
      PROVE  free' + Cardinality(Busy') = Slots
  <2>1. Leave(r) /\ req[r].op # "idle"
    BY <1>6 DEF GiveUp, Refuse, Stop
  <2>2. req[r] # IdleReq
    BY <2>1 DEF IdleReq
  <2> QED BY <2>1, <2>2, <1>5
<1>7. ASSUME NEW r \in Requests, Claim(r) \/ Run(r)
      PROVE  free' + Cardinality(Busy') = Slots
  <2>1. PICK op \in {"claimed", "running"} : req' = [req EXCEPT ![r].op = op]
    BY <1>7 DEF Claim, Run
  <2>2. req[r] # IdleReq /\ req'[r] # IdleReq
    <3>1. req[r].op # "idle"
      BY <1>7 DEF Claim, Run
    <3>2. req'[r].op # "idle"
      BY <1>3, <2>1 DEF ReqStates
    <3> QED BY <3>1, <3>2 DEF IdleReq
  <2>3. Busy' = Busy
    BY <1>3, <2>1, <2>2 DEF Busy
  <2>4. free' = free
    BY <1>7 DEF Claim, Run
  <2> QED BY <1>1, <2>3, <2>4
<1>8. CASE BrokerCrash
  <2>1. Busy' = {}
    BY <1>8 DEF BrokerCrash, Busy
  <2> QED BY <1>8, <2>1, FS_EmptySet, SlotsAssumption DEF BrokerCrash
<1>9. CASE UNCHANGED executeVars
  <2>1. Busy' = Busy /\ free' = free
    BY <1>9 DEF executeVars, Busy
  <2> QED BY <1>1, <2>1
<1> QED BY <1>4, <1>6, <1>7, <1>8, <1>9, ExecuteSteps

(* Every execution slot is free or held by exactly one request: no path    *)
(* through /execute loses one or gives it back twice.                      *)
THEOREM SlotsAreConserved == Spec => []SlotsConserved
<1>1. Init => SlotsConserved
  <2>1. Init => {r \in Requests : req[r] # IdleReq} = {}
    BY DEF Init
  <2> QED BY <2>1, FS_EmptySet, SlotsAssumption DEF Init, SlotsConserved
<1> QED BY <1>1, TypeCorrect, SlotsStep, PTL DEF Spec

-----------------------------------------------------------------------------
(* One run for one approval *)

Claimed(r) == req[r].op = "claimed"

\* A claim is exclusive, and it is made before anything runs.
OnceInv ==
  /\ \A r \in Requests : req[r].op # "idle" => req[r].cap \in Caps
  /\ \A r, s \in Requests : Claimed(r) /\ Claimed(s) /\ req[r].cap = req[s].cap => r = s
  /\ \A r \in Requests : Claimed(r) => cap[req[r].cap].consumed /\ runs[req[r].cap] = 0
  /\ \A c \in Caps : runs[c] > 0 => cap[c].consumed
  /\ RunsOnce

LEMMA OnceInit == Init => OnceInv
  BY DEF Init, OnceInv, RunsOnce, Claimed, IdleReq

LEMMA OnceStep == TypeOK /\ OnceInv /\ [Next]_vars => OnceInv'
<1> SUFFICES ASSUME TypeOK, OnceInv, [Next]_vars
             PROVE  OnceInv'
  OBVIOUS
<1>1. \A c \in Caps : cap[c].consumed => cap'[c].consumed
  BY MarksStay
<1>2. req \in [Requests -> ReqStates] /\ runs \in [Caps -> Nat] /\ cap \in [Caps -> CapRows]
  BY DEF TypeOK
<1> USE DEF OnceInv, RunsOnce, Claimed
<1>3. ASSUME NEW r \in Requests, NEW c \in Caps, ExecuteStart(r, c)
      PROVE  OnceInv'
  BY <1>1, <1>2, <1>3 DEF ExecuteStart
<1>4. ASSUME NEW r \in Requests, GiveUp(r) \/ Refuse(r) \/ Stop(r)
      PROVE  OnceInv'
  <2>1. Leave(r)
    BY <1>4 DEF GiveUp, Refuse, Stop
  <2> QED BY <1>1, <1>2, <2>1 DEF Leave, IdleReq
<1>5. ASSUME NEW r \in Requests, Claim(r)
      PROVE  OnceInv'
  <2> DEFINE d == req[r].cap
  <2>1. d \in Caps /\ ~cap[d].consumed
    BY <1>5 DEF Claim, Claimable
  <2>2. runs[d] = 0 /\ \A s \in Requests : Claimed(s) => req[s].cap # d
    BY <1>2, <2>1
  <2>3. cap'[d].consumed
    BY <1>2, <1>5, <2>1 DEF Claim, Withdraw, CapRows
  <2>4. runs' = runs /\ \A s \in Requests : /\ req'[s].cap = req[s].cap
                                            /\ s # r => req'[s] = req[s]
                                            /\ req'[s].op = "idle" <=> req[s].op = "idle"
    BY <1>2, <1>5 DEF Claim, ReqStates
  <2> QED BY <1>1, <1>2, <2>1, <2>2, <2>3, <2>4
<1>6. ASSUME NEW r \in Requests, Run(r)
      PROVE  OnceInv'
  <2> DEFINE d == req[r].cap
  <2>1. d \in Caps /\ cap[d].consumed /\ runs[d] = 0
    BY <1>6 DEF Run
  <2>2. \A s \in Requests : s # r /\ Claimed(s) => req[s].cap # d
    BY <1>6 DEF Run
  <2>3. runs' = [runs EXCEPT ![d] = 1]
    BY <1>6, <2>1 DEF Run
  <2>4. \A s \in Requests : /\ req'[s].cap = req[s].cap
                            /\ s # r => req'[s] = req[s]
                            /\ req'[s].op = "idle" <=> req[s].op = "idle"
    BY <1>2, <1>6 DEF Run, ReqStates
  <2>5. req'[r].op = "running"
    BY <1>2, <1>6 DEF Run, ReqStates
  <2> QED BY <1>1, <1>2, <2>1, <2>2, <2>3, <2>4, <2>5
<1>7. CASE BrokerCrash
  BY <1>1, <1>2, <1>7 DEF BrokerCrash, IdleReq
<1>8. CASE UNCHANGED executeVars
  BY <1>1, <1>2, <1>8 DEF executeVars
<1> QED BY <1>3, <1>4, <1>5, <1>6, <1>7, <1>8, ExecuteSteps

(* The operation of a capability is started at most once, whatever execute *)
(* requests, decisions, cancellations and crashes race.                    *)
THEOREM EachCapabilityRunsOnce == Spec => []RunsOnce
<1>1. OnceInv => RunsOnce
  BY DEF OnceInv
<1> QED BY <1>1, TypeCorrect, OnceInit, OnceStep, PTL DEF Spec

-----------------------------------------------------------------------------
(* What runs was approved *)

\* Only an accepted decision approves a capability.
LEMMA ApprovalHasDecision ==
  ASSUME TypeOK, [Next]_vars, NEW c \in Caps, ~cap[c].approved, cap'[c].approved
  PROVE  ask'[c].decision = "approved"
<1> USE DEF TypeOK
<1>1. ~UNCHANGED cap
  OBVIOUS
<1>2. ASSUME NEW d \in Caps, Prepare(d)
      PROVE  FALSE
  <2>1. cap'[c] \in {cap[c], [cap[c] EXCEPT !.stored = TRUE, !.gen = gen]}
    BY <1>2 DEF Prepare
  <2> QED BY <2>1 DEF CapRows
<1>3. ASSUME NEW d, Withdraw(d)
      PROVE  FALSE
  BY <1>3 DEF Withdraw, CapRows
<1>4. ASSUME NEW m \in Posts, Accept(m)
      PROVE  ask'[c].decision = "approved"
  <2> DEFINE d == post[m].cap
  <2>1. UNCHANGED ask /\ ask[d].decision = "approved" /\ cap' = [cap EXCEPT ![d].approved = TRUE]
    BY <1>1, <1>3, <1>4 DEF Accept
  <2>2. c = d
    BY <2>1
  <2> QED BY <2>1, <2>2
<1>5. CASE BrokerCrash
  BY <1>5 DEF BrokerCrash, CapRows
<1>6. ASSUME NEW d \in Caps, CapStep(d)
      PROVE  FALSE
  BY <1>1, <1>2, <1>3, <1>6 DEF CapStep, SendRequest, Ask, Deliver, Prepared, PrepareFails,
     Cancel, Lapse, Close, Resend, Press, ExecuteStart
<1>7. ASSUME NEW m \in Posts, Lose(m) \/ Receive(m)
      PROVE  FALSE
  BY <1>1, <1>7 DEF Lose, Receive
<1>8. ASSUME NEW r \in Requests, RequestStep(r)
      PROVE  FALSE
  BY <1>1, <1>3, <1>8 DEF RequestStep, Claim, GiveUp, Refuse, Run, Stop, Leave
<1>9. ASSUME StopWaiting \/ Settle \/ WritePolicy \/ BumpGeneration \/ ApproverCrash
              \/ AdminCrash \/ UNCHANGED vars
      PROVE  FALSE
  BY <1>1, <1>9 DEF StopWaiting, Settle, WritePolicy, BumpGeneration, ApproverCrash,
     AdminCrash, vars
<1> QED BY <1>4, <1>5, <1>6, <1>7, <1>8, <1>9 DEF Next, PostStep

\* Approval precedes the claim, the claim precedes the run.
RunOrder ==
  /\ \A c \in Caps : runs[c] > 0 => cap[c].approved
  /\ \A r \in Requests : Claimed(r) => cap[req[r].cap].approved

ApprovedInv ==
  /\ \A c \in Caps : cap[c].approved => ask[c].decision = "approved"
  /\ RunOrder

LEMMA ApprovedInit == Init => ApprovedInv
  BY DEF Init, ApprovedInv, RunOrder, Claimed, IdleReq, NoCap

LEMMA ApprovedStep == TypeOK /\ OnceInv /\ ApprovedInv /\ [Next]_vars => ApprovedInv'
<1> SUFFICES ASSUME TypeOK, OnceInv, ApprovedInv, [Next]_vars
             PROVE  ApprovedInv'
  OBVIOUS
<1>1. \A c \in Caps : cap[c].approved => cap'[c].approved
  BY MarksStay
<1>2. req \in [Requests -> ReqStates] /\ runs \in [Caps -> Nat]
  BY DEF TypeOK
<1>3. \A r \in Requests : req[r].op # "idle" => req[r].cap \in Caps
  BY DEF OnceInv
<1>4. ASSUME NEW c \in Caps, cap'[c].approved
      PROVE  ask'[c].decision = "approved"
  BY <1>4, MarksStay, ApprovalHasDecision DEF ApprovedInv
<1>5. RunOrder'
  <2> USE DEF ApprovedInv, RunOrder, Claimed
  <2>1. ASSUME NEW r \in Requests, NEW c \in Caps, ExecuteStart(r, c)
        PROVE  RunOrder'
    BY <1>1, <1>2, <1>3, <2>1 DEF ExecuteStart
  <2>2. ASSUME NEW r \in Requests, GiveUp(r) \/ Refuse(r) \/ Stop(r)
        PROVE  RunOrder'
    <3>1. Leave(r)
      BY <2>2 DEF GiveUp, Refuse, Stop
    <3> QED BY <1>1, <1>2, <1>3, <3>1 DEF Leave, IdleReq
  <2>3. ASSUME NEW r \in Requests, Claim(r)
        PROVE  RunOrder'
    <3>1. cap[req[r].cap].approved /\ req[r].cap \in Caps
      BY <1>3, <2>3 DEF Claim, Claimable
    <3>2. runs' = runs /\ \A s \in Requests : req'[s].cap = req[s].cap /\ (s # r => req'[s] = req[s])
      BY <1>2, <2>3 DEF Claim, ReqStates
    <3> QED BY <1>1, <1>2, <1>3, <3>1, <3>2
  <2>4. ASSUME NEW r \in Requests, Run(r)
        PROVE  RunOrder'
    <3>1. cap[req[r].cap].approved /\ req[r].cap \in Caps
      BY <1>3, <2>4 DEF Run
    <3>2. \A s \in Requests : req'[s].cap = req[s].cap /\ (s # r => req'[s] = req[s])
      BY <1>2, <2>4 DEF Run, ReqStates
    <3>3. \A c \in Caps : c # req[r].cap => runs'[c] = runs[c]
      BY <1>2, <2>4 DEF Run
    <3> QED BY <1>1, <1>2, <1>3, <3>1, <3>2, <3>3
  <2>5. CASE BrokerCrash
    BY <1>1, <1>2, <1>3, <2>5 DEF BrokerCrash, IdleReq
  <2>6. CASE UNCHANGED executeVars
    BY <1>1, <1>2, <1>3, <2>6 DEF executeVars
  <2> QED BY <2>1, <2>2, <2>3, <2>4, <2>5, <2>6, ExecuteSteps
<1> QED BY <1>4, <1>5 DEF ApprovedInv

(* An operation that was started is one its user approved, and did not     *)
(* deny by a second press.                                                 *)
THEOREM OnlyApprovedRuns == Spec => []RunsOnlyApproved
<1>1. ApprovedInv => RunsOnlyApproved
  BY DEF ApprovedInv, RunOrder, RunsOnlyApproved
<1> QED BY <1>1, TypeCorrect, OnceInit, OnceStep, ApprovedInit, ApprovedStep, PTL DEF Spec

-----------------------------------------------------------------------------
(* The approver and the broker agree on what was granted *)

Taken(c) ==
  /\ ask[c].decision # "pending"
  /\ ask[c].decision = "approved" => cap[c].approved
  /\ ask[c].decision = "denied" => cap[c].consumed

\* The call that the courier waits for carries the decision it wants settled.
CourierInv ==
  /\ \A m \in Posts : post[m].stage # "free" =>
       post[m].cap \in Caps /\ ask[post[m].cap].decision # "pending"
  /\ courier.stage = "waiting" =>
       courier.post \in Posts /\ post[courier.post].stage # "free"
                              /\ post[courier.post].cap = courier.cap
  /\ courier.stage = "yes" => courier.cap \in Caps /\ Taken(courier.cap)

GrantedInv == CourierInv /\ \A c \in Caps : ask[c].granted => Taken(c)

LEMMA GrantedInit == Init => GrantedInv
  BY DEF Init, GrantedInv, CourierInv, Taken, NoPost, IdleCourier, NoAsk

\* Taken for good
LEMMA TakenStays ==
  ASSUME TypeOK, [Next]_vars, NEW c \in Caps, Taken(c)
  PROVE  Taken(c)'
  BY MarksStay DEF Taken

LEMMA AnswerKeepsCourier ==
  ASSUME TypeOK, CourierInv, [Next]_vars, NEW m \in Posts, NEW reply \in {"yes", "no"},
         NEW c \in Caps, post[m].cap = c,
         Answer(m, reply), reply = "yes" => Taken(c)'
  PROVE  CourierInv'
<1> USE DEF TypeOK
<1>1. \A d \in Caps : /\ ask[d].decision # "pending" => ask'[d].decision # "pending"
                      /\ Taken(d) => Taken(d)'
  BY MarksStay, TakenStays
<1>2. post' = [post EXCEPT ![m] = NoPost]
  BY DEF Answer
<1>3. \A n \in Posts : post'[n].stage # "free" =>
        post'[n].cap \in Caps /\ ask'[post'[n].cap].decision # "pending"
  BY <1>1, <1>2 DEF CourierInv, NoPost
<1>4. CASE courier.stage = "waiting" /\ courier.post = m
  <2>1. courier' = [courier EXCEPT !.stage = reply, !.post = None]
    BY <1>4 DEF Answer
  <2>2. courier'.stage = reply /\ courier'.cap = c
    BY <1>4, <2>1 DEF CourierInv, Couriers
  <2> QED BY <1>3, <2>2 DEF CourierInv, Taken
<1>5. CASE ~(courier.stage = "waiting" /\ courier.post = m)
  <2>1. courier' = courier
    BY <1>5 DEF Answer
  <2>2. courier.stage = "waiting" => post'[courier.post] = post[courier.post]
    BY <1>2, <1>5 DEF CourierInv
  <2>3. courier.stage = "yes" => courier.cap \in Caps /\ Taken(courier.cap) /\ Taken(courier.cap)'
    BY <1>1, <2>1 DEF CourierInv, Taken
  <2> QED BY <1>3, <2>1, <2>2, <2>3 DEF CourierInv, Taken
<1> QED BY <1>4, <1>5

LEMMA SendKeepsCourier ==
  ASSUME TypeOK, CourierInv, [Next]_vars, NEW c \in Caps, NEW m \in Posts,
         SendDecision(c, m), ask'[c].decision # "pending"
  PROVE  CourierInv'
<1>1. \A d \in Caps : ask[d].decision # "pending" => ask'[d].decision # "pending"
  BY MarksStay
<1>2. post' = [post EXCEPT ![m] = [stage |-> "sent", cap |-> c]]
  BY DEF SendDecision
<1>3. courier' = [stage |-> "waiting", cap |-> c, post |-> m]
  BY DEF SendDecision
<1>4. post'[m] = [stage |-> "sent", cap |-> c] /\ \A n \in Posts : n # m => post'[n] = post[n]
  BY <1>2 DEF TypeOK
<1> QED BY <1>1, <1>3, <1>4 DEF CourierInv

LEMMA GrantedStep == TypeOK /\ GrantedInv /\ [Next]_vars => GrantedInv'
<1> SUFFICES ASSUME TypeOK, GrantedInv, [Next]_vars
             PROVE  GrantedInv'
  OBVIOUS
<1> USE DEF GrantedInv
<1>1. \A c \in Caps : /\ ask[c].decision # "pending" => ask'[c].decision # "pending"
                      /\ Taken(c) => Taken(c)'
  BY MarksStay, TakenStays
<1>2. ask \in [Caps -> AskRows]
  BY DEF TypeOK
<1>3. SUFFICES CourierInv' /\ \A c \in Caps : ask'[c].granted => ask[c].granted \/ Taken(c)'
  BY <1>1
<1>4. ASSUME UNCHANGED <<courier, post>>
      PROVE  CourierInv'
  <2>1. courier.stage = "yes" => courier.cap \in Caps /\ Taken(courier.cap)'
    BY <1>1, <1>4 DEF CourierInv, Taken
  <2> QED BY <1>1, <1>4, <2>1 DEF CourierInv
<1>5. ASSUME NEW c \in Caps, CapStep(c)
      PROVE  CourierInv' /\ \A d \in Caps : ask'[d].granted => ask[d].granted
  <2>1. CASE \/ Prepare(c) \/ SendRequest(c) \/ Prepared(c) \/ PrepareFails(c) \/ Cancel(c)
             \/ Lapse(c) \/ Close(c) \/ \E r \in Requests : ExecuteStart(r, c)
    <3>1. UNCHANGED <<ask, courier, post>>
      BY <2>1 DEF Prepare, SendRequest, Prepared, PrepareFails, Cancel, Lapse, Close,
         ExecuteStart, approverVars
    <3> QED BY <3>1, <1>4
  <2>2. CASE Ask(c) \/ Deliver(c)
    <3>1. UNCHANGED <<courier, post>>
      BY <2>2 DEF Ask, Deliver
    <3>2. \A d \in Caps : ask'[d].granted = ask[d].granted
      <4>1. CASE Ask(c)
        <5>1. ask' = [ask EXCEPT ![c] = [ask[c] EXCEPT !.stage = "sending", !.gen = prep[c].gen]]
          BY <4>1 DEF Ask
        <5> QED BY <1>2, <5>1 DEF AskRows
      <4>2. CASE Deliver(c)
        BY <1>2, <4>2 DEF Deliver, AskRows
      <4> QED BY <2>2, <4>1, <4>2
    <3> QED BY <3>1, <3>2, <1>4
  <2>3. ASSUME NEW m \in Posts, Resend(c, m)
        PROVE  CourierInv' /\ UNCHANGED ask
    BY <1>1, <2>3, SendKeepsCourier DEF Resend
  <2>4. ASSUME NEW m \in Posts, NEW decision \in Decisions, Press(c, decision, m)
        PROVE  CourierInv' /\ \A d \in Caps : ask'[d].granted = ask[d].granted
    <3>1. ask' = [ask EXCEPT ![c].decision = decision] /\ SendDecision(c, m)
      BY <2>4 DEF Press
    <3>2. ask'[c].decision = decision /\ \A d \in Caps : ask'[d].granted = ask[d].granted
      BY <1>2, <3>1 DEF AskRows
    <3> QED BY <3>1, <3>2, SendKeepsCourier DEF Decisions
  <2> QED BY <1>5, <2>1, <2>2, <2>3, <2>4 DEF CapStep
<1>6. ASSUME NEW m \in Posts, PostStep(m)
      PROVE  CourierInv' /\ UNCHANGED ask
  <2> DEFINE c == post[m].cap
  <2>1. UNCHANGED ask /\ post[m].stage # "free" /\ c \in Caps
    BY <1>6 DEF PostStep, Lose, Receive, Accept, CourierInv
  <2>2. CASE Answer(m, "no")
    BY <2>1, <2>2, AnswerKeepsCourier
  <2>3. CASE post' = [post EXCEPT ![m].stage = "checked"] /\ UNCHANGED courier
    <3>1. \A n \in Posts : post'[n].cap = post[n].cap /\ (n # m => post'[n] = post[n])
      BY <2>3 DEF TypeOK, PostStates
    <3>2. courier.stage = "waiting" => post'[courier.post].stage # "free"
      BY <2>3 DEF TypeOK, PostStates, CourierInv
    <3>3. courier.stage = "yes" => courier.cap \in Caps /\ Taken(courier.cap)'
      BY <1>1, <2>3 DEF CourierInv, Taken
    <3> QED BY <1>1, <2>1, <2>3, <3>1, <3>2, <3>3 DEF CourierInv
  <2>4. CASE Accept(m) /\ Open(c) /\ Answer(m, "yes")
    <3>1. ask[c].decision # "pending"
      BY <2>1 DEF CourierInv
    <3>2. \/ ask[c].decision = "approved" /\ cap' = [cap EXCEPT ![c].approved = TRUE]
          \/ ask[c].decision = "denied" /\ cap' = [cap EXCEPT ![c].consumed = TRUE]
      BY <2>4 DEF Accept, Withdraw
    <3>3. \/ ask'[c].decision = "approved" /\ cap'[c].approved
          \/ ask'[c].decision = "denied" /\ cap'[c].consumed
      BY <2>1, <3>2 DEF TypeOK, CapRows
    <3>4. \A d \in Caps : d = c => Taken(d)'
      BY <3>3 DEF Taken
    <3> HIDE DEF c
    <3>5. PICK d \in Caps : d = c
      BY <2>1
    <3> QED BY <2>1, <2>4, <3>4, <3>5, AnswerKeepsCourier DEF c
  <2> QED BY <1>6, <2>1, <2>2, <2>3, <2>4 DEF PostStep, Lose, Receive, Accept
<1>7. ASSUME NEW r \in Requests, RequestStep(r)
      PROVE  UNCHANGED <<ask, courier, post>>
  BY <1>7 DEF RequestStep, Claim, GiveUp, Refuse, Run, Stop, Leave, approverVars
<1>8. CASE StopWaiting
  <2>1. UNCHANGED <<ask, cap, post>> /\ courier'.stage = "no"
    BY <1>8 DEF StopWaiting, TypeOK, Couriers
  <2> QED BY <1>1, <2>1 DEF CourierInv
<1>9. CASE Settle
  <2>1. UNCHANGED <<cap, post>> /\ courier'.stage = "idle"
    BY <1>9 DEF Settle, IdleCourier
  <2>2. \A c \in Caps : ask'[c].granted => ask[c].granted \/ Taken(c)
    BY <1>2, <1>9 DEF Settle, CourierInv, AskRows
  <2> QED BY <1>1, <2>1, <2>2 DEF CourierInv
<1>10. CASE BrokerCrash
  <2>1. UNCHANGED ask /\ post' = [m \in Posts |-> NoPost] /\ courier'.stage # "waiting"
    BY <1>10 DEF BrokerCrash, TypeOK, Couriers
  <2>2. courier'.stage = "yes" => courier' = courier
    BY <1>10 DEF BrokerCrash, TypeOK, Couriers
  <2>3. courier'.stage = "yes" => courier'.cap \in Caps /\ Taken(courier.cap) /\ Taken(courier'.cap)
    BY <2>2 DEF CourierInv
  <2>4. \A c \in Caps : courier'.stage = "yes" /\ courier'.cap = c => Taken(c)'
    BY <1>1, <2>3
  <2>5. courier'.stage = "yes" => courier'.cap \in Caps /\ Taken(courier.cap)'
    BY <2>3, <2>4 DEF Taken
  <2> QED BY <2>1, <2>5 DEF CourierInv, NoPost
<1>11. CASE ApproverCrash
  <2>1. UNCHANGED post /\ courier'.stage = "idle"
    BY <1>11 DEF ApproverCrash, IdleCourier
  <2>2. \A c \in Caps : ask'[c].granted = ask[c].granted
    BY <1>2, <1>11 DEF ApproverCrash, AskRows
  <2> QED BY <1>1, <2>1, <2>2 DEF CourierInv
<1>12. ASSUME WritePolicy \/ BumpGeneration \/ AdminCrash \/ UNCHANGED vars
       PROVE  UNCHANGED <<ask, courier, post>>
  BY <1>12 DEF WritePolicy, BumpGeneration, AdminCrash, vars, approverVars
<1> QED BY <1>4, <1>5, <1>6, <1>7, <1>8, <1>9, <1>10, <1>11, <1>12 DEF Next

(* The approver stops delivering a decision only once the broker has it,   *)
(* for all losses, late answers and restarts.                              *)
THEOREM GrantedIsTaken == Spec => []GrantedMeansTaken
<1>1. GrantedInv => GrantedMeansTaken
  BY DEF GrantedInv, GrantedMeansTaken, Taken
<1> QED BY <1>1, TypeCorrect, GrantedInit, GrantedStep, PTL DEF Spec
=============================================================================
