-------------------------- MODULE AgentTasksProofs --------------------------
(***************************************************************************)
(* Proofs about AgentTasks, for any tokens, agents, tasks and handlers.    *)
(*                                                                         *)
(* The argument: a request under way names rows that exist, and names of   *)
(* rows never change (RequestsFit).  An agent enrolled with a token has    *)
(* the token's name (EnrolledFit) and no two agents have one name          *)
(* (NamesDiffer), so a token has one agent.  A result under way is for a   *)
(* task that was handed out, and no handler ever writes a task back to     *)
(* ISSUED (RequestsFit again), so a task is handed out once.               *)
(***************************************************************************)
EXTENDS AgentTasks, FiniteSetTheorems, TLAPS

Fits(r) ==
  /\ r.op \in {"token", "enrol"} =>
       r.of \in Tokens /\ r.with \in Names
  /\ r.op = "enrol" =>
       /\ r.a \in Agents /\ r.say \in Skills
       /\ token[r.of].status # "none" /\ token[r.of].name = r.with
  /\ r.op = "beat" => r.a \in Agents /\ r.with \in Nonces /\ r.say \in Skills
  /\ r.op = "issue" => r.of \in Tasks /\ r.a \in Agents /\ r.with \in ChangeSets
  /\ r.op = "claim" =>
       /\ r.of \in Tasks /\ r.a \in Agents /\ r.with \in Nonces
       /\ r.say \in {"CLAIMED", "EXPIRED", "STALE_POLICY", "INVALIDATED"}
  /\ r.op = "result" =>
       r.of \in Tasks /\ r.say \in {"SUCCEEDED", "FAILED"} /\ claims[r.of] = 1

RequestsFit == \A h \in Handlers : Fits(req[h])

TokensNamed == \A k \in Tokens : token[k].status # "none" => token[k].name \in Names

NamesDiffer ==
  \A a, b \in Agents :
    agent[a].status # "none" /\ agent[b].status # "none" /\ agent[a].name = agent[b].name
      => a = b

EnrolledFit ==
  /\ \A k \in Tokens : \A a \in enrolled[k] :
       /\ agent[a].status # "none" /\ agent[a].name = token[k].name
       /\ token[k].status = "USED"
  /\ \A k, l \in Tokens : \A a \in enrolled[k] \cap enrolled[l] : k = l

IInv ==
  /\ TypeOK
  /\ RequestsFit /\ TokensNamed
  /\ NamesDiffer /\ EnrolledFit
  /\ TaskClaimedOnce

USE NoneAssumption, BoundsAssumption

LEMMA AtMostOne ==
  ASSUME NEW S, \A a, b \in S : a = b
  PROVE  Cardinality(S) <= 1
<1>1. CASE S = {}
  BY <1>1, FS_EmptySet
<1>2. ASSUME NEW a \in S PROVE Cardinality(S) <= 1
  <2>1. S = {a}
    BY <1>2
  <2> QED BY <2>1, FS_Singleton
<1> QED BY <1>1, <1>2

\* A task's state is overwritten, the rest of its row stays.
LEMMA StateWritten ==
  ASSUME TypeOK, NEW t \in Tasks, NEW s \in TaskStates,
         task' = [task EXCEPT ![t].state = s]
  PROVE  /\ task' \in [Tasks -> TaskRows] /\ task'[t].state = s
         /\ \A u \in Tasks : u # t => task'[u] = task[u]
<1>1. [task[t] EXCEPT !.state = s] = [state |-> s, agent |-> task[t].agent,
                                      cs |-> task[t].cs, gen |-> task[t].gen]
  BY DEF TypeOK, TaskRows
<1>2. /\ task[t].agent \in Agents \cup {None} /\ task[t].gen \in 0 .. MaxGen
      /\ task[t].cs \in ChangeSets \cup {None}
  BY DEF TypeOK, TaskRows
<1>3. [task[t] EXCEPT !.state = s] \in TaskRows /\ [task[t] EXCEPT !.state = s].state = s
  BY <1>1, <1>2 DEF TaskRows
<1>4. task' = [task EXCEPT ![t] = [task[t] EXCEPT !.state = s]]
  OBVIOUS
<1> QED BY <1>3, <1>4 DEF TypeOK

LEMMA SkillWritten ==
  ASSUME TypeOK, NEW a \in Agents, NEW s \in Skills
  PROVE  [agent[a] EXCEPT !.skill = s] =
           [status |-> agent[a].status, name |-> agent[a].name, skill |-> s]
  BY DEF TypeOK, AgentRows

\* A fresh nonce lets its first request through.
LEMMA SpendKeeps ==
  ASSUME TypeOK, TaskClaimedOnce, NEW a \in Agents, NEW n \in Nonces,
         Fresh(a, n), Spend(a, n)
  PROVE  /\ nonces' \in [Agents -> SUBSET Nonces] /\ served' \in [Agents -> [Nonces -> Nat]]
         /\ \A b \in Agents, m \in Nonces : served'[b][m] = IF m \in nonces'[b] THEN 1 ELSE 0
<1>1. served[a][n] = 0
  BY DEF TaskClaimedOnce, Fresh
<1>2. served' = [served EXCEPT ![a] = [served[a] EXCEPT ![n] = served[a][n] + 1]]
  BY DEF Spend, TypeOK
<1>3. nonces' = [nonces EXCEPT ![a] = nonces[a] \cup {n}]
  BY DEF Spend
<1>4. [served[a] EXCEPT ![n] = served[a][n] + 1] \in [Nonces -> Nat]
  BY DEF TypeOK
<1>5. /\ nonces' \in [Agents -> SUBSET Nonces] /\ served' \in [Agents -> [Nonces -> Nat]]
  BY <1>2, <1>3, <1>4 DEF TypeOK
<1>6. \A m \in Nonces : served'[a][m] = IF m \in nonces'[a] THEN 1 ELSE 0
  BY <1>1, <1>2, <1>3 DEF TypeOK, TaskClaimedOnce
<1>7. \A b \in Agents : b # a => served'[b] = served[b] /\ nonces'[b] = nonces[b]
  BY <1>2, <1>3 DEF TypeOK
<1> QED BY <1>5, <1>6, <1>7 DEF TaskClaimedOnce

LEMMA EnvironmentKeeps ==
  ASSUME IInv, Environment
  PROVE  IInv'
<1>1. UNCHANGED <<token, agent, nonces, task, req, enrolled, served, claims>>
  BY DEF Environment, Plan, Settle, BumpPolicy, Elapse, identities, history
<1>2. /\ gen' \in 1 .. MaxGen /\ planned' \in [ChangeSets -> 0 .. MaxGen]
      /\ ready' \subseteq ChangeSets /\ overdue' \subseteq Tasks
  BY DEF IInv, TypeOK, Environment, Plan, Settle, BumpPolicy, Elapse, changesets
<1>3. TypeOK'
  BY <1>1, <1>2 DEF IInv, TypeOK
<1>4. RequestsFit' /\ TokensNamed' /\ NamesDiffer' /\ EnrolledFit' /\ TaskClaimedOnce'
  BY <1>1 DEF IInv, RequestsFit, Fits, TokensNamed, NamesDiffer, EnrolledFit,
     TaskClaimedOnce
<1> QED BY <1>3, <1>4 DEF IInv

LEMMA RevokeKeeps ==
  ASSUME IInv, NEW a \in Agents, Revoke(a)
  PROVE  IInv'
<1>0. [agent[a] EXCEPT !.status = "REVOKED"] =
        [status |-> "REVOKED", name |-> agent[a].name, skill |-> agent[a].skill]
  BY DEF IInv, TypeOK, AgentRows
<1>1. agent' = [agent EXCEPT ![a] = [status |-> "REVOKED", name |-> agent[a].name,
                                     skill |-> agent[a].skill]]
  BY <1>0 DEF Revoke
<1>2. agent[a].name \in Names \cup {None} /\ agent[a].skill \in Skills
  BY DEF IInv, TypeOK, AgentRows
<1>3. agent' \in [Agents -> AgentRows]
  BY <1>1, <1>2 DEF IInv, TypeOK, AgentRows
<1>4. \A b \in Agents : /\ agent'[b].name = agent[b].name
                        /\ agent'[b].status # "none" <=> agent[b].status # "none"
  BY <1>1 DEF IInv, TypeOK, AgentRows, Revoke
<1>5. TypeOK'
  BY <1>3 DEF IInv, TypeOK, Revoke, changesets, history
<1>6. RequestsFit' /\ TokensNamed' /\ TaskClaimedOnce'
  BY DEF IInv, RequestsFit, Fits, TokensNamed, TaskClaimedOnce, Revoke, changesets,
     history
<1>7. NamesDiffer' /\ EnrolledFit'
  BY <1>4 DEF IInv, TypeOK, NamesDiffer, EnrolledFit, Revoke, history
<1> QED BY <1>5, <1>6, <1>7 DEF IInv

\* A handler that has read, and will write what fits, has changed nothing else.
LEMMA AcceptKeeps ==
  ASSUME IInv, NEW h \in Handlers, NEW r \in Requests, Fits(r), Accept(h, r),
         UNCHANGED <<changesets, identities, nonces, task, overdue, history>>
  PROVE  IInv'
<1>1. TypeOK'
  BY DEF IInv, TypeOK, Accept, changesets, identities, history
<1>2. RequestsFit'
  BY DEF IInv, TypeOK, RequestsFit, Fits, Accept, identities, history
<1>3. TokensNamed' /\ NamesDiffer' /\ EnrolledFit' /\ TaskClaimedOnce'
  BY DEF IInv, TokensNamed, NamesDiffer, EnrolledFit, TaskClaimedOnce, identities,
     history
<1> QED BY <1>1, <1>2, <1>3 DEF IInv

LEMMA CreateTokenReadKeeps ==
  ASSUME IInv, NEW h \in Handlers, CreateTokenRead(h)
  PROVE  IInv'
<1>1. ASSUME NEW k \in Tokens, NEW name \in Names
      PROVE  LET r == Request("token", None, k, name, "none")
             IN  r \in Requests /\ Fits(r)
  BY <1>1 DEF IInv, TypeOK, Fits, Request, Requests, Ops, Skills, TaskStates
<1> QED BY <1>1, AcceptKeeps DEF CreateTokenRead

LEMMA CreateTokenWriteKeeps ==
  ASSUME IInv, NEW h \in Handlers, CreateTokenWrite(h)
  PROVE  IInv'
<1>1. TypeOK'
  BY DEF IInv, TypeOK, RequestsFit, Fits, CreateTokenWrite, Answer, changesets,
     history, Requests, Request, Idle, Ops, Skills, TaskStates, TokenRows
<1>2. RequestsFit'
  BY DEF IInv, TypeOK, RequestsFit, Fits, CreateTokenWrite, Answer, history,
     Request, Idle
<1>3. TokensNamed'
  BY DEF IInv, TypeOK, RequestsFit, Fits, TokensNamed, CreateTokenWrite
<1>4. NamesDiffer' /\ EnrolledFit'
  BY DEF IInv, TypeOK, RequestsFit, Fits, NamesDiffer, EnrolledFit,
     CreateTokenWrite, history
<1>5. TaskClaimedOnce'
  BY DEF IInv, TypeOK, RequestsFit, Fits, TaskClaimedOnce, CreateTokenWrite, history
<1> QED BY <1>1, <1>2, <1>3, <1>4, <1>5 DEF IInv

LEMMA EnrolReadKeeps ==
  ASSUME IInv, NEW h \in Handlers, EnrolRead(h)
  PROVE  IInv'
<1>1. ASSUME NEW k \in Tokens, NEW a \in Agents, NEW skill \in Skills,
             token[k].status = "ISSUED"
      PROVE  LET r == Request("enrol", a, k, token[k].name, skill)
             IN  r \in Requests /\ Fits(r)
  BY <1>1 DEF IInv, TypeOK, Fits, Request, Requests, Ops, Skills, TaskStates,
     TokenRows, TokensNamed
<1> QED BY <1>1, AcceptKeeps DEF EnrolRead

LEMMA EnrolWriteKeeps ==
  ASSUME IInv, NEW h \in Handlers, EnrolWrite(h)
  PROVE  IInv'
<1> DEFINE r == req[h]
<1>1. /\ r \in Requests /\ r.op = "enrol"
      /\ r.of \in Tokens /\ r.a \in Agents /\ r.say \in Skills /\ r.with \in Names
      /\ token[r.of].status # "none" /\ token[r.of].name = r.with
  BY DEF IInv, TypeOK, RequestsFit, Fits, EnrolWrite
<1>2. req' = [req EXCEPT ![h] = Idle]
  BY DEF EnrolWrite, Answer
<1>3. UNCHANGED <<gen, planned, ready, nonces, task, overdue, served, claims>>
  BY DEF EnrolWrite, changesets
<1>4. req' \in [Handlers -> Requests] /\ TaskClaimedOnce'
  BY <1>2, <1>3 DEF IInv, TypeOK, TaskClaimedOnce, Idle, Request, Requests, Ops,
     TaskStates
<1>5. CASE ~InsertAllowed(r.a, r.with)
  <2>1. UNCHANGED <<token, agent, enrolled>>
    BY <1>5 DEF EnrolWrite, identities
  <2>2. TypeOK'
    BY <1>3, <1>4, <2>1 DEF IInv, TypeOK
  <2>3. RequestsFit'
    BY <1>2, <1>3, <2>1 DEF IInv, TypeOK, RequestsFit, Fits, Idle, Request
  <2>4. TokensNamed' /\ NamesDiffer' /\ EnrolledFit'
    BY <2>1 DEF IInv, TokensNamed, NamesDiffer, EnrolledFit
  <2> QED BY <1>4, <2>2, <2>3, <2>4 DEF IInv
<1>6. CASE InsertAllowed(r.a, r.with)
  <2> DEFINE status == IF token[r.of].status = "ISSUED" THEN "USED" ELSE token[r.of].status
  <2>1. agent' = [agent EXCEPT ![r.a] = [status |-> "ACTIVE", name |-> r.with,
                                         skill |-> r.say]]
    BY <1>6 DEF EnrolWrite
  <2>2. token' = [token EXCEPT ![r.of] = [status |-> status, name |-> token[r.of].name]]
    BY <1>1, <1>6 DEF IInv, TypeOK, EnrolWrite, TokenRows
  <2>3. status = "USED"
    BY <1>1 DEF IInv, TypeOK, TokenRows
  <2>4. enrolled' = [enrolled EXCEPT ![r.of] = @ \cup {r.a}]
    BY <1>6 DEF EnrolWrite
  <2>5. agent' \in [Agents -> AgentRows] /\ token' \in [Tokens -> TokenRows]
    BY <1>1, <2>1, <2>2, <2>3 DEF IInv, TypeOK, AgentRows, TokenRows
  <2>6. TypeOK'
    BY <1>1, <1>3, <1>4, <2>4, <2>5 DEF IInv, TypeOK
  <2>7. \A k \in Tokens : /\ token'[k].name = token[k].name
                          /\ token[k].status # "none" => token'[k].status # "none"
                          /\ token[k].status = "USED" => token'[k].status = "USED"
                          /\ token'[k].status # "none" => token[k].status # "none"
    BY <1>1, <2>2, <2>3 DEF IInv, TypeOK, TokenRows
  <2>8. RequestsFit'
    BY <1>2, <1>3, <2>7 DEF IInv, TypeOK, RequestsFit, Fits, Idle, Request
  <2>9. TokensNamed'
    BY <2>7 DEF IInv, TokensNamed
  <2>10. agent[r.a].status = "none" /\ \A b \in Agents :
           agent[b].status # "none" => agent[b].name # r.with
    BY <1>6 DEF InsertAllowed, NameTaken
  <2>11. NamesDiffer'
    BY <1>1, <2>1, <2>10 DEF IInv, TypeOK, NamesDiffer
  <2>12. \A k \in Tokens : r.a \notin enrolled[k] /\ enrolled[k] \subseteq Agents
    BY <2>10 DEF IInv, TypeOK, EnrolledFit
  <2>13. token'[r.of].status = "USED" /\ token[r.of].name = r.with
    BY <1>1, <2>2, <2>3 DEF IInv, TypeOK
  <2>14. \A b \in Agents : b # r.a => agent'[b] = agent[b]
    BY <2>1 DEF IInv, TypeOK
  <2>15. agent'[r.a].status = "ACTIVE" /\ agent'[r.a].name = r.with
    BY <1>1, <2>1 DEF IInv, TypeOK
  <2>16. EnrolledFit'
    BY <1>1, <2>4, <2>7, <2>12, <2>13, <2>14, <2>15 DEF IInv, TypeOK, EnrolledFit
  <2> QED BY <1>4, <2>6, <2>8, <2>9, <2>11, <2>16 DEF IInv
<1> QED BY <1>5, <1>6

LEMMA BeatReadKeeps ==
  ASSUME IInv, NEW h \in Handlers, BeatRead(h)
  PROVE  IInv'
<1>1. ASSUME NEW a \in Agents, NEW n \in Nonces, NEW skill \in Skills \cup {None}
      PROVE  LET r == Request("beat", a, None, n, Advertised(skill, agent[a].skill))
             IN  r \in Requests /\ Fits(r)
  BY <1>1 DEF IInv, TypeOK, Fits, Request, Requests, Ops, Skills, TaskStates,
     AgentRows, Advertised
<1> QED BY <1>1, AcceptKeeps DEF BeatRead

LEMMA BeatWriteKeeps ==
  ASSUME IInv, NEW h \in Handlers, BeatWrite(h)
  PROVE  IInv'
<1> DEFINE r == req[h]
<1>1. /\ r.op = "beat" /\ r.a \in Agents /\ r.with \in Nonces /\ r.say \in Skills
      /\ req' = [req EXCEPT ![h] = Idle]
      /\ UNCHANGED <<gen, planned, ready, token, task, overdue, enrolled, claims>>
  BY DEF IInv, TypeOK, RequestsFit, Fits, BeatWrite, Answer, changesets
<1>2. req' \in [Handlers -> Requests]
  BY <1>1 DEF IInv, TypeOK, Idle, Request, Requests, Ops, TaskStates
<1>3. RequestsFit' /\ TokensNamed'
  BY <1>1 DEF IInv, TypeOK, RequestsFit, Fits, TokensNamed, Idle, Request
<1>4. CASE ~Fresh(r.a, r.with)
  <2>1. UNCHANGED <<nonces, served, agent>>
    BY <1>4 DEF BeatWrite
  <2> QED
    BY <1>1, <1>2, <1>3, <2>1 DEF IInv, TypeOK, NamesDiffer, EnrolledFit,
       TaskClaimedOnce
<1>5. CASE Fresh(r.a, r.with)
  <2>1. Spend(r.a, r.with) /\ agent' = [agent EXCEPT ![r.a].skill = r.say]
    BY <1>5 DEF BeatWrite
  <2>0. [agent[r.a] EXCEPT !.skill = r.say] =
          [status |-> agent[r.a].status, name |-> agent[r.a].name, skill |-> r.say]
    BY <1>1, SkillWritten DEF IInv
  <2>2. agent' = [agent EXCEPT ![r.a] = [status |-> agent[r.a].status,
                                         name |-> agent[r.a].name, skill |-> r.say]]
    BY <2>0, <2>1
  <2>3. /\ agent' \in [Agents -> AgentRows]
        /\ \A b \in Agents : /\ agent'[b].name = agent[b].name
                              /\ agent'[b].status = agent[b].status
    BY <1>1, <2>2 DEF IInv, TypeOK, AgentRows
  <2>4. /\ nonces' \in [Agents -> SUBSET Nonces] /\ served' \in [Agents -> [Nonces -> Nat]]
        /\ \A a \in Agents, n \in Nonces : served'[a][n] = IF n \in nonces'[a] THEN 1 ELSE 0
    BY <1>1, <1>5, <2>1, SpendKeeps DEF IInv
  <2>5. TypeOK'
    BY <1>1, <1>2, <2>3, <2>4 DEF IInv, TypeOK
  <2>6. NamesDiffer'
    BY <2>3 DEF IInv, NamesDiffer
  <2>8. EnrolledFit'
    <3>1. \A k \in Tokens : \A a \in enrolled[k] : a \in Agents
      BY DEF IInv, TypeOK
    <3> QED BY <1>1, <2>3, <3>1 DEF IInv, EnrolledFit
  <2>7. TaskClaimedOnce'
    BY <1>1, <2>4 DEF IInv, TaskClaimedOnce
  <2> QED BY <1>3, <2>5, <2>6, <2>7, <2>8 DEF IInv
<1> QED BY <1>4, <1>5

LEMMA IssueReadKeeps ==
  ASSUME IInv, NEW h \in Handlers, IssueRead(h)
  PROVE  IInv'
<1>1. ASSUME NEW t \in Tasks, NEW a \in Agents, NEW c \in ChangeSets
      PROVE  LET r == Request("issue", a, t, c, "none")
             IN  r \in Requests /\ Fits(r)
  BY <1>1 DEF IInv, TypeOK, Fits, Request, Requests, Ops, Skills, TaskStates
<1> QED BY <1>1, AcceptKeeps DEF IssueRead

LEMMA IssueWriteKeeps ==
  ASSUME IInv, NEW h \in Handlers, IssueWrite(h)
  PROVE  IInv'
<1>1. TypeOK'
  BY DEF IInv, TypeOK, RequestsFit, Fits, IssueWrite, Answer, changesets,
     identities, history, Requests, Request, Idle, Ops, Skills, TaskStates, TaskRows
<1>2. RequestsFit'
  BY DEF IInv, TypeOK, RequestsFit, Fits, IssueWrite, Answer, identities, history,
     Request, Idle
<1>3. TokensNamed'
  BY DEF IInv, TypeOK, RequestsFit, Fits, TokensNamed, IssueWrite, identities
<1>4. NamesDiffer' /\ EnrolledFit'
  BY DEF IInv, TypeOK, RequestsFit, Fits, NamesDiffer, EnrolledFit, IssueWrite,
     identities, history
<1>5. TaskClaimedOnce'
  BY DEF IInv, TypeOK, RequestsFit, Fits, TaskClaimedOnce, IssueWrite, history
<1> QED BY <1>1, <1>2, <1>3, <1>4, <1>5 DEF IInv

LEMMA NextReadKeeps ==
  ASSUME IInv, NEW h \in Handlers, NextRead(h)
  PROVE  IInv'
<1>1. ASSUME NEW a \in Agents
      PROVE  LET r == Request("next", a, None, None, "none")
             IN  r \in Requests /\ Fits(r)
  BY <1>1 DEF IInv, TypeOK, Fits, Request, Requests, Ops, Skills, TaskStates
<1> QED BY <1>1, AcceptKeeps DEF NextRead

LEMMA NextWriteKeeps ==
  ASSUME IInv, NEW h \in Handlers, NextWrite(h)
  PROVE  IInv'
<1>1. ASSUME NEW t \in Tasks
      PROVE  \/ task'[t] = task[t]
             \/ task[t].state = "ISSUED" /\ task'[t] = [task[t] EXCEPT !.state = "EXPIRED"]
  BY DEF IInv, TypeOK, NextWrite
<1>2. \A t \in Tasks : /\ task[t].agent \in Agents \cup {None} /\ task[t].gen \in 0 .. MaxGen
                       /\ task[t].cs \in ChangeSets \cup {None} /\ task[t] \in TaskRows
  BY DEF IInv, TypeOK, TaskRows
<1>3. ASSUME NEW t \in Tasks PROVE task'[t] \in TaskRows
  <2>1. CASE task'[t] = task[t]
    BY <1>2, <2>1
  <2>2. [task[t] EXCEPT !.state = "EXPIRED"] \in TaskRows
    BY <1>2 DEF TaskRows, TaskStates
  <2> QED BY <1>1, <2>1, <2>2
<1>4. task' = [t \in Tasks |-> task'[t]]
  BY DEF NextWrite
<1>5. task' \in [Tasks -> TaskRows]
  BY <1>3, <1>4
<1>6. /\ req' = [req EXCEPT ![h] = Idle]
      /\ UNCHANGED <<gen, planned, ready, token, agent, nonces, overdue, enrolled, served, claims>>
  BY DEF NextWrite, Answer, changesets, identities, history
<1>7. TypeOK'
  BY <1>5, <1>6 DEF IInv, TypeOK, Idle, Request, Requests, Ops, TaskStates
<1>8. RequestsFit'
  BY <1>6 DEF IInv, TypeOK, RequestsFit, Fits, Idle, Request
<1>9. TokensNamed' /\ NamesDiffer' /\ EnrolledFit'
  BY <1>6 DEF IInv, TokensNamed, NamesDiffer, EnrolledFit
<1>10. TaskClaimedOnce'
  <2>1. \A t \in Tasks : \/ task'[t].state = task[t].state
                         \/ task[t].state = "ISSUED" /\ task'[t].state = "EXPIRED"
    BY <1>1, <1>2 DEF TaskRows
  <2> QED BY <1>6, <2>1 DEF IInv, TaskClaimedOnce
<1> QED BY <1>7, <1>8, <1>9, <1>10 DEF IInv

LEMMA ClaimReadKeeps ==
  ASSUME IInv, NEW h \in Handlers, ClaimRead(h)
  PROVE  IInv'
<1>1. ASSUME NEW t \in Tasks, NEW a \in Agents, NEW n \in Nonces, NEW verdict \in
             Verdicts(t)
      PROVE  LET r == Request("claim", a, t, n, verdict)
             IN  r \in Requests /\ Fits(r)
  BY <1>1 DEF IInv, TypeOK, Fits, Request, Requests, Ops, Skills, TaskStates,
     Verdicts
<1> QED BY <1>1, AcceptKeeps DEF ClaimRead

LEMMA ClaimWriteKeeps ==
  ASSUME IInv, NEW h \in Handlers, ClaimWrite(h)
  PROVE  IInv'
<1> DEFINE r == req[h]
<1>1. /\ r.op = "claim" /\ r.of \in Tasks /\ r.a \in Agents /\ r.with \in Nonces
      /\ req' = [req EXCEPT ![h] = Idle]
      /\ UNCHANGED <<gen, planned, ready, token, agent, overdue, enrolled>>
  BY DEF IInv, TypeOK, RequestsFit, Fits, ClaimWrite, Answer, changesets, identities
<1>2. req' \in [Handlers -> Requests]
  BY <1>1 DEF IInv, TypeOK, Idle, Request, Requests, Ops, TaskStates
<1>3. TokensNamed' /\ NamesDiffer' /\ EnrolledFit'
  BY <1>1 DEF IInv, TokensNamed, NamesDiffer, EnrolledFit
<1>4. CASE ~(Fresh(r.a, r.with) /\ Claimable(r.of))
  <2>1. UNCHANGED <<nonces, served, task, claims>>
    BY <1>4 DEF ClaimWrite
  <2>2. RequestsFit'
    BY <1>1, <2>1 DEF IInv, TypeOK, RequestsFit, Fits, Idle, Request
  <2> QED BY <1>1, <1>2, <1>3, <2>1, <2>2 DEF IInv, TypeOK, TaskClaimedOnce
<1>5. CASE Fresh(r.a, r.with) /\ Claimable(r.of)
  <2>1. /\ Spend(r.a, r.with) /\ task[r.of].state = "ISSUED"
        /\ task' = [task EXCEPT ![r.of].state = "CLAIMED"]
        /\ claims' = [claims EXCEPT ![r.of] = @ + 1]
    BY <1>5 DEF ClaimWrite, Claimable
  <2>2. task' \in [Tasks -> TaskRows] /\ task'[r.of].state = "CLAIMED"
        /\ \A t \in Tasks : t # r.of => task'[t] = task[t]
    BY <1>1, <2>1, StateWritten DEF IInv, TypeOK, TaskStates
  <2>3. claims[r.of] = 0
    BY <1>1, <2>1 DEF IInv, TaskClaimedOnce
  <2>4. claims' \in [Tasks -> Nat] /\ claims'[r.of] = 1
        /\ \A t \in Tasks : t # r.of => claims'[t] = claims[t]
    BY <1>1, <2>1, <2>3 DEF IInv, TypeOK
  <2>5. /\ nonces' \in [Agents -> SUBSET Nonces] /\ served' \in [Agents -> [Nonces -> Nat]]
        /\ \A a \in Agents, n \in Nonces : served'[a][n] = IF n \in nonces'[a] THEN 1 ELSE 0
    BY <1>1, <1>5, <2>1, SpendKeeps DEF IInv
  <2>6. TypeOK'
    BY <1>1, <1>2, <2>2, <2>4, <2>5 DEF IInv, TypeOK
  <2>7. RequestsFit'
    BY <1>1, <2>3, <2>4 DEF IInv, TypeOK, RequestsFit, Fits, Idle, Request
  <2>8. TaskClaimedOnce'
    BY <2>2, <2>4, <2>5 DEF IInv, TaskClaimedOnce
  <2> QED BY <1>3, <2>6, <2>7, <2>8 DEF IInv
<1> QED BY <1>4, <1>5

LEMMA ResultReadKeeps ==
  ASSUME IInv, NEW h \in Handlers, ResultRead(h)
  PROVE  IInv'
<1>1. ASSUME NEW t \in Tasks, NEW a \in Agents, NEW status \in {"SUCCEEDED",
             "FAILED"}, task[t].state = "CLAIMED"
      PROVE  LET r == Request("result", a, t, None, status)
             IN  r \in Requests /\ Fits(r)
  BY <1>1 DEF IInv, TypeOK, Fits, Request, Requests, Ops, Skills, TaskStates,
     TaskClaimedOnce
<1> QED BY <1>1, AcceptKeeps DEF ResultRead

LEMMA ResultWriteKeeps ==
  ASSUME IInv, NEW h \in Handlers, ResultWrite(h)
  PROVE  IInv'
<1> DEFINE r == req[h]
<1>1. /\ r.op = "result" /\ r.of \in Tasks /\ r.say \in {"SUCCEEDED", "FAILED"} /\ claims[r.of] = 1
      /\ req' = [req EXCEPT ![h] = Idle]
      /\ task' = [task EXCEPT ![r.of].state = r.say]
      /\ UNCHANGED <<gen, planned, ready, token, agent, nonces, overdue, enrolled, served, claims>>
  BY DEF IInv, TypeOK, RequestsFit, Fits, ResultWrite, Answer, changesets,
     identities, history
<1>2. task' \in [Tasks -> TaskRows] /\ task'[r.of].state = r.say
      /\ \A t \in Tasks : t # r.of => task'[t] = task[t]
  BY <1>1, StateWritten DEF IInv, TypeOK, TaskStates
<1>3. TypeOK'
  BY <1>1, <1>2 DEF IInv, TypeOK, Idle, Request, Requests, Ops, TaskStates
<1>4. RequestsFit'
  BY <1>1 DEF IInv, TypeOK, RequestsFit, Fits, Idle, Request
<1>5. TokensNamed' /\ NamesDiffer' /\ EnrolledFit'
  BY <1>1 DEF IInv, TokensNamed, NamesDiffer, EnrolledFit
<1>6. TaskClaimedOnce'
  BY <1>1, <1>2 DEF IInv, TaskClaimedOnce
<1> QED BY <1>3, <1>4, <1>5, <1>6 DEF IInv

LEMMA RefuseKeeps ==
  ASSUME IInv, NEW h \in Handlers, RefuseWrite(h)
  PROVE  IInv'
<1> DEFINE r == req[h]
<1>1. /\ r.op = "claim" /\ r.of \in Tasks /\ r.say \in {"EXPIRED", "STALE_POLICY", "INVALIDATED"}
      /\ req' = [req EXCEPT ![h] = Idle]
      /\ task' = [task EXCEPT ![r.of].state = r.say]
      /\ UNCHANGED <<gen, planned, ready, token, agent, nonces, overdue, enrolled, served, claims>>
  BY DEF IInv, TypeOK, RequestsFit, Fits, RefuseWrite, Answer, changesets,
     identities, history
<1>2. task' \in [Tasks -> TaskRows] /\ task'[r.of].state = r.say
      /\ \A t \in Tasks : t # r.of => task'[t] = task[t]
  BY <1>1, StateWritten DEF IInv, TypeOK, TaskStates
<1>3. TypeOK'
  BY <1>1, <1>2 DEF IInv, TypeOK, Idle, Request, Requests, Ops, TaskStates
<1>4. RequestsFit'
  BY <1>1 DEF IInv, TypeOK, RequestsFit, Fits, Idle, Request
<1>5. TokensNamed' /\ NamesDiffer' /\ EnrolledFit'
  BY <1>1 DEF IInv, TokensNamed, NamesDiffer, EnrolledFit
<1>6. TaskClaimedOnce'
  BY <1>1, <1>2 DEF IInv, TaskClaimedOnce
<1> QED BY <1>3, <1>4, <1>5, <1>6 DEF IInv

LEMMA InitHolds == Init => IInv
<1> SUFFICES ASSUME Init PROVE IInv
  OBVIOUS
<1>1. TypeOK
  BY DEF Init, TypeOK, Requests, Request, Idle, Ops, Skills, TaskStates, TaskRows,
     AgentRows, TokenRows
<1>2. RequestsFit /\ TokensNamed /\ NamesDiffer /\ EnrolledFit
  BY DEF Init, RequestsFit, Fits, Idle, Request, TokensNamed, NamesDiffer,
     EnrolledFit
<1>3. TaskClaimedOnce
  BY DEF Init, TaskClaimedOnce
<1> QED BY <1>1, <1>2, <1>3 DEF IInv

LEMMA StutterKeeps == ASSUME IInv, UNCHANGED vars PROVE IInv'
  BY DEF IInv, TypeOK, RequestsFit, Fits, TokensNamed, NamesDiffer, EnrolledFit,
     TaskClaimedOnce, vars, changesets, identities, history

LEMMA NextKeeps == IInv /\ [Next]_vars => IInv'
<1> SUFFICES ASSUME IInv, [Next]_vars PROVE IInv'
  OBVIOUS
<1>1. CASE Environment
  BY <1>1, EnvironmentKeeps
<1>2. ASSUME NEW a \in Agents, Revoke(a) PROVE IInv'
  BY <1>2, RevokeKeeps
<1>3. ASSUME NEW h \in Handlers, Identity(h) PROVE IInv'
  BY <1>3, CreateTokenReadKeeps, CreateTokenWriteKeeps, EnrolReadKeeps,
     EnrolWriteKeeps, BeatReadKeeps, BeatWriteKeeps DEF Identity
<1>4. ASSUME NEW h \in Handlers, Work(h) PROVE IInv'
  BY <1>4, IssueReadKeeps, IssueWriteKeeps, NextReadKeeps, NextWriteKeeps,
     ClaimReadKeeps, ClaimWriteKeeps, RefuseKeeps, ResultReadKeeps, ResultWriteKeeps
     DEF Work
<1>5. CASE UNCHANGED vars
  BY <1>5, StutterKeeps
<1> QED BY <1>1, <1>2, <1>3, <1>4, <1>5 DEF Next

LEMMA Invariance == Spec => []IInv
  BY InitHolds, NextKeeps, PTL DEF Spec

(* The rows and the requests under way keep their types.                   *)
THEOREM TypeCorrect == Spec => []TypeOK
<1>1. IInv => TypeOK
  BY DEF IInv
<1> QED BY <1>1, Invariance, PTL

(* Whatever handlers overlap, a token enrols one agent: the UNIQUE name of *)
(* agents stands in for the row count that enroll_agent does not check.    *)
THEOREM OneTokenOneAgent == Spec => []TokenEnrolsOnce
<1>1. ASSUME IInv PROVE TokenEnrolsOnce
  <2>1. ASSUME NEW k \in Tokens PROVE Cardinality(enrolled[k]) <= 1
    <3>1. \A a, b \in enrolled[k] : a = b
      BY <1>1, <2>1 DEF IInv, TypeOK, NamesDiffer, EnrolledFit
    <3> QED BY <3>1, AtMostOne
  <2>2. ASSUME NEW k \in Tokens, enrolled[k] # {} PROVE token[k].status = "USED"
    BY <1>1, <2>2 DEF IInv, EnrolledFit
  <2>3. ASSUME NEW k \in Tokens, NEW l \in Tokens, enrolled[k] # {}, enrolled[l] # {},
               token[k].name = token[l].name
        PROVE  k = l
    <3>1. PICK a \in enrolled[k], b \in enrolled[l] : TRUE
      BY <2>3
    <3>2. a = b
      BY <1>1, <2>3, <3>1 DEF IInv, TypeOK, NamesDiffer, EnrolledFit
    <3> QED BY <1>1, <3>1, <3>2 DEF IInv, EnrolledFit
  <2> QED BY <2>1, <2>2, <2>3 DEF TokenEnrolsOnce
<1> QED BY <1>1, Invariance, PTL

(* Whatever requests an agent repeats or overlaps, a task is handed out    *)
(* once and a nonce lets one of them through.                              *)
THEOREM ClaimedOnce == Spec => []TaskClaimedOnce
<1>1. IInv => TaskClaimedOnce
  BY DEF IInv
<1> QED BY <1>1, Invariance, PTL
=============================================================================
