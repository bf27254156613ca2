----------------------------- MODULE AgentTasks -----------------------------
(***************************************************************************)
(* Remote agents and their tasks in the Control Plane.  An enrolment token *)
(* buys one identity; an agent proves each message fresh with a nonce; an  *)
(* administrator issues it tasks for a ChangeSet, and the agent claims a   *)
(* task, carries it out and reports.                                       *)
(*                                                                         *)
(* Every handler is a plain `def`, in a thread and with a connection of    *)
(* its own.  Its SELECTs each see the last commit; its write transaction   *)
(* begins at its first INSERT or UPDATE.  What is written therefore rests  *)
(* on rows that another handler may have changed since, and most UPDATEs   *)
(* name the row by its id alone.                                           *)
(*                                                                         *)
(* ChangeSets come and go by themselves here (see module ChangeSets).  An  *)
(* enrolment token that has expired is only ever refused, and refusing is  *)
(* always possible, so its clock is not kept; a task's is.                 *)
(***************************************************************************)
EXTENDS Naturals, FiniteSets

CONSTANTS
  Handlers,    \* requests under way together
  Tokens,      \* enrolment tokens that can be made
  Agents,      \* identifiers agt_... that can be handed out
  Names,       \* names of agents
  Tasks,       \* identifiers tsk_... that can be handed out
  ChangeSets,
  Nonces,      \* nonces an agent may choose; it may choose one again
  None,        \* no such thing
  MaxGen       \* bound: policy generations

ASSUME NoneAssumption ==
  None \notin Agents \cup Tokens \cup Tasks \cup Names \cup ChangeSets \cup Nonces
ASSUME BoundsAssumption == MaxGen \in Nat \ {0}

VARIABLES
  gen,       \* policy generation
  planned,   \* generation each ChangeSet is of, 0 when there is none
  ready,     \* ChangeSets in the state that lets a task be issued and claimed
  token,     \* rows of agent_enrollment_tokens
  agent,     \* rows of agents
  nonces,    \* rows of agent_nonces: those each agent has used
  task,      \* rows of agent_tasks
  overdue,   \* tasks whose expires_at has passed
  req,       \* the request each handler is serving
  enrolled,  \* agents that got their identity with each token
  served,    \* how many requests of an agent went through on each nonce
  claims     \* how often each task was handed out as claimed

changesets == <<gen, planned, ready>>
identities == <<token, agent>>
history == <<enrolled, served, claims>>
vars == <<changesets, identities, nonces, task, overdue, req, history>>

-----------------------------------------------------------------------------
TokenRows == [status: {"none", "ISSUED", "USED"}, name: Names \cup {None}]
\* skill: whether it has advertised the capability that the tasks ask for.
Skills == {"able", "unable"}
AgentRows == [status: {"none", "ACTIVE", "REVOKED"}, name: Names \cup {None}, skill: Skills]
TaskStates == {"none", "ISSUED", "CLAIMED", "EXPIRED", "STALE_POLICY", "INVALIDATED",
               "SUCCEEDED", "FAILED"}
TaskRows == [state: TaskStates, agent: Agents \cup {None}, cs: ChangeSets \cup {None},
             gen: 0 .. MaxGen]

\* What a handler is about to write, fixed by what it has read: for agent a,
\* of a token or a task, with a name, a ChangeSet or a nonce.
Ops == {"idle", "token", "enrol", "beat", "issue", "next", "claim", "result"}
Requests == [op: Ops, a: Agents \cup {None}, of: Tokens \cup Tasks \cup {None},
             with: Names \cup ChangeSets \cup Nonces \cup {None},
             say: TaskStates \cup Skills]
Request(op, a, of, with, say) ==
  [op |-> op, a |-> a, of |-> of, with |-> with, say |-> say]
Idle == Request("idle", None, None, None, "none")

Accept(h, r) == req[h] = Idle /\ req' = [req EXCEPT ![h] = r]
\* The handler answers, whether it has written anything or not.
Answer(h) == req' = [req EXCEPT ![h] = Idle]

Active(a) == agent[a].status = "ACTIVE"
NameTaken(name) == \E a \in Agents : agent[a].status # "none" /\ agent[a].name = name

Init ==
  /\ gen = 1 /\ planned = [c \in ChangeSets |-> 0] /\ ready = {}
  /\ token = [k \in Tokens |-> [status |-> "none", name |-> None]]
  /\ agent = [a \in Agents |-> [status |-> "none", name |-> None, skill |-> "unable"]]
  /\ nonces = [a \in Agents |-> {}]
  /\ task = [t \in Tasks |-> [state |-> "none", agent |-> None, cs |-> None, gen |-> 0]]
  /\ overdue = {}
  /\ req = [h \in Handlers |-> Idle]
  /\ enrolled = [k \in Tokens |-> {}]
  /\ served = [a \in Agents |-> [n \in Nonces |-> 0]]
  /\ claims = [t \in Tasks |-> 0]

-----------------------------------------------------------------------------
(* Around the agents: ChangeSets, the policy, the clock.                   *)

Plan(c) ==
  /\ planned[c] = 0
  /\ planned' = [planned EXCEPT ![c] = gen]
  /\ UNCHANGED <<gen, ready, identities, nonces, task, overdue, req, history>>

\* A handler of the ChangeSet service moves it into the state that is asked
\* for, or out of it.
Settle(c) ==
  /\ planned[c] > 0
  /\ ready' = IF c \in ready THEN ready \ {c} ELSE ready \cup {c}
  /\ UNCHANGED <<gen, planned, identities, nonces, task, overdue, req, history>>

BumpPolicy ==
  /\ gen < MaxGen
  /\ gen' = gen + 1
  /\ ready' = {c \in ready : planned[c] = gen + 1}
  /\ UNCHANGED <<planned, identities, nonces, task, overdue, req, history>>

Elapse(t) ==
  /\ task[t].state # "none" /\ t \notin overdue
  /\ overdue' = overdue \cup {t}
  /\ UNCHANGED <<changesets, identities, nonces, task, req, history>>

-----------------------------------------------------------------------------
(* Identities.                                                             *)

\* create_agent_enrollment_token.
CreateTokenRead(h) ==
  \E k \in Tokens, name \in Names :
    /\ ~NameTaken(name)
    /\ Accept(h, Request("token", None, k, name, "none"))
    /\ UNCHANGED <<changesets, identities, nonces, task, overdue, history>>

CreateTokenWrite(h) ==
  /\ req[h].op = "token"
  /\ token' = IF token[req[h].of].status = "none"
              THEN [token EXCEPT ![req[h].of] = [status |-> "ISSUED", name |-> req[h].with]]
              ELSE token
  /\ Answer(h)
  /\ UNCHANGED <<changesets, agent, nonces, task, overdue, history>>

\* enroll_agent.
EnrolRead(h) ==
  \E k \in Tokens, a \in Agents, skill \in Skills :
    /\ token[k].status = "ISSUED" /\ ~NameTaken(token[k].name)
    /\ agent[a].status = "none"
    /\ Accept(h, Request("enrol", a, k, token[k].name, skill))
    /\ UNCHANGED <<changesets, identities, nonces, task, overdue, history>>

\* agents.name TEXT NOT NULL UNIQUE, besides the primary key.
\* Fault: the column is not UNIQUE, and the SELECT is all there is.
FreeIdOnly(a, name) == agent[a].status = "none"
InsertAllowed(a, name) == agent[a].status = "none" /\ ~NameTaken(name)

\* The INSERT of a name that is taken fails, and nothing is committed.  The
\* row count of the token's UPDATE is not looked at.
EnrolWrite(h) ==
  LET r == req[h]
  IN
  /\ r.op = "enrol"
  /\ IF InsertAllowed(r.a, r.with)
     THEN /\ agent' = [agent EXCEPT ![r.a] =
                         [status |-> "ACTIVE", name |-> r.with, skill |-> r.say]]
          /\ token' = [token EXCEPT ![r.of].status = IF @ = "ISSUED" THEN "USED" ELSE @]
          /\ enrolled' = [enrolled EXCEPT ![r.of] = @ \cup {r.a}]
     ELSE UNCHANGED <<identities, enrolled>>
  /\ Answer(h)
  /\ UNCHANGED <<changesets, nonces, task, overdue, served, claims>>

\* revoke_agent: its SELECT only asks that there is such a row.
Revoke(a) ==
  /\ agent[a].status # "none"
  /\ agent' = [agent EXCEPT ![a].status = "REVOKED"]
  /\ UNCHANGED <<changesets, token, nonces, task, overdue, req, history>>

\* agent_nonces PRIMARY KEY (agent_id, nonce); the INSERT is the first write of
\* heartbeat and claim, and its failure ends the request.
\* Fault: a nonce that is taken is replaced (INSERT OR REPLACE).
AnyNonce(a, n) == TRUE
Fresh(a, n) == n \notin nonces[a]

\* Capabilities a heartbeat does not mention stay as the handler read them.
\* Fault: they become null.
AdvertisedAsSent(skill, read) == skill
Advertised(skill, read) == IF skill = None THEN read ELSE skill

BeatRead(h) ==
  \E a \in Agents, n \in Nonces, skill \in Skills \cup {None} :
    /\ Active(a)
    /\ Accept(h, Request("beat", a, None, n, Advertised(skill, agent[a].skill)))
    /\ UNCHANGED <<changesets, identities, nonces, task, overdue, history>>

Spend(a, n) ==
  /\ nonces' = [nonces EXCEPT ![a] = @ \cup {n}]
  /\ served' = [served EXCEPT ![a][n] = @ + 1]

BeatWrite(h) ==
  LET r == req[h]
  IN
  /\ r.op = "beat"
  /\ IF Fresh(r.a, r.with)
     THEN Spend(r.a, r.with) /\ agent' = [agent EXCEPT ![r.a].skill = r.say]
     ELSE UNCHANGED <<nonces, served, agent>>
  /\ Answer(h)
  /\ UNCHANGED <<changesets, token, task, overdue, enrolled, claims>>

-----------------------------------------------------------------------------
(* Tasks.                                                                  *)

\* issue_agent_task; several tasks may be issued for one ChangeSet.
IssueRead(h) ==
  \E t \in Tasks, a \in Agents, c \in ChangeSets :
    /\ Active(a) /\ agent[a].skill = "able"
    /\ planned[c] = gen /\ c \in ready
    /\ Accept(h, Request("issue", a, t, c, "none"))
    /\ UNCHANGED <<changesets, identities, nonces, task, overdue, history>>

IssueWrite(h) ==
  LET r == req[h]
  IN
  /\ r.op = "issue"
  /\ task' = IF task[r.of].state = "none"
             THEN [task EXCEPT ![r.of] = [state |-> "ISSUED", agent |-> r.a, cs |-> r.with,
                                         gen |-> planned[r.with]]]
             ELSE task
  /\ Answer(h)
  /\ UNCHANGED <<changesets, identities, nonces, overdue, history>>

\* next_agent_task expires what is late before it looks for a task to offer.
NextRead(h) ==
  \E a \in Agents :
    /\ Active(a)
    /\ Accept(h, Request("next", a, None, None, "none"))
    /\ UNCHANGED <<changesets, identities, nonces, task, overdue, history>>

NextWrite(h) ==
  /\ req[h].op = "next"
  /\ task' = [t \in Tasks |->
                IF task[t].agent = req[h].a /\ task[t].state = "ISSUED" /\ t \in overdue
                THEN [task[t] EXCEPT !.state = "EXPIRED"] ELSE task[t]]
  /\ Answer(h)
  /\ UNCHANGED <<changesets, identities, nonces, overdue, history>>

\* The state claim_agent_task will write.  The request's clock was read first:
\* a task that has just become overdue may still pass.
Verdicts(t) ==
  (IF t \in overdue THEN {"EXPIRED"} ELSE {}) \cup
  {IF task[t].gen # gen THEN "STALE_POLICY"
   ELSE IF task[t].cs \notin ready THEN "INVALIDATED" ELSE "CLAIMED"}

ClaimRead(h) ==
  \E t \in Tasks, a \in Agents, n \in Nonces : \E verdict \in Verdicts(t) :
    /\ Active(a)
    /\ task[t].agent = a /\ task[t].state = "ISSUED"
    /\ Accept(h, Request("claim", a, t, n, verdict))
    /\ UNCHANGED <<changesets, identities, nonces, task, overdue, history>>

\* UPDATE ... WHERE id=? AND state='ISSUED', and its row count is looked at.
\* Fault: WHERE id=?
ClaimableById(t) == TRUE
Claimable(t) == task[t].state = "ISSUED"

\* A claim that changes no row is rolled back, its nonce with it.
ClaimWrite(h) ==
  LET r == req[h]
  IN
  /\ r.op = "claim" /\ r.say = "CLAIMED"
  /\ IF Fresh(r.a, r.with) /\ Claimable(r.of)
     THEN /\ Spend(r.a, r.with)
          /\ task' = [task EXCEPT ![r.of].state = "CLAIMED"]
          /\ claims' = [claims EXCEPT ![r.of] = @ + 1]
     ELSE UNCHANGED <<nonces, served, task, claims>>
  /\ Answer(h)
  /\ UNCHANGED <<changesets, identities, overdue, enrolled>>

\* The refusals are written by id: over a claim, or even a result, that another
\* request of the agent has written since.
RefuseWrite(h) ==
  /\ req[h].op = "claim" /\ req[h].say # "CLAIMED"
  /\ task' = [task EXCEPT ![req[h].of].state = req[h].say]
  /\ Answer(h)
  /\ UNCHANGED <<changesets, identities, nonces, overdue, history>>

\* complete_agent_task.
ResultRead(h) ==
  \E t \in Tasks, a \in Agents, status \in {"SUCCEEDED", "FAILED"} :
    /\ Active(a)
    /\ task[t].agent = a /\ task[t].state = "CLAIMED"
    /\ Accept(h, Request("result", a, t, None, status))
    /\ UNCHANGED <<changesets, identities, nonces, task, overdue, history>>

ResultWrite(h) ==
  /\ req[h].op = "result"
  /\ task' = [task EXCEPT ![req[h].of].state = req[h].say]
  /\ Answer(h)
  /\ UNCHANGED <<changesets, identities, nonces, overdue, history>>

-----------------------------------------------------------------------------
Environment ==
  \/ \E c \in ChangeSets : Plan(c) \/ Settle(c)
  \/ BumpPolicy
  \/ \E t \in Tasks : Elapse(t)

Identity(h) ==
  \/ CreateTokenRead(h) \/ CreateTokenWrite(h)
  \/ EnrolRead(h) \/ EnrolWrite(h)
  \/ BeatRead(h) \/ BeatWrite(h)

Work(h) ==
  \/ IssueRead(h) \/ IssueWrite(h)
  \/ NextRead(h) \/ NextWrite(h)
  \/ ClaimRead(h) \/ ClaimWrite(h) \/ RefuseWrite(h)
  \/ ResultRead(h) \/ ResultWrite(h)

Next ==
  \/ Environment
  \/ \E a \in Agents : Revoke(a)
  \/ \E h \in Handlers : Identity(h) \/ Work(h)

Spec == Init /\ [][Next]_vars

-----------------------------------------------------------------------------
\* The rows and the requests under way are what the handlers take them to be.
TypeOK ==
  /\ gen \in 1 .. MaxGen
  /\ planned \in [ChangeSets -> 0 .. MaxGen]
  /\ ready \subseteq ChangeSets
  /\ token \in [Tokens -> TokenRows]
  /\ agent \in [Agents -> AgentRows]
  /\ nonces \in [Agents -> SUBSET Nonces]
  /\ task \in [Tasks -> TaskRows]
  /\ overdue \subseteq Tasks
  /\ req \in [Handlers -> Requests]
  /\ enrolled \in [Tokens -> SUBSET Agents]
  /\ served \in [Agents -> [Nonces -> Nat]]
  /\ claims \in [Tasks -> Nat]

\* A one-time token buys one identity.  enroll_agent checks the token before
\* its transaction and does not look at the row count of the UPDATE that uses
\* it up, so two requests with one token can both get past the check: it is
\* the UNIQUE name of an agent that lets only one of them in, and an agent
\* enrolled with a token is an agent of the token's name.
TokenEnrolsOnce ==
  /\ \A k \in Tokens : Cardinality(enrolled[k]) <= 1
  /\ \A k \in Tokens : enrolled[k] # {} => token[k].status = "USED"
  /\ \A k, l \in Tokens :
       enrolled[k] # {} /\ enrolled[l] # {} /\ token[k].name = token[l].name => k = l

\* However many requests of an agent overlap or are repeated, a task is handed
\* out as claimed once, a task that is on offer has not been handed out, one
\* with a result has, and a nonce lets one heartbeat or claim through; a nonce
\* of a claim that came too late is rolled back and may be used again.
TaskClaimedOnce ==
  /\ \A t \in Tasks :
       /\ claims[t] <= 1
       /\ task[t].state \in {"none", "ISSUED"} => claims[t] = 0
       /\ task[t].state \in {"CLAIMED", "SUCCEEDED", "FAILED"} => claims[t] = 1
  /\ \A a \in Agents, n \in Nonces : served[a][n] = IF n \in nonces[a] THEN 1 ELSE 0
=============================================================================
