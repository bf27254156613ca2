# hermes-control-plane in TLA+

A verification project for the Hermes control plane: TLA+ models of the parts
of the system that decide whether a change may be made, TLC runs that check
them on small instances, and TLAPS proofs of the main theorems for every
instance. Paths below are relative to the repository, which is `src/` in the
`map` of `PROJECT.json`; that map gives, for every definition, the lines it
stands for.

## 1. The system

Hermes is a chat agent. Everything it does to the outside world goes through
services that keep their own state and do not trust it.

| Component (code) | State it keeps | Operations | Who it talks to |
|---|---|---|---|
| ChangeSet service (`control-plane/…/main.py`, `db.py`, `tickets.py`) | `changesets`, `approvals`, `targets`, `policy_generation` in SQLite | create, preview, preview-live, request-approval, approve, reject, cancel, execute, rollback plan, policy bump, target edit and delete | Kubernetes Broker: HTTP, 180 s |
| Kubernetes Broker (`kubernetes-broker/…/main.py`) | used tickets, in memory | preview, execute | `kubectl`, `helm`: processes with timeouts |
| Execution broker (`execution-broker/src/broker/server.py`, `store.py`) | `capabilities` in SQLite, a semaphore of slots | prepare, approval-grant, execute, cancel | approver, Docker, SSH |
| Approver (`approval.py`, `approver.py`) | `approval_requests` in SQLite | request, button presses, delivery and resend of decisions | Telegram, execution broker |
| Broker admin (`admin.py`) | policy files on a shared volume | features, users, bot token, control secret, generation | broker and approver read the files |
| Operation jobs (`main.py` 3807-4829, `operations.py`) | `operation_jobs`, plans, signed authorisations | plan, authorise, execute, transition | Kubernetes Broker, provider worker, artifact mirror; the bot reports for the rest |
| Provider jobs and provisioning (`main.py` 1804-1989, 2957-3057) | `provider_jobs`, provisioning runs | authorise, execute, transition, retry | provider worker |
| Agents and agent tasks (`main.py` 1167-1396) | enrolment tokens, agents, tasks | enrol, heartbeat, revoke, issue, claim, complete | node agents poll |
| Credential service (`credential-service/…`) | secrets and their versions | create, rotate, revoke, delete, retry-sync | Control Plane keeps a reference to each |
| Node agent (`node-agent/…`) | a spool of used tickets, fingerprints | observe, plan, check drift, apply, verify | Ansible, Proxmox |
| Smart router (`smart-router/…`) | budgets, rate limits, provider health, optionally in Redis | route a prompt, record an outcome | model providers |
| Artifact mirror (`artifact_mirror.py`, `repository_snapshot.py`) | files, repository trees and OCI tags; `artifact_mirror_items` | fetch, publish, verify, in a thread of the Control Plane | sources over HTTPS, Git, OCI; blueprints and PXE plans rest on what is mirrored |
| Cluster factory, risk classes, verification (`cluster_factory.py`, `risk.py`, `verification.py`) | none | pure functions | called by the Control Plane |
| Plugins, `hermesctl`, charts, installers | client-side tables, files | forward calls, configure | all of the above |

**What is hard in it.** The Control Plane is one process (uvicorn without
workers; the chart has one replica), but its `def` handlers run in threads and
its `async def` handlers give the event loop up at each `await`; nearly every
handler SELECTs, checks and then UPDATEs by identifier. Two services linked by
HTTP have timeouts on one side that are shorter than the work on the other.
Tickets and grants must be used once although answers are lost and processes
restart. Secrets and their references live in two databases. `PROJECT.json`
lists these places as hazards, each at its line, with the property that watches
it or the planned module that will.

**What makes each part correct.**

* ChangeSets: an approval backs one broker call; a call rests on a quorum of
  people other than the author; a decision (cancel, reject, policy change)
  takes the approvals with it; terminal states are final; a rollback plan undoes
  something that was done; an EXECUTING row is settled.
* Kubernetes Broker: a ticket is honoured once; EXECUTED means the change was
  made; the change replaces the state that was previewed; jobs end.
* Execution broker and approver: an operation runs at most once and only after
  its user approved it; a slot is never lost; a decision that was made arrives.
* Operation and provider jobs: one authorisation, one execution; no state is left
  that nobody can leave. Agent tasks: one result each; one enrolment per token.
* Credential service: the two stores agree, or a retry makes them agree.
* Artifact mirror: what is called mirrored was at its destination; publishing loses
  nothing; whoever installs from the mirror gets what was approved, in the right order.
* Node agent: a ticket runs once across restarts, and only on the state it was
  issued for. Smart router: a circuit opens after its threshold and admits one probe;
  spending stays within the budget.

## 2. Modules

| Module | Models or holds | Checked by |
|---|---|---|
| `OneTimeGrant` | abstract: approvals are given, revoked, claimed, used | refinement from `ChangeSets` |
| `ChangeSets` | the ChangeSet service | `changesets_*` |
| `ChangeSetsClaims` | one sentence of the documents that the code does not keep | `changesets_unconsumed` |
| `ChangeSetsMC` | constants and symmetry | |
| `KubernetesBroker` | `POST /v1/execute` of the broker | `governance_*` |
| `Governance`, `GovernanceMC` | Control Plane and broker composed; constants | `governance_*` |
| `ExecutionBroker`, `ExecutionBrokerMC` | broker, approver, admin files, the calls between them | `execution_delivery` |
| `CheckedGrant` | abstract: an approval is free and standing at the moment it is used | refinement from `OperationJobs` |
| `OperationJobs`, `OperationJobsMC` | operation jobs on top of the ChangeSet service | `operation_starts` |
| `Provisioning`, `ProvisioningMC` | provisioning runs, provider jobs, the cluster-provider worker of the node agent | `provisioning_runs` |
| `InfrastructureWorker`, `InfrastructureWorkerMC` | the infrastructure worker of the node agent with a BMC, a PXE controller and a switch | `infrastructure_executes` |
| `AgentTasks`, `AgentTasksMC` | enrolment of agents, their tasks and nonces | `agent_tasks` |
| `CredentialSync`, `CredentialSyncMC` | the two stores of credentials and the calls between them | `credentials_synced` |
| `SmartRouter`, `SmartRouterMC` | quota, budget, circuits and telemetry of a chat request | `router_circuits` |
| `ArtifactMirror`, `ArtifactMirrorMC` | mirror jobs, PXE plans on mirrored files, the order of a blueprint's artifacts | `artifacts_mirrored` |
| `ChangeSetsProofs` | theorems about `ChangeSets`, `Governance` and `OperationJobs` | the proof system |
| `ExecutionBrokerProofs`, `ProvisioningProofs`, `InfrastructureWorkerProofs`, `AgentTasksProofs`, `CredentialSyncProofs`, `SmartRouterProofs`, `ArtifactMirrorProofs` | theorems about the module each is named after | the proof system |

### ChangeSets

A handler is two steps. `Begin(h)` is everything up to the write transaction:
the checks are guards and what the handler will use is captured in `req[h]`.
`Finish(h)` is the write transaction, which re-checks only what its `WHERE` clauses
repeat. Python's `sqlite3` opens the transaction at the first INSERT or UPDATE,
so the SELECTs before it see states that others may change before the commit;
this is where the interesting interleavings come from. The two `async`
handlers hold the event loop (`loop`) from one `await` to the next: preview-live
gives it up while it waits for the broker, execute holds it from the SELECT of
its approvals to the commit of EXECUTING. That is why a threaded
handler, and not another execute, can act in between.

| Variable | Code |
|---|---|
| `gen` | `system_state.policy_generation` |
| `plan`, `state`, `preview` | columns of `changesets`: the immutable ones, `state`, `preview_json` |
| `approval` | table `approvals` |
| `overdue`, `approval[a].overdue` | `expires_at` has passed |
| `target` | canonical snapshot of the target and its credential |
| `call` | history of the calls dispatched to the broker, by ticket |
| `req`, `loop`, `crashes` | requests in flight, the event loop, the number of crashes |

Abstractions: canonical JSON, hashes and HMACs are compared as the values they
are computed from, so comparing immutable columns always succeeds; `_changeset`'s
expiry UPDATE and the SELECT that follows it are one step; SQLite's busy errors
(a request that fails before it writes) are not modelled; `Quorum` allows any valid
choice of approvals where the code takes the oldest of each approver. READ and LOW plans need no
approval, HIGH one, CRITICAL two.

### KubernetesBroker and Governance

`execute` is `Admit` (the ticket enters `_USED_TICKETS`), `CheckDrift`, `Apply`
and `Verify`, each a command of its own; `Restart` forgets the used tickets and
the threads; `OutsideChange` is anybody else with access to the cluster. A dispatched
ticket may be presented again while it is fresh, which covers a duplicated
call. `Governance` joins the two: `PreviewAnswer` and `ExecuteAnswer` give a waiting
handler the broker's answer. An error answer is possible at any time, since it
stands for a refusal, a failure, a lost connection and the 180 s timeout of a
client that gives up on a job of the broker that is still running.
A crash between the commit of EXECUTING and the HTTP call is a call that the broker never admits.

### ExecutionBroker

One capability goes through `/prepare` (`Prepare`, `SendRequest`, and the
answer: `Prepared` or `PrepareFails`), the approver's `/request` (`Ask`, `Deliver`),
a button (`Press`), the call to `/approval-grant` (`SendDecision`, then `Lose` or
`Receive` and `Accept` on the broker's side, `StopWaiting` and `Settle` on the
approver's), and `/execute` (`ExecuteStart`, `Claim`, `Run`, `Stop`, and the ways out).
`courier` is the approver's only poll thread; a call in `post` lives on after the
courier has stopped waiting for it, so late and duplicate deliveries are there.
The admin writes a policy file and then, in a second write, the generation.
Execute and cancel are open to whoever holds the control secret, at any time, so the
properties do not depend on how Hermes behaves. Digests, signatures, users and
sessions are immutable bindings taken as matching; the approver's user list only restricts
presses; one admin request is served at a time; a resend uses the
current row rather than the list read at the start of the round, which can
differ only in rows that expired since.
The hourly purge of expired rows is not modelled, and neither is an exception that
nothing in `_submit` catches, except where `BrokerCrash` ends the poll thread.

### OperationJobs

The Operations Center makes a typed plan, stores it as a ChangeSet and adds a row to
`operation_jobs`. The ChangeSet is approved, cancelled, bumped and so on by the
handlers of `ChangeSets`, so the module EXTENDS that one: `JobNext` keeps its handlers
(`BeginOther`, `Finish`, `AnswerOther`, `OutsideOther`) and adds those of the job.
Plans are created by `PlanRead` and `PlanWrite` only.

| Variable | Code |
|---|---|
| `job[c]` | the row of `operation_jobs` for ChangeSet `c`: `state`, and `ticket` and `grants` from `request_json.authorization` |
| `jreq[h]` | the job request handler `h` is serving, with what it has read |
| `starts` | history: each start of a job, with the approvals it consumed |

`/authorize` is `AuthorizeRead` and `AuthorizeWrite`. `/execute` is `ExecuteJobRead`,
then `ExecuteJobWrite` or `ExecuteJobRefused`, and after the executor has answered
`JobSucceeds`, `JobFails` or `ResultMalformed`; as an `async` handler it holds the
event loop from its checks to its commit. `/transition`, with which the bot reports
on executors that work on their own, runs in a thread: `TransitionRead`, then
`TransitionStarts`, `TransitionRefused` or `TransitionWrite`. Both ways of starting share
`Start`, whose row count must match, unlike that of a broker call.

Abstractions: only the ticket last issued is ever accepted, so `ticket` is none,
fresh or stale; whatever the executor does is its answer; `operation_plans.state` and the
verification rows are written and never read by a handler, and are left out; so are
the snapshots of further targets of a plan, which are compared like the
first. A planner that awaits the broker's preview takes its own snapshots before; its
ChangeSet's snapshot and generation are read after it, and these are in the model.
The broker's `/v1/preview` refuses the operations of the Operations Center, so their
live previews are never "ok".

### Provisioning

A run of the Cluster Factory is a row of `provisioning_runs`, a ChangeSet and a provider
job. `PlanRead` and `PlanWrite` plan it, `Authorize…` signs a ticket for it, `Execute…` calls the worker,
`Transition…` and `Retry…` are what a person may do with the job, `Refresh…` reads the
worker's evidence again. Each has a read step and a write step, but `execute_provider_job`,
an `async def`, has the event loop to itself up to its commit of RUNNING. The worker is a second
process (`used`, `exec`, `begun`, `work`): it takes a ticket once, prepares a
directory named after the plan hash, applies, verifies, and answers a caller who may
have gone: the Control Plane waits 1900 s, the worker allows its playbooks 2400 s. Either process
may die (`crashes`, `restarts`); the worker forgets its used tickets then.

What the model shows besides its properties: two requests to create a run for one cluster both
succeed, and runs with one plan hash share a directory that each removes before
it starts; an authorisation written late leaves a job READY that has been executed;
a crash of the Control Plane leaves its ChangeSet EXECUTING for ever, and so does a
transition written late once its server has been deleted; refreshing an old run
overwrites the state of the cluster. Preflight and bootstrap jobs
(`main.py` 1691-1792) have the same shape and no executor in the repository.

### InfrastructureWorker

The worker looks at a provider when a plan is previewed, and executes a signed ticket
if the provider still looks the same. The devices are external and modelled from what
the worker asks of them: a server with a Redfish or an IPMI controller (`bmc`, fixed),
a switch with one VLAN, a PXE controller. `Accept` takes the ticket (`_USED_TICKETS`), then each kind of
plan has its own steps, one per exchange with the device, and an exchange may fail or be
carried out with its answer lost. `Booted`, `Install` and `ChangedOutside` are the world's.

Exemptions of the properties are places where the devices give the code nothing to hold on to,
and `MayRecur` names them: IPMI tells no boot marks, a VLAN that is absent has no
ETag, a controller's row that failed may be started again. A restart through IPMI is reported
without anything being verified. Two plans previewed on one state
both pass when the device has no ETag. A PXE run that fails leaves the one-time boot armed.
The two reads of a PXE preview are modelled as one look. The answer `idempotent_complete`
cannot occur: a complete controller is refused earlier.

### AgentTasks

`CreateToken`, `Enrol`, `Beat`, `Issue`, `Next`, `Claim` and `Result` are threads of the
Control Plane, each with a `Read` step and a `Write` step that names rows by their id. `nonces` has a primary key
and is therefore the one guard that holds against races. The history variables `enrolled`,
`served`, `claims` count what tokens, nonces and tasks were good for.

Seen in the model: the capability a task needs is looked at when it is issued and not when it is
claimed; a refusal written late overwrites a claim or even a result; a handler
in flight when its agent is revoked still writes (`SECURITY.md:16`); the task of an
agent that died stays CLAIMED. A token for a name that was enrolled in the meantime stays ISSUED:
it is the UNIQUE name, not the token's own check, that lets one token enrol
one agent.

### CredentialSync

The service's handlers write their row under SQLite's write lock (`lock`), post the
reference to the Control Plane with the transaction open (`wire`), and commit or roll
back on the answer. `sync` and `delete` call first and write later. A call whose
caller has given up is still served (`MaxLate`). `accepted` records which rows, as they
stand, the Control Plane has agreed to.

What is *not* guaranteed, and seen: a sync that read its row before a revocation can
tell the Control Plane, later, that the credential is configured; a lost
answer to a rotation leaves the reference one version ahead; a deletion that is tried again
after a failure gets 404 from the Control Plane until a sync has put
the reference back; a rotation does not look whether the credential is revoked.

### SmartRouter

A request passes the quota (`redis` first, the database's count when Redis is not
there), the budget guard (`spent`), a pipeline that picks a model whose circuit
lets it through (`health`), its attempts upstream, and the telemetry that
writes the model's row and the cost. `ha` and `shared` are chosen once per
behaviour: replicas on a database, where the steps of transactions interleave, or one event
loop, where only an `await` lets another request run.

The properties say what the code can keep, which is less than one would guess: a single process that
loses Redis counts afresh in its database (twice the quota); requests that passed the
guard together overrun the budget together; HALF_OPEN lets everyone through, and a
4xx answer opens the circuit again; a success of the model that stands in is credited to
the primary; updates by replicas get lost; models that were named by the
client are not recorded. Sticky sessions, token and daily quotas are not modelled.

### ArtifactMirror

A job that `execute_operation_job` has made RUNNING (`Start`) runs `artifact_mirror.execute`
in a thread. Its steps are its looks at the destination (`LookHit`, `ValidateMarked`, `LookOn`), one
fetch per kind (`FetchBlob`, `FetchRelease`, `FetchCollection`, `FetchSnapshot`; `CopyTag` for OCI), the
changes of the file system, the verification of what it published, and `Record`. Files and
tags are replaced in one step. A repository's tree is renamed to a backup, the new one is
renamed into its place and the backup removed (`SeeOld`, `MoveAside`, `Rename`, `Drop`), with the
`except` and `finally` clauses that put the backup back (`Rescue`, `Clean`). Any step
may fail, and the process may die at any of them. The source serves whatever it likes.

| Variable | Code |
|---|---|
| `artifact`, `shown` | columns of `artifact_mirror_items`: the immutable ones, `verification_json` |
| `dest`, `aside` | what is at each destination; what a job has renamed to its backup |
| `job` | jobs of the executor `artifact-mirror-worker` and how far their threads are |
| `install` | PXE plans: the items of their roles, the verifications they are bound to, the files the worker has hashed |
| `blueprint` | `artifact_dependencies` of a blueprint |
| `stood` | history: which items were at their destination since a job began, and for a plan, which had a file with their digest there since the worker's part began |

The order of a blueprint's artifacts is computed as the code does (`Round`, `Pass`, `Sorted`, `Order`,
`ResumeAt`) and compared with what an order should be, over every graph of three artifacts and
every set of verified ones that jobs can bring about.

Abstractions: a file, an archive, a manifest is its digest, and whether its own metadata is
sound is a property of the digest (`Genuine`); `if not exists: replace` of a rescue is one
step; mirror jobs and PXE plans have different names (each is an operation job with an id of its
own); components, versions and labels that a blueprint requires are taken as matching;
an exception that `execute` does not catch leaves the job RUNNING, as in `OperationJobs`.

Seen in the model: a job without `replace_existing` overwrites content that came after its
look; a late rescue can bring back a tree over that of a job that has finished; an artifact stays
shown as mirrored when another one has taken its destination, which is why the worker's
own hashing of the files matters; the worker looks at a file's digest and not at what kind of
artifact it is, so what `InstallsApprovedFiles` promises is the digest; after a crash between the two renames the destination
is absent, its content in a hidden directory that nothing restores; FAILED is reported for content
that was published if the verification is disturbed.

### Operators called "Fault"

An operator whose comment starts with *Fault* is not part of a model. It
is the definition after it with a plausible mistake (a forgotten `WHERE`, a lost
release). Replacing the definition by it must make a run fail; `PROJECT.json`
lists each under `mutants` with the property that notices it.

## 3. Runs

| Run | Shows | Bounds |
|---|---|---|
| `changesets_approvals` | `GrantUsedOnce`, `QuorumAtDispatch`, `ApprovedHasQuorum`, `DecidedHoldsNoGrant`, `GrantsEndOnce`, `RollbackHasCause`, and that the service implements `OneTimeGrant` | one CRITICAL plan and perhaps its rollback as a draft, 3 people, 3 approvals, 2 tickets, 2 requests at once, 1 policy bump, 1 crash |
| `governance_once` | `GrantAppliesOnce`, `ExecutedReachedCluster` | one HIGH plan, 2 tickets, 1 broker restart, changes by others |
| `governance_settle` | `DispatchSettles` (liveness) | a LOW plan, 2 requests, 1 broker restart |
| `execution_delivery` | `RunsOnce`, `RunsOnlyApproved`, `SlotsConserved`, `GrantedMeansTaken`, `DecisionReachesBroker` (liveness) | 1 capability, 2 execute requests for 1 slot, 2 calls in flight, 1 change of policy, 2 crashes |
| `operation_starts` | `StartsOnConsumedQuorum`, `OutcomeHasStart`, and that jobs implement `CheckedGrant` | one HIGH plan with a trusted executor, 2 people, 2 approvals, 3 requests at once, broker requests alone, no bump, no crash |
| `changesets_unconsumed` | refutes `ConsumedBeforeDispatch` | one HIGH plan |
| `provisioning_runs` | `EveryStartIsPaidFor`, `ExecutedWasVerified`, `OnlyACrashForgets` | 1 run, 2 requests at once, 2 approvals, 2 tickets, 2 attempts, 1 bump, 1 failure of each process |
| `infrastructure_executes` | `TakesEffectOnce`, `PutReplacesPreviewed`, `SucceedsOnlyIfSo` | 2 plans of any kind, 2 tickets, 2 calls, 2 boots, 1 change by others, 1 restart |
| `agent_tasks` | `TokenEnrolsOnce`, `TaskClaimedOnce` | 2 tokens for one name, 2 tasks, 2 nonces, 2 requests at once, 1 bump |
| `credentials_synced` | `CommittedWasAccepted`, `RevokedStaysRevoked`, `DeletedThereFirst` | 2 credentials that want one name, 2 requests at once, 1 late call, 1 crash |
| `router_circuits` | `QuotaHolds`, `OverrunIsBounded`, `OpensOnOwnFailures` | 2 requests at once, 2 models, a quota of 1, a budget of 1, 2 failures open a circuit, 1 retry |
| `artifacts_mirrored` | `MirroredWasThere`, `NothingLost`, `InstallsApprovedFiles`, `OrderIsSafe` | two artifacts that want one destination, 3 jobs or 2 and a PXE plan, 1 crash; every dependency graph of 3 artifacts |

`provisioning_runs`, `infrastructure_executes` and `artifacts_mirrored` check the type invariant
of their modules as well; in the other runs of safety it would take time and is proved.

**Why the bounds suffice to be interesting.** Every race of the ChangeSet service
is between two requests, one whose write step falls between the two steps of the
other, so two handlers show each pair. A CRITICAL plan needs two approvers
besides its author, hence three people; three approval rows allow one person to
approve twice and the quorum still to be met. Two tickets are two dispatches of one
plan. One bump and one crash each separate a before from an after.
An operation job needs three requests at once for the interesting case: a job that was started
and has failed is made READY again by an authorisation that was in flight, and an
approval that was in flight gives it new grants, so it starts once more. To keep the
instance within minutes it has neither a bump nor a crash, and the constraint
`BrokerRequestsAlone` follows live previews and broker executions of the job's
ChangeSet only while no other request is in flight; the theorems hold without these bounds.
In the execution broker, two execute requests for one slot compete for the slot and for the
capability; two calls are a late one and its resend; with two crashes each
process can fail, or one can fail twice. One provisioning run with two tickets has everything that two executions of a
job can do to each other, on the side of the worker too; a second run with its plan hash would
share its directory, which the run's own second ticket does as well. Two
plans on one device are the case where the second was previewed on a state that the first has
changed. Two tokens for one name compete for it, two
credentials for theirs; two artifacts and older content at one destination are three trees to
confuse, and a third job can act between the renames of two; a quota and a budget of 1 are exceeded by the second request.
The bounds are the constants `Max…`, the threshold, quota and
budget of the router, and the sets of identifiers; there are no others.
Deadlock is checked in `router_circuits`. In the other runs identifiers
run out and a settled instance has nothing left to do.

**Symmetry.** The safety runs with symmetry permute people who are neither
author nor otherwise named, handlers, approvals and tickets; none is
distinguished by a CONSTANT. Runs with liveness use none.

**Fairness.** `GovernanceFairSpec`: the thread pool and the FIFO event loop
run a started handler on (strong fairness of `Finish`, because the event loop can be
held by another handler again and again, but each is served in turn); `httpx` bounds the wait for
the broker (weak fairness of an answer); every `kubectl` and `helm` process
has a timeout (weak fairness of `BrokerWork`). Nothing is assumed of clients.
`DispatchSettles` leaves out one case, a crash of the Control Plane: nothing at
start-up looks for EXECUTING rows.
`FairSpec` of `ExecutionBroker`: the poll loop goes on and takes every
unresolved decision in each round (strong fairness of `Resend` per capability, since the
loop is busy with others in between); `urllib` bounds its waits and a thread of the broker
finishes what it serves (weak fairness of `StopWaiting`, `Settle`, `Accept`); and
the network does not lose every call of one decision (strong fairness of `Receive` per call and
capability), the one assumption that is about the surroundings.
`DecisionReachesBroker` excepts the ends the code has: the capability
was consumed, expired, belongs to an older generation, execution was switched
off, or the poll thread has died.

## 4. Where documents and code part

One sentence is refuted by a run; `findings` in `PROJECT.json` quotes it.

* **A call can go out without consuming its approvals** (`changesets_unconsumed`,
  `main.py:2602`). The consuming UPDATE's row count is not looked at. What still holds, and
  is proved, is that no approval backs two calls.

The rest was met while modelling, and the models have it: each is a behaviour of theirs.

* Terminal states of a ChangeSet are not final. No UPDATE of
  `changesets.state` repeats the state that was read; a preview-live that was waiting for the
  broker while the ChangeSet was cancelled writes PREVIEWED (`main.py:2241`).
* A plan whose live preview was refused can be dispatched, without a
  live-state precondition (`main.py:2567`).
* An older plan can stay active after a policy bump, though every later handler
  refuses it; a STALE_POLICY plan blocks the deletion of its target for good.
* The broker's drift check is not atomic with the change (`kubernetes-broker/…/main.py:471`):
  two plans previewed against one state can both be applied.
* The final states of a job are not final: a bot's FAILED may be followed by the late
  SUCCEEDED of the executor, and a FAILED job may become READY through an authorisation in flight
  and start again, on other approvals. A job whose result carries no usable evidence
  stays RUNNING (`main.py:4597`, and `main.py:1891` for provider jobs, where an exception
  out of the verification has the same effect); once its ChangeSet has left EXECUTING no
  transition is possible.

## 5. Proofs

All theorems hold for every value of the constants that satisfies the named
assumptions (`RiskAssumption`, `FinitenessAssumption`, …), which TLC evaluates
on the instances. They are about safety.

**ChangeSets.** `TypeCorrect` is inductive as it stands. The rest uses it, and the
theorems about calls use `LoopHeld` too: the event loop is held exactly by an
execute request that is between its checks and its writes.

* `GrantsEndForGood` follows from typing and a lemma per write step: every
  UPDATE of `approvals` that changes a status repeats `status='APPROVED'`.
* `EachGrantUsedOnce` needs more than the property. Approvals behind a call
  must be shown to be out of reach of the next one although the call may have
  gone out on approvals it did not consume. The invariant says that the grants
  behind a call are never APPROVED again, and that the grants a request holding
  the loop has captured are behind no call; only one request can hold the loop.
* `DecisionsWithdrawGrants` rests on the fact that the INSERT of an approval
  and the state it writes are one transaction, and that every step that ends in
  REJECTED, CANCELLED or STALE_POLICY withdraws what is standing.
* `ServiceKeepsGrantPromise` is the refinement: initial states map to
  initial states, and each step to a `OneTimeGrant` step or a stutter. A crash
  between claim and dispatch is `Abandon`.
* `QuorumBehindEveryCall` and `ApprovedMeansQuorum` argue about cardinalities: an approval row never changes its approver or
  ChangeSet, so a quorum seen at the check is a quorum for ever. The invariant adds
  that what a request captured was a quorum when it was captured.
* `RollbacksHaveCauses` needs to know where EXECUTED comes from. `CallInv` says that a
  handler whose call was dispatched has it on record, that EXECUTED means such a call, and that a
  request to create a rollback was let through by an EXECUTED source. Calls are never taken off the
  record, so what was true at the read still is at the write.

**Governance.** A step of the composition is a step of the ChangeSet service, with the broker's
answer in place of the environment's, or a step of the broker alone, so what is proved of
`Spec` holds of `GovernanceSpec`. `BrokerTypeCorrect` types the broker's side.
`EffectInv` joins the two: a ticket has changed the cluster at most once per life of the broker
(`AppliedOncePerLife`: while the ticket is in `_USED_TICKETS` its thread is the only one, and a
restart pays for the loss of the set), and "done", an "ok" under way and EXECUTED
all mean that something was applied (`DoneIsApplied`). With `EachGrantUsedOnce`
this gives `GrantsApplyOnce`; `ExecutedMeansApplied` is the last part.

**OperationJobs.** Every step of `JobNext` is a step of the ChangeSet service, for which the lemmas of
`ChangeSets` are cited, or of a job handler, for
which `JobStepMoves` says how the variables may change. What goes through both kinds is
`Persists`: an approval that was given keeps its approver and its ChangeSet, and a
verdict on it is final.

* `JobTypeCorrect` includes the ChangeSet service's own type invariant, since job
  handlers write its variables.
* `StartsHaveConsumedQuorum`: the approvals of a ticket, of a job request and of a start were
  a quorum when they were captured, and `Persists` keeps them one. A start
  consumes all of them or none.
* `OutcomesHaveStarts`: the invariant follows what a late report knows. A
  transition in flight was read from a started job, or from a READY one that it can
  only start or fail (`ReportsKnow`); a request that calls the broker leaves its call on
  record (`CallersCalled`). What a handler writes long after it read then still
  has a cause.
* `JobsKeepCheckedPromise` is the refinement. `Start` asks that every approval be
  still APPROVED, so none is revoked or used; no step withdraws a used one.

**ExecutionBroker.**

* `EachCapabilityRunsOnce`: a request that is past its claim, and a run, both stand
  for the one `consumed` mark. The invariant says that at most one request
  is claimed or running per capability, that it implies the mark, and that before the mark
  nothing has run. A lemma shows that marks are never removed.
* `OnlyApprovedRuns`: `approved` implies the approver's decision, and a decision
  once made stays; a call that is late or sent twice can therefore only bring the same verdict.
* `GrantedIsTaken`: while the courier has heard "yes", the broker's row
  shows it. The invariant is about the courier's stage, and its call being its own.
* `SlotsAreConserved`: a counting argument, for any number of slots, requests and crashes.

**CredentialSync.** `CommitsOnlyAccepted` follows a row from the handler that holds the lock
to its commit: whoever is about to commit holds the lock and has the Control
Plane's word for exactly the row it commits (`SaveHasLock`, `AcceptedOnOk`), a call
carries what its handler has written (`CallMatches`), and a name that is created is
nobody's (`CreateIsFresh`). `RevocationIsFinal` needs that a handler past its
SELECT carries a status that no commit has overtaken (`KeepsRevoked`), which is
the lock's doing. `ReferenceGoesFirst` needs that an "ok" to a deletion means the
reference was removed (`RemovedOnOk`).

**SmartRouter.** `QuotaIsKept` is counting: what was let through is in one of the
two counters. `OverrunBound` adds up what the pending requests may still cost
(`RoomForPending`); `OpenForCause` says that a row never counts more failures than its
model had, counting those that a request has read and not yet written
(`RecordsItsModel`, `FailuresAreOwn`). `OneSection` is the event loop of a single process.

**AgentTasks.** `OneTokenOneAgent` holds because two enrolments with one
token are for one name and names are unique (`TokensNamed`, `NamesDiffer`), although the token's
status is read before it is written. `ClaimedOnce` rests on the claiming UPDATE, which
repeats the state, and on the primary key of the nonces.

**Provisioning.** `RunInv` is typing with two facts that make lookups defined: a request that is
calling the worker holds a ticket that was issued for its run and its grant, and only a
planned run has rows. `EveryStartPaid` rests on `PaidInv`: whatever began has a consumed approval, and so
has every call that has not yet led to a start (`Paid`); no two of these, begun or calling,
share an approval (`PaidApart`). The execute request takes the
approval and leaves for the worker in one step of the event loop, with a row count that must match. The
worker's ticket takes over what the call has paid, and a ticket that began stays begun
when its worker forgets it (`Grows`). `ExecutedMeansVerified` follows the answer: a request that
has heard SUCCEEDED heard it of a ticket that ran to its end (`AnsweredTruly`). `OnlyDeathForgets`
says of each write that leaves EXECUTING behind who will come back to it.

**InfrastructureWorker.** All four theorems rest on what the devices cannot take back (`Flow`): a
boot is counted, a VLAN that changes gets a new version, a controller that had a plan is never
idle again, and it completes only what the server has loaded.

* `TicketsTakeEffectOnce`: a call that had its effect leaves a state that differs from the
  previewed one for good (`Drifted`, `EffectDrifts`, `DriftStays`), so no other call with the ticket
  gets past its probe (`DriftStops`, `Once`). Of the calls with one ticket only one is live, and while
  the worker has not restarted there is only one (`SoleUser`). What the effect must differ from
  is known since the probe (`CallFits`): a server that is to be switched off was previewed on.
* `PutsArePreviewed`: the ETag of a preview is not newer than the VLAN, and if it is the same so
  is the VLAN (`EtagPast`).
* `SuccessIsReal`: a mark is never ahead of the boots, and a completed plan has its image on the
  disk and no other installer under way (`DiskInstalled`).

**ArtifactMirror.** `MirrorInv` is typing, what a job knows at each stage (`JobKnown`) and that the
marker of a tree tells the snapshot it was made from (`MarksTrue`). `MirroredMeansThere` and
`InstalledMeansApproved` follow a job and a plan from look to verdict (`SawIt`, `PlanSaw`), through the
renames of others. `PublishingLosesNothing` rests on the one step that removes a backup
unseen, the `rmtree` after a rename: the destination can be empty then only
because another job has moved the tree to a backup of its own, which it will not remove
without having put something there (`Backed`).

`OrderCorrect` is about the loop of `resolve_blueprint_artifact_manifest`, a recursive function over
its rounds (`Pass`), for every graph. The library's induction takes an operator, so the
proof argues by a least counterexample (`MinNat`), three times: the function of the rounds exists
(`PassIs`), each round keeps what holds between rounds (`Loop`, `RoundKeeps`, `RoundsKeep`: each item out once
and after its needs, `left` counts the needs still inside, `ready` is what waits for nothing), and a
knot of items that wait for each other cannot have a first one to come out. What remains when
`ready` runs dry is such a knot, so a cycle is reported exactly when there is one (`SortedIs`, `OrderFollows`).

The attempt to prove `InstalledMeansApproved` showed that the property had said too much: the
worker compares the digest of a file, so a file with the approved digest passes although its role
is bound to a repository. The history now records what the worker can see, files with the
approved digest.

**Only model-checked**: liveness (`DispatchSettles`, `DecisionReachesBroker`), since
ENABLED and fairness are out of the prover's reach, and the refutation
`ConsumedBeforeDispatch`. Every other property of the runs is a theorem.

## 6. Not modelled yet, and the plan

Components with status `not_modelled` in `PROJECT.json` give their reason. Reads, audit
records, rendering, command lines, HTML and numerical models stay out.
In the order of their importance:

1. A client module for the `stack-execution-policy` plugin on top of
   `ExecutionBroker`.
2. Further operations of the infrastructure worker (Proxmox, host networks) and of the
   Kubernetes Broker.
3. Pure algorithms checked against reference definitions.
