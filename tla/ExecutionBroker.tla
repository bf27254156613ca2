--------------------------- MODULE ExecutionBroker ---------------------------
(***************************************************************************)
(* Sealed execution on a docker or ssh broker.  Hermes asks the broker to  *)
(* prepare an operation; the broker stores a capability and asks the       *)
(* approver; the approver asks a user by a Telegram message, keeps the     *)
(* decision and delivers it, signed, to the broker; an execute request     *)
(* waits for the decision, claims the capability and runs the operation.   *)
(*                                                                         *)
(* The broker and the approver are two processes with a database each,     *)
(* linked by HTTP calls that time out (20 s to ask, 15 s to decide) while  *)
(* the other side goes on.  Every HTTP request has a thread of its own;    *)
(* the approver's poll loop is one thread, which takes button presses and  *)
(* sends decisions.  Each SQL statement is atomic.  Whoever holds the      *)
(* control secret may execute or cancel any capability at any time: what   *)
(* follows does not depend on how Hermes behaves.                          *)
(*                                                                         *)
(* Digests, signatures, users and sessions are immutable bindings of a     *)
(* capability and are taken as matching.  Rows past their expiry are kept, *)
(* since no statement but the hourly purge distinguishes them from none.   *)
(***************************************************************************)
EXTENDS Naturals, FiniteSets

CONSTANTS
  Caps,        \* capability nonces the broker can issue
  Requests,    \* execute requests that can be in flight together
  Posts,       \* decision calls that can be in flight together
  Slots,       \* MAX_CONCURRENT
  None,
  MaxGen,      \* bound: policy generations
  MaxCrashes   \* bound: crashes of the three processes together

ASSUME SlotsAssumption == Slots \in Nat
ASSUME BoundsAssumption == MaxGen \in Nat \ {0} /\ MaxCrashes \in Nat
ASSUME NoneAssumption == None \notin Caps \cup Posts
ASSUME FinitenessAssumption == IsFiniteSet(Requests)

VARIABLES
  gen, enabled,  \* the policy generation and features files
  bumping,       \* an admin request has written a policy file, not yet the generation
  cap,           \* the broker's capabilities table
  lapsed,        \* capabilities whose expires_at has passed
  prep,          \* the /prepare handler of each capability
  ask,           \* the approver's approval_requests table and /request handlers
  closed,        \* those of its rows whose expires_at has passed
  courier,       \* the approver's poll thread
  post,          \* decision calls on their way to, or inside, the broker
  req,           \* execute handlers
  free,          \* the semaphore of execution slots
  runs,          \* how often the operation of each capability was started
  crashes

policyVars == <<gen, enabled, bumping>>
approverVars == <<ask, closed, courier>>
executeVars == <<req, free, runs>>
vars == <<policyVars, cap, lapsed, prep, approverVars, post, executeVars, crashes>>

-----------------------------------------------------------------------------
(* Values *)

CapRows == [stored: BOOLEAN, approved: BOOLEAN, consumed: BOOLEAN, gen: Nat]
NoCap == [stored |-> FALSE, approved |-> FALSE, consumed |-> FALSE, gen |-> 0]

\* gen: the generation written into the approval request, 0 before it is sent
Preps == [stage: {"none", "issued", "sent", "prepared", "failed", "lost"}, gen: Nat]
NoPrep == [stage |-> "none", gen |-> 0]

\* gone: the row was discarded, or a crash left it undelivered for ever
Decisions == {"approved", "denied"}
AskRows == [stage: {"none", "sending", "delivered", "gone"},
            decision: Decisions \cup {"pending"}, granted: BOOLEAN, gen: Nat]
NoAsk == [stage |-> "none", decision |-> "pending", granted |-> FALSE, gen |-> 0]

Couriers == [stage: {"idle", "waiting", "yes", "no", "dead"},
             cap: Caps \cup {None}, post: Posts \cup {None}]
IdleCourier == [stage |-> "idle", cap |-> None, post |-> None]

PostStates == [stage: {"free", "sent", "checked"}, cap: Caps \cup {None}]
NoPost == [stage |-> "free", cap |-> None]

ReqStates == [op: {"idle", "waiting", "claimed", "running"},
              cap: Caps \cup {None}, gen: Nat]
IdleReq == [op |-> "idle", cap |-> None, gen |-> 0]

Init ==
  /\ gen = 1 /\ enabled = TRUE /\ bumping = FALSE
  /\ cap = [c \in Caps |-> NoCap]
  /\ lapsed = {} /\ closed = {}
  /\ prep = [c \in Caps |-> NoPrep]
  /\ ask = [c \in Caps |-> NoAsk]
  /\ courier = IdleCourier
  /\ post = [m \in Posts |-> NoPost]
  /\ req = [r \in Requests |-> IdleReq]
  /\ free = Slots
  /\ runs = [c \in Caps |-> 0]
  /\ crashes = 0

-----------------------------------------------------------------------------
(* Preparing: the broker's /prepare and the approver's /request *)

\* Fault: an unreadable generation is stored as it is.
PrepareUnread(c) ==
  /\ enabled
  /\ ~cap[c].stored
  /\ cap' = [cap EXCEPT ![c] = [@ EXCEPT !.stored = TRUE, !.gen = None]]
  /\ prep' = [prep EXCEPT ![c].stage = "issued"]
  /\ UNCHANGED <<policyVars, lapsed, approverVars, post, executeVars, crashes>>

Prepare(c) ==
  /\ enabled
  /\ ~cap[c].stored
  /\ cap' = [cap EXCEPT ![c] = [@ EXCEPT !.stored = TRUE, !.gen = gen]]
  /\ prep' = [prep EXCEPT ![c].stage = "issued"]
  /\ UNCHANGED <<policyVars, lapsed, approverVars, post, executeVars, crashes>>

\* The generation is read again for the request to the approver.
SendRequest(c) ==
  /\ prep[c].stage = "issued"
  /\ prep' = [prep EXCEPT ![c] = [stage |-> "sent", gen |-> gen]]
  /\ UNCHANGED <<policyVars, cap, lapsed, approverVars, post, executeVars, crashes>>

\* The request may arrive after the broker gave it up.
Ask(c) ==
  /\ prep[c].gen # 0 /\ ask[c] = NoAsk
  /\ prep[c].gen = gen
  /\ ask' = [ask EXCEPT ![c] = [@ EXCEPT !.stage = "sending", !.gen = prep[c].gen]]
  /\ UNCHANGED <<policyVars, cap, lapsed, prep, closed, courier, post, executeVars, crashes>>

\* sendMessage returned: mark_delivered.  It failed: discard.
Deliver(c) ==
  /\ ask[c].stage = "sending"
  /\ \E stage \in {"delivered", "gone"} : ask' = [ask EXCEPT ![c].stage = stage]
  /\ UNCHANGED <<policyVars, cap, lapsed, prep, closed, courier, post, executeVars, crashes>>

Prepared(c) ==
  /\ prep[c].stage = "sent"
  /\ ask[c].stage = "delivered"
  /\ prep' = [prep EXCEPT ![c].stage = "prepared"]
  /\ UNCHANGED <<policyVars, cap, lapsed, approverVars, post, executeVars, crashes>>

Withdraw(c) == cap' = [cap EXCEPT ![c].consumed = TRUE]

\* The approver refused, failed or did not answer in time.
PrepareFails(c) ==
  /\ prep[c].stage = "sent"
  /\ prep' = [prep EXCEPT ![c].stage = "failed"]
  /\ Withdraw(c)
  /\ UNCHANGED <<policyVars, lapsed, approverVars, post, executeVars, crashes>>

Cancel(c) ==
  /\ cap[c].stored
  /\ Withdraw(c)
  /\ UNCHANGED <<policyVars, lapsed, prep, approverVars, post, executeVars, crashes>>

-----------------------------------------------------------------------------
(* Deciding: the approver's poll thread and the broker's /approval-grant *)

SendDecision(c, m) ==
  /\ courier.stage = "idle"
  /\ post[m] = NoPost
  /\ post' = [post EXCEPT ![m] = [stage |-> "sent", cap |-> c]]
  /\ courier' = [stage |-> "waiting", cap |-> c, post |-> m]

\* Fault: the UPDATE forgets decision='pending'.
PressAgain(c, decision, m) ==
  /\ ask[c].stage = "delivered" /\ c \notin closed
  /\ ask' = [ask EXCEPT ![c].decision = decision]
  /\ SendDecision(c, m)
  /\ UNCHANGED <<policyVars, cap, lapsed, prep, closed, executeVars, crashes>>

\* A button is pressed: resolve, then send.  Pressing a button of a message
\* that is not delivered, pending and open changes nothing.
Press(c, decision, m) ==
  /\ ask[c].stage = "delivered" /\ c \notin closed
  /\ ask[c].decision = "pending"
  /\ ask' = [ask EXCEPT ![c].decision = decision]
  /\ SendDecision(c, m)
  /\ UNCHANGED <<policyVars, cap, lapsed, prep, closed, executeVars, crashes>>

\* The loop over unresolved_decisions.
Resend(c, m) ==
  /\ ask[c].decision # "pending" /\ ~ask[c].granted /\ c \notin closed
  /\ SendDecision(c, m)
  /\ UNCHANGED <<policyVars, cap, lapsed, prep, ask, closed, executeVars, crashes>>

\* The answer to call m is for the courier only while it waits for it.
Answer(m, reply) ==
  /\ post' = [post EXCEPT ![m] = NoPost]
  /\ courier' = IF courier.stage = "waiting" /\ courier.post = m
                  THEN [courier EXCEPT !.stage = reply, !.post = None] ELSE courier

\* The call never reaches the broker, or could not be signed.
Lose(m) ==
  /\ post[m].stage = "sent"
  /\ Answer(m, "no")
  /\ UNCHANGED <<policyVars, cap, lapsed, prep, ask, closed, executeVars, crashes>>

\* _accept up to its policy check
Receive(m) ==
  /\ post[m].stage = "sent"
  /\ IF ask[post[m].cap].gen = gen /\ enabled
       THEN post' = [post EXCEPT ![m].stage = "checked"] /\ UNCHANGED courier
       ELSE Answer(m, "no")
  /\ UNCHANGED <<policyVars, cap, lapsed, prep, ask, closed, executeVars, crashes>>

\* The rows that the UPDATE of approve and of cancel_bound finds
Open(c) ==
  /\ cap[c].stored /\ ~cap[c].approved /\ ~cap[c].consumed /\ c \notin lapsed
  /\ cap[c].gen = ask[c].gen

\* Fault: an UPDATE that finds no row is not an error.
AcceptAll(m) ==
  LET c == post[m].cap IN
  /\ post[m].stage = "checked"
  /\ \/ /\ Open(c)
        /\ \/ ask[c].decision = "approved" /\ cap' = [cap EXCEPT ![c].approved = TRUE]
           \/ ask[c].decision = "denied" /\ Withdraw(c)
     \/ ~Open(c) /\ UNCHANGED cap
  /\ Answer(m, "yes")
  /\ UNCHANGED <<policyVars, lapsed, prep, ask, closed, executeVars, crashes>>

\* The rest of _accept: approve or cancel_bound
Accept(m) ==
  LET c == post[m].cap IN
  /\ post[m].stage = "checked"
  /\ \/ /\ Open(c)
        /\ \/ ask[c].decision = "approved" /\ cap' = [cap EXCEPT ![c].approved = TRUE]
           \/ ask[c].decision = "denied" /\ Withdraw(c)
        /\ Answer(m, "yes")
     \/ ~Open(c) /\ UNCHANGED cap /\ Answer(m, "no")
  /\ UNCHANGED <<policyVars, lapsed, prep, ask, closed, executeVars, crashes>>

\* The courier's own timeout: the call goes on, its answer will be for nobody.
StopWaiting ==
  /\ courier.stage = "waiting"
  /\ courier' = [courier EXCEPT !.stage = "no", !.post = None]
  /\ UNCHANGED <<policyVars, cap, lapsed, prep, ask, closed, post, executeVars, crashes>>

\* Fault: mark_granted whatever the answer was.
SettleAlways ==
  /\ courier.stage \in {"yes", "no"}
  /\ ask' = [ask EXCEPT ![courier.cap].granted = TRUE]
  /\ courier' = IdleCourier
  /\ UNCHANGED <<policyVars, cap, lapsed, prep, closed, post, executeVars, crashes>>

Settle ==
  /\ courier.stage \in {"yes", "no"}
  /\ ask' = IF courier.stage = "yes"
              THEN [ask EXCEPT ![courier.cap].granted = TRUE] ELSE ask
  /\ courier' = IdleCourier
  /\ UNCHANGED <<policyVars, cap, lapsed, prep, closed, post, executeVars, crashes>>

-----------------------------------------------------------------------------
(* Executing: the broker's /execute *)

\* The slot and the generation are taken before the wait for the decision.
ExecuteStart(r, c) ==
  /\ req[r] = IdleReq
  /\ cap[c].stored /\ enabled
  /\ free > 0
  /\ free' = free - 1
  /\ req' = [req EXCEPT ![r] = [op |-> "waiting", cap |-> c, gen |-> gen]]
  /\ UNCHANGED <<policyVars, cap, lapsed, prep, approverVars, post, runs, crashes>>

\* Fault: the UPDATE of consume forgets consumed = 0.
ClaimableAgain(r) ==
  LET c == req[r].cap IN
  cap[c].approved /\ c \notin lapsed /\ cap[c].gen = req[r].gen

\* The row that the UPDATE of consume finds
Claimable(r) ==
  LET c == req[r].cap IN
  cap[c].approved /\ ~cap[c].consumed /\ c \notin lapsed /\ cap[c].gen = req[r].gen

Claim(r) ==
  /\ req[r].op = "waiting"
  /\ Claimable(r)
  /\ Withdraw(req[r].cap)
  /\ req' = [req EXCEPT ![r].op = "claimed"]
  /\ UNCHANGED <<policyVars, lapsed, prep, approverVars, post, free, runs, crashes>>

\* Every way out of the try block passes its finally.
Leave(r) ==
  /\ free' = free + 1
  /\ req' = [req EXCEPT ![r] = IdleReq]
  /\ UNCHANGED <<policyVars, cap, lapsed, prep, approverVars, post, runs, crashes>>

\* Fault: the exception of consume passes the release by.
GiveUpHolding(r) ==
  /\ req[r].op = "waiting"
  /\ ~Claimable(r)
  /\ req' = [req EXCEPT ![r] = IdleReq]
  /\ UNCHANGED <<policyVars, cap, lapsed, prep, approverVars, post, free, runs, crashes>>

\* Decided otherwise, withdrawn, expired, of another generation, or the 300 s are over
GiveUp(r) ==
  /\ req[r].op = "waiting"
  /\ ~Claimable(r)
  /\ Leave(r)

\* What the operation names is no longer what was approved: digest, image,
\* workspace, profile, container, network.
Refuse(r) == req[r].op = "claimed" /\ Leave(r)

Run(r) ==
  /\ req[r].op = "claimed"
  /\ runs' = [runs EXCEPT ![req[r].cap] = @ + 1]
  /\ req' = [req EXCEPT ![r].op = "running"]
  /\ UNCHANGED <<policyVars, cap, lapsed, prep, approverVars, post, free, crashes>>

Stop(r) == req[r].op = "running" /\ Leave(r)

-----------------------------------------------------------------------------
(* Policy, time and crashes *)

\* The admin service writes features, users, bot token or control secret ...
WritePolicy ==
  /\ ~bumping /\ gen < MaxGen
  /\ enabled' \in BOOLEAN
  /\ bumping' = TRUE
  /\ UNCHANGED <<gen, cap, lapsed, prep, approverVars, post, executeVars, crashes>>

\* ... and then the generation.
BumpGeneration ==
  /\ bumping
  /\ gen' = gen + 1
  /\ bumping' = FALSE
  /\ UNCHANGED <<enabled, cap, lapsed, prep, approverVars, post, executeVars, crashes>>

Lapse(c) ==
  /\ cap[c].stored /\ c \notin lapsed
  /\ lapsed' = lapsed \cup {c}
  /\ UNCHANGED <<policyVars, cap, prep, approverVars, post, executeVars, crashes>>

\* The approver's row is younger than the capability and lives as long.
Close(c) ==
  /\ c \in lapsed \ closed /\ ask[c] # NoAsk
  /\ closed' = closed \cup {c}
  /\ UNCHANGED <<policyVars, cap, lapsed, prep, ask, courier, post, executeVars, crashes>>

\* A broker that starts withdraws the capabilities of other generations.  A
\* courier whose answer breaks off after the headers gets an IncompleteRead,
\* which nothing catches: the poll thread ends.
BrokerCrash ==
  /\ crashes < MaxCrashes
  /\ crashes' = crashes + 1
  /\ cap' = [c \in Caps |-> IF cap[c].stored /\ cap[c].gen # gen
                              THEN [cap[c] EXCEPT !.consumed = TRUE] ELSE cap[c]]
  /\ prep' = [c \in Caps |-> IF prep[c].stage \in {"issued", "sent"}
                               THEN [prep[c] EXCEPT !.stage = "lost"] ELSE prep[c]]
  /\ post' = [m \in Posts |-> NoPost]
  /\ \/ courier.stage = "waiting"
        /\ \E stage \in {"no", "dead"} :
             courier' = [courier EXCEPT !.stage = stage, !.post = None]
     \/ courier.stage # "waiting" /\ UNCHANGED courier
  /\ req' = [r \in Requests |-> IdleReq]
  /\ free' = Slots
  /\ UNCHANGED <<policyVars, lapsed, ask, closed, runs>>

ApproverCrash ==
  /\ crashes < MaxCrashes
  /\ crashes' = crashes + 1
  /\ ask' = [c \in Caps |-> IF ask[c].stage = "sending"
                              THEN [ask[c] EXCEPT !.stage = "gone"] ELSE ask[c]]
  /\ courier' = IdleCourier
  /\ UNCHANGED <<policyVars, cap, lapsed, prep, closed, post, executeVars>>

AdminCrash ==
  /\ bumping /\ crashes < MaxCrashes
  /\ crashes' = crashes + 1
  /\ bumping' = FALSE
  /\ UNCHANGED <<gen, enabled, cap, lapsed, prep, approverVars, post, executeVars>>

-----------------------------------------------------------------------------
CapStep(c) ==
  \/ Prepare(c) \/ SendRequest(c) \/ Ask(c) \/ Deliver(c)
  \/ Prepared(c) \/ PrepareFails(c) \/ Cancel(c)
  \/ Lapse(c) \/ Close(c)
  \/ \E m \in Posts : \/ Resend(c, m)
                      \/ \E decision \in Decisions : Press(c, decision, m)
  \/ \E r \in Requests : ExecuteStart(r, c)

PostStep(m) == Lose(m) \/ Receive(m) \/ Accept(m)

RequestStep(r) == Claim(r) \/ GiveUp(r) \/ Refuse(r) \/ Run(r) \/ Stop(r)

Next ==
  \/ \E c \in Caps : CapStep(c)
  \/ \E m \in Posts : PostStep(m)
  \/ \E r \in Requests : RequestStep(r)
  \/ StopWaiting \/ Settle
  \/ WritePolicy \/ BumpGeneration
  \/ BrokerCrash \/ ApproverCrash \/ AdminCrash

Spec == Init /\ [][Next]_vars

\* The poll loop goes on and each round takes every unresolved decision in
\* turn; urllib bounds its wait; a thread of the broker that serves a call goes
\* on; and the network does not lose every call of a decision.
FairSpec ==
  /\ Spec
  /\ WF_vars(StopWaiting) /\ WF_vars(Settle)
  /\ \A c \in Caps : SF_vars(\E m \in Posts : Resend(c, m))
  /\ \A m \in Posts : /\ WF_vars(Accept(m))
                      /\ \A c \in Caps : SF_vars(post[m].cap = c /\ Receive(m))

-----------------------------------------------------------------------------
(* Properties *)

(* Rows, handlers and calls keep their shape.                              *)
TypeOK ==
  /\ gen \in Nat \ {0} /\ enabled \in BOOLEAN /\ bumping \in BOOLEAN
  /\ cap \in [Caps -> CapRows]
  /\ lapsed \subseteq Caps /\ closed \subseteq Caps
  /\ prep \in [Caps -> Preps]
  /\ ask \in [Caps -> AskRows]
  /\ courier \in Couriers
  /\ post \in [Posts -> PostStates]
  /\ req \in [Requests -> ReqStates]
  /\ free \in Nat
  /\ runs \in [Caps -> Nat]
  /\ crashes \in Nat

(* "Brokers ... atomically consume it once": an operation starts at most   *)
(* once, however many execute requests name its capability, whatever is    *)
(* decided twice, cancelled or restarted.                                  *)
RunsOnce == \A c \in Caps : runs[c] <= 1

(* An operation that runs, or may, is one that the user approved on the    *)
(* approver and did not, before or after, deny.                            *)
RunsOnlyApproved ==
  \A c \in Caps : cap[c].approved \/ runs[c] > 0 => ask[c].decision = "approved"

(* Every slot is free or held by one request, after any failure.           *)
SlotsConserved ==
  free + Cardinality({r \in Requests : req[r] # IdleReq}) = Slots

(* The approver stops resending a decision only when the broker has it.    *)
GrantedMeansTaken ==
  \A c \in Caps : ask[c].granted =>
    /\ ask[c].decision = "approved" => cap[c].approved
    /\ ask[c].decision = "denied" => cap[c].consumed

(* A decision reaches the broker, although calls are lost, time out and    *)
(* processes restart, unless the capability has ended meanwhile or the     *)
(* poll thread has died.                                                   *)
DecisionReachesBroker ==
  \A c \in Caps :
    ask[c].decision # "pending" ~>
      \/ ask[c].decision = "approved" /\ cap[c].approved
      \/ cap[c].consumed \/ c \in lapsed
      \/ cap[c].gen # gen \/ ~enabled
      \/ courier.stage = "dead"
=============================================================================
