----------------------------- MODULE SmartRouter -----------------------------
(***************************************************************************)
(* Smart Router: one chat request, from its admission (request quota) over *)
(* the routing decision (budget guard, pipelines, circuit breakers) and    *)
(* the attempts at the upstream to the telemetry the next decision reads.  *)
(*                                                                         *)
(* With ha every handler is a replica of its own, and the steps of their   *)
(* transactions on the shared database interleave.  Otherwise the handlers *)
(* are requests of one event loop, where only an await lets another run.   *)
(* The quota is that of one identity.  The tier (heuristics, sticky        *)
(* session, policy) only shows in which models a request may ask for.      *)
(*                                                                         *)
(* An operator whose comment starts with "Fault" is not part of the model: *)
(* it is the definition after it with a mistake in it.                     *)
(***************************************************************************)
EXTENDS Naturals, Sequences, FiniteSets

CONSTANTS
  Handlers,   \* requests under way together
  Models,     \* upstream models
  Standard,   \* the models of the standard and strong tiers, which stand in
  Strong,     \* for a model whose circuit is open
  None,       \* no model
  Rpm,        \* requests a minute of the identity
  Limit,      \* monthly budget
  MaxCost,    \* bound: what one answer can cost
  Threshold,  \* failures in a row that open a circuit
  MaxRetries  \* most retries a pipeline can ask for

ASSUME ModelsAssumption == {Standard, Strong} \subseteq Models /\ None \notin Models
ASSUME HandlersAssumption == IsFiniteSet(Handlers)
ASSUME QuotaAssumption == Rpm \in Nat \ {0} /\ Limit \in Nat \ {0} /\ MaxCost \in Nat
ASSUME CircuitAssumption == Threshold \in Nat \ {0} /\ MaxRetries \in Nat

VARIABLES
  ha,        \* replicas on a shared database, or one process
  shared,    \* Redis is configured
  redis,     \* its count of this minute's requests
  counted,   \* the database's count
  admitted,  \* requests let through this minute
  spent,     \* sum of this month's RouteEvent costs
  health,    \* the provider_health row of each model
  evidence,  \* requests its model failed itself; see Counted
  req        \* the request each handler is serving

vars == <<ha, shared, redis, counted, admitted, spent, health, evidence, req>>

-----------------------------------------------------------------------------
\* COOLED: CIRCUIT_OPEN, with circuit_open_until in the past.
Opens == {"OPEN", "COOLED"}
States == {"NONE", "HEALTHY", "DEGRADED", "HALF_OPEN"} \cup Opens
\* failures: consecutive_failures, counted no further than the threshold.
Rows == [state: States, failures: 0 .. Threshold]
NoRow == [state |-> "NONE", failures |-> 0]

\* retry: 408, 425, 429, 500, 502, 503, 504; failed: another 5xx, or httpx
\* could not reach the upstream; refused: another 4xx.
Statuses == {"none", "ok", "retry", "failed", "refused"}
Qualifying == {"retry", "failed"}

Phases == {"idle", "admitted", "routing", "probing", "sent", "recording"}
\* rest: models to look at, in order; own: the model itself, which is asked in
\* the first attempt, failed; seen: its row, as record read it.
Requests == [at: Phases, model: Models \cup {None}, rest: Seq(Models),
             retries: 0 .. MaxRetries, status: Statuses, own: BOOLEAN, seen: Rows]
Request(at, model, rest, retries, status, own, seen) ==
  [at |-> at, model |-> model, rest |-> rest, retries |-> retries,
   status |-> status, own |-> own, seen |-> seen]
Idle == Request("idle", None, << >>, 0, "none", FALSE, NoRow)
Choosing(at, model, rest, retries) == Request(at, model, rest, retries, "none", FALSE, NoRow)
Sent(model, retries, own) == Request("sent", model, << >>, retries, "none", own, NoRow)

Goto(h, r) == req' = [req EXCEPT ![h] = r]

\* Between two awaits a process has the event loop to itself.
Turn(h) == ha \/ \A g \in Handlers \ {h} : req[g].at \notin {"routing", "probing", "recording"}

Quota == <<redis, counted, admitted>>
Circuits == <<health, evidence>>

Init ==
  /\ ha \in BOOLEAN /\ shared \in BOOLEAN /\ (ha => shared)
  /\ redis = 0 /\ counted = 0 /\ admitted = 0
  /\ spent = 0
  /\ health = [m \in Models |-> NoRow]
  /\ evidence = [m \in Models |-> 0]
  /\ req = [h \in Handlers |-> Idle]

-----------------------------------------------------------------------------
(* begin_request: the quota *)

Admit(h) ==
  /\ req[h].at = "idle" /\ Turn(h)
  /\ Goto(h, Choosing("admitted", None, << >>, 0))
  /\ admitted' = admitted + 1
  /\ UNCHANGED <<ha, shared, spent, Circuits>>

\* The Lua script counts a request only if it is within the quota.
AdmitByRedis(h) ==
  /\ shared /\ redis < Rpm
  /\ redis' = redis + 1
  /\ Admit(h)
  /\ UNCHANGED counted

\* Without Redis, or when it does not answer (it may have counted): the
\* RateCounter row.  Replicas refuse the request instead.
CountedOrLost == {redis} \cup (IF shared /\ redis < Rpm THEN {redis + 1} ELSE {})
\* Fault: replicas fall back as well.
AdmitByDatabaseAnyway(h) ==
  /\ counted < Rpm
  /\ counted' = counted + 1
  /\ redis' \in CountedOrLost
  /\ Admit(h)
AdmitByDatabase(h) ==
  /\ ~ha /\ counted < Rpm
  /\ counted' = counted + 1
  /\ redis' \in CountedOrLost
  /\ Admit(h)

\* Redis counted, its answer is lost, and the request is refused.
CountedInVain(h) ==
  /\ req[h].at = "idle" /\ Turn(h)
  /\ shared /\ redis < Rpm /\ (ha \/ counted = Rpm)
  /\ redis' = redis + 1
  /\ UNCHANGED <<ha, shared, counted, admitted, spent, Circuits, req>>

-----------------------------------------------------------------------------
(* The decision *)

\* An explicit model bypasses the guard, the circuits and the telemetry.
Explicit(h) ==
  /\ req[h].at = "admitted" /\ Turn(h)
  /\ Goto(h, Sent(None, 0, FALSE))
  /\ UNCHANGED <<ha, shared, Quota, spent, Circuits>>

\* The decision, a policy, the tiers of the key or the budget refuse.
Deny(h) ==
  /\ req[h].at = "admitted" /\ Turn(h)
  /\ Goto(h, Idle)
  /\ UNCHANGED <<ha, shared, Quota, spent, Circuits>>

\* The models to look at for a request that asks for m: m, then those of the
\* higher tiers unless they are m.
Routes(m) ==
  LET higher(a) == IF a = m THEN << >> ELSE <<a>>
  IN {<<m>> \o higher(Strong), <<m>> \o higher(Standard) \o higher(Strong)}

\* finalize_routing up to the first look at a circuit.  The model is the tier's,
\* the profile's, or what a pipeline put in its place, which may have looked at
\* another candidate on the way.  In observe mode no circuit is asked.
\* Fault: the budget only stops requests once it is exceeded.
GuardBeyond(h) ==
  /\ req[h].at = "admitted" /\ Turn(h)
  /\ spent <= Limit
  /\ \E m \in Models :
       \/ Goto(h, Sent(m, 0, FALSE))
       \/ \E rest \in Routes(m), n \in 0 .. MaxRetries :
            Goto(h, Choosing("routing", None, rest, n))
  /\ UNCHANGED <<ha, shared, Quota, spent, Circuits>>
Guard(h) ==
  /\ req[h].at = "admitted" /\ Turn(h)
  /\ spent < Limit
  /\ \E m \in Models :
       \/ Goto(h, Sent(m, 0, FALSE))
       \/ \E rest \in Routes(m), n \in 0 .. MaxRetries :
            \/ Goto(h, Choosing("routing", None, rest, n))
            \/ \E c \in Models :
                 /\ health[c].state = "COOLED"
                 /\ Goto(h, Choosing("probing", c, rest, n))
  /\ UNCHANGED <<ha, shared, Quota, spent, Circuits>>

\* available: the first model that is not open.  The answer is 503 when there
\* is none, "all safe routes are circuit-open".
Look(h) ==
  LET r == req[h] IN
  /\ r.at = "routing"
  /\ IF r.rest = << >> THEN Goto(h, Idle)
     ELSE LET m == Head(r.rest) IN
       CASE health[m].state = "OPEN" ->
              Goto(h, Choosing("routing", None, Tail(r.rest), r.retries))
         [] health[m].state = "COOLED" ->
              Goto(h, Choosing("probing", m, << >>, r.retries))
         [] OTHER -> Goto(h, Sent(m, r.retries, FALSE))
  /\ UNCHANGED <<ha, shared, Quota, spent, Circuits>>

\* The first to look after the cooldown tries the model, and so does everyone
\* until the next answer.
Probe(h) ==
  LET r == req[h] IN
  /\ r.at = "probing"
  /\ health' = [health EXCEPT ![r.model].state = "HALF_OPEN"]
  /\ Goto(h, IF r.rest = << >> THEN Sent(r.model, r.retries, FALSE)
                                ELSE Choosing("routing", None, r.rest, r.retries))
  /\ UNCHANGED <<ha, shared, Quota, spent, evidence>>

-----------------------------------------------------------------------------
(* The attempts and record_route.  A retry goes to the pipeline's fallback models or to the *)
(* same one, and looks at no circuit: which it is makes no difference.     *)

\* Fault: as often as the status asks for it.
RetryAlways(h) ==
  LET r == req[h] IN
  /\ r.at = "sent" /\ r.model # None /\ Turn(h)
  /\ Goto(h, Sent(r.model, r.retries - 1, TRUE))
  /\ UNCHANGED <<ha, shared, Quota, spent, Circuits>>
Retry(h) ==
  LET r == req[h] IN
  /\ r.at = "sent" /\ r.retries > 0 /\ Turn(h)
  /\ Goto(h, Sent(r.model, r.retries - 1, TRUE))
  /\ UNCHANGED <<ha, shared, Quota, spent, Circuits>>

\* The answer to an explicit request, or one the database does not take the
\* telemetry of.
Unrecorded(h) ==
  /\ req[h].at = "sent" /\ Turn(h)
  /\ Goto(h, Idle)
  /\ UNCHANGED <<ha, shared, Quota, spent, Circuits>>

\* record_route: the RouteEvent is committed, and record reads the model's row.
\* A stream has no usage to charge.
Answer(h, status) ==
  LET r == req[h] IN
  /\ r.at = "sent" /\ r.model # None /\ Turn(h)
  /\ status = "retry" => r.retries = 0
  /\ \E cost \in 0 .. (IF status = "ok" THEN MaxCost ELSE 0) : spent' = spent + cost
  /\ Goto(h, Request("recording", r.model, << >>, 0, status,
                     r.own \/ status \in Qualifying, health[r.model]))
  /\ UNCHANGED <<ha, shared, Quota, Circuits>>

UpTo(n) == IF n > Threshold THEN Threshold ELSE n

\* The row after record, which writes the columns it changed from what it saw.
\* The error rate is not kept: below the threshold a failure may or may not make
\* the model DEGRADED.
Success(row, seen) ==
  [state |-> IF seen.state # "HEALTHY" THEN "HEALTHY" ELSE row.state,
   failures |-> IF seen.failures # 0 THEN 0 ELSE row.failures]
\* Fault: any error counts.
FailureOfAnyKind(row, seen, qualifies, degraded) ==
  LET now == UpTo(seen.failures + 1) IN
  [state |-> CASE now = Threshold /\ (seen.state \notin Opens \/ row.state \in Opens) -> "OPEN"
               [] now < Threshold /\ degraded -> "DEGRADED"
               [] now < Threshold /\ seen.state = "NONE" -> "HEALTHY"
               [] OTHER -> row.state,
   failures |-> now]
Failure(row, seen, qualifies, degraded) ==
  LET now == IF qualifies THEN UpTo(seen.failures + 1) ELSE seen.failures IN
  [state |-> CASE now = Threshold /\ (seen.state \notin Opens \/ row.state \in Opens) -> "OPEN"
               [] now < Threshold /\ degraded /\ seen.state # "DEGRADED" -> "DEGRADED"
               [] now < Threshold /\ seen.state = "NONE" -> "HEALTHY"
               [] OTHER -> row.state,
   failures |-> IF qualifies THEN now ELSE row.failures]

\* What speaks against a model: requests in which it failed itself.  In one
\* process a recorded success clears it; between replicas a success may be
\* overwritten by one that had read the row before.
Counted(r) ==
  evidence' = [evidence EXCEPT ![r.model] =
    IF r.own THEN UpTo(@ + 1) ELSE IF r.status = "ok" /\ ~ha THEN 0 ELSE @]

RecordHealth(h) ==
  LET r == req[h]
      row == health[r.model]
  IN
  /\ r.at = "recording"
  /\ Goto(h, Idle)
  /\ IF r.seen.state = "NONE" /\ row.state # "NONE"  \* a second INSERT
       THEN UNCHANGED Circuits
       ELSE /\ \E degraded \in BOOLEAN :
                 health' = [health EXCEPT ![r.model] =
                   IF r.status = "ok" THEN Success(row, r.seen)
                   ELSE Failure(row, r.seen, r.status \in Qualifying, degraded)]
            /\ Counted(r)
  /\ UNCHANGED <<ha, shared, Quota, spent>>

-----------------------------------------------------------------------------
(* The clock *)

Cooldown(m) ==
  /\ health[m].state = "OPEN"
  /\ health' = [health EXCEPT ![m].state = "COOLED"]
  /\ UNCHANGED <<ha, shared, Quota, spent, evidence, req>>

NextMinute ==
  /\ redis' = 0 /\ counted' = 0 /\ admitted' = 0
  /\ UNCHANGED <<ha, shared, spent, Circuits, req>>

NextMonth ==
  /\ spent' = 0
  /\ UNCHANGED <<ha, shared, Quota, Circuits, req>>

-----------------------------------------------------------------------------
Begin(h) == AdmitByRedis(h) \/ AdmitByDatabase(h) \/ CountedInVain(h)
Decide(h) == Explicit(h) \/ Deny(h) \/ Guard(h) \/ Look(h) \/ Probe(h)
Upstream(h) ==
  \/ Retry(h) \/ Unrecorded(h)
  \/ \E status \in Statuses \ {"none"} : Answer(h, status)

Next ==
  \/ \E h \in Handlers : Begin(h) \/ Decide(h) \/ Upstream(h) \/ RecordHealth(h)
  \/ \E m \in Models : Cooldown(m)
  \/ NextMinute
  \/ NextMonth

Spec == Init /\ [][Next]_vars

-----------------------------------------------------------------------------
(* Properties *)

(* Counters and requests keep their shape.                                 *)
TypeOK ==
  /\ ha \in BOOLEAN /\ shared \in BOOLEAN
  /\ redis \in 0 .. Rpm /\ counted \in 0 .. Rpm
  /\ admitted \in Nat /\ spent \in Nat
  /\ health \in [Models -> Rows]
  /\ evidence \in [Models -> 0 .. Threshold]
  /\ req \in [Handlers -> Requests]

(* No minute lets more than the quota through, from any number of replicas *)
(* and with a Redis that loses answers.  A single process whose Redis      *)
(* fails goes on with a count of its own: then it is twice the quota.      *)
QuotaHolds ==
  admitted <= IF shared /\ ~ha THEN 2 * Rpm ELSE Rpm

(* The budget guard reads what earlier requests have recorded, and those   *)
(* still under way are not in it: the month can end above the limit, by    *)
(* what the requests that passed the guard together can cost and no more.  *)
OverrunIsBounded == spent + 1 <= Limit + Cardinality(Handlers) * MaxCost

(* A circuit is open only for a model that has itself failed Threshold     *)
(* requests, whatever the pipeline's other models answered in its place,   *)
(* though counters are read and written in separate steps and a request's  *)
(* last status is charged to the model it asked for first.                 *)
OpensOnOwnFailures ==
  \A m \in Models : health[m].state = "OPEN" => evidence[m] = Threshold

=============================================================================
