------------------------- MODULE SmartRouterProofs -------------------------
(***************************************************************************)
(* The invariants of SmartRouter, for any number of requests and models,   *)
(* any quota, budget and threshold.                                        *)
(***************************************************************************)
EXTENDS SmartRouter, FiniteSetTheorems, SequenceTheorems, TLAPS

\* Requests that passed the guard and whose cost is not recorded yet.
Pending == {h \in Handlers :
              \/ req[h].at \in {"routing", "probing"}
              \/ req[h].at = "sent" /\ req[h].model # None}

(* Every request admitted was counted, by Redis or by the database, and    *)
(* each of them only counts where begin_request asks it.                   *)
EachIsCounted ==
  /\ admitted <= redis + counted
  /\ ha => counted = 0
  /\ ~shared => redis = 0
  /\ ha => shared

(* What the pending requests may still cost fits in the overrun.           *)
RoomForPending ==
  spent + 1 + Cardinality(Pending) * MaxCost <= Limit + Cardinality(Handlers) * MaxCost

(* One process has one section without an await at a time.                 *)
OneSection ==
  ~ha => \A g, h \in Handlers :
           /\ req[g].at \in {"routing", "probing", "recording"}
           /\ req[h].at \in {"routing", "probing", "recording"}
           => g = h

(* A request names its model while it records, and a failure is its own.   *)
RecordsItsModel ==
  \A h \in Handlers :
    /\ req[h].at \in {"probing", "recording"} => req[h].model \in Models
    /\ req[h].at = "recording" /\ req[h].status \in Qualifying => req[h].own

(* No row, as it is or as a request saw it, claims more failures than      *)
(* there is evidence for; a process sees the row as it is.                 *)
FailuresAreOwn ==
  /\ \A m \in Models : health[m].failures <= evidence[m]
  /\ \A h \in Handlers : req[h].at = "recording" =>
       /\ req[h].seen.failures <= evidence[req[h].model]
       /\ ~ha => /\ req[h].seen.failures = health[req[h].model].failures
                 /\ health[req[h].model].state = "OPEN" => req[h].seen.state = "OPEN"

IInv ==
  /\ TypeOK /\ EachIsCounted /\ RoomForPending
  /\ OneSection /\ RecordsItsModel /\ FailuresAreOwn /\ OpensOnOwnFailures

USE ModelsAssumption, HandlersAssumption, QuotaAssumption, CircuitAssumption

-----------------------------------------------------------------------------
(* Values that actions store have their types.                             *)
LEMMA IdleType == Idle \in Requests
  BY EmptySeq DEF Idle, Request, Requests, Phases, Statuses, NoRow, Rows, States

LEMMA ChoosingType ==
  ASSUME NEW at \in Phases, NEW m \in Models \cup {None}, NEW rest \in Seq(Models),
         NEW n \in 0 .. MaxRetries
  PROVE Choosing(at, m, rest, n) \in Requests
  BY DEF Choosing, Request, Requests, Phases, Statuses, NoRow, Rows, States

LEMMA AdmittedType == Choosing("admitted", None, << >>, 0) \in Requests
  <1>1. 0 \in 0 .. MaxRetries /\ << >> \in Seq(Models)
    BY EmptySeq
  <1> QED BY <1>1, ChoosingType DEF Phases

LEMMA SentType ==
  ASSUME NEW m \in Models \cup {None}, NEW n \in 0 .. MaxRetries, NEW own \in BOOLEAN
  PROVE Sent(m, n, own) \in Requests
  BY EmptySeq DEF Sent, Request, Requests, Phases, Statuses, NoRow, Rows, States

LEMMA SuccessType ==
  ASSUME NEW row \in Rows, NEW seen \in Rows PROVE Success(row, seen) \in Rows
  BY DEF Success, Rows, States

LEMMA FailureType ==
  ASSUME NEW row \in Rows, NEW seen \in Rows, NEW qualifies, NEW degraded \in BOOLEAN
  PROVE Failure(row, seen, qualifies, degraded) \in Rows
  BY DEF Failure, UpTo, Rows, States, Opens

LEMMA GotoType ==
  ASSUME TypeOK, NEW h \in Handlers, NEW r \in Requests, Goto(h, r)
  PROVE req' \in [Handlers -> Requests]
  BY DEF TypeOK, Goto

LEMMA TypeStep ==
  ASSUME TypeOK, RecordsItsModel, [Next]_vars PROVE TypeOK'
  <1>0. CASE UNCHANGED vars
    BY <1>0 DEF TypeOK, vars
  <1>1. ASSUME NEW h \in Handlers, AdmitByRedis(h) PROVE TypeOK'
    <2>1. Choosing("admitted", None, << >>, 0) \in Requests
      BY AdmittedType
    <2>2. req' \in [Handlers -> Requests]
      BY <1>1, <2>1, GotoType DEF AdmitByRedis, Admit
    <2>. QED BY <1>1, <2>2 DEF AdmitByRedis, Admit, TypeOK, Circuits
  <1>2. ASSUME NEW h \in Handlers, AdmitByDatabase(h) PROVE TypeOK'
    <2>1. Choosing("admitted", None, << >>, 0) \in Requests
      BY AdmittedType
    <2>2. req' \in [Handlers -> Requests]
      BY <1>2, <2>1, GotoType DEF AdmitByDatabase, Admit
    <2>3. redis' \in 0 .. Rpm
      BY <1>2 DEF AdmitByDatabase, CountedOrLost, TypeOK
    <2>. QED BY <1>2, <2>2, <2>3 DEF AdmitByDatabase, Admit, TypeOK, Circuits
  <1>3. ASSUME NEW h \in Handlers, CountedInVain(h) PROVE TypeOK'
    BY <1>3 DEF CountedInVain, TypeOK, Circuits
  <1>4. ASSUME NEW h \in Handlers, Explicit(h) PROVE TypeOK'
    BY <1>4 DEF Explicit, TypeOK, Requests, Phases, Rows, States, Opens, Statuses, Request, Idle, Choosing, Sent, NoRow, Goto, Quota, Circuits
  <1>5. ASSUME NEW h \in Handlers, Deny(h) PROVE TypeOK'
    BY <1>5 DEF Deny, TypeOK, Requests, Phases, Rows, States, Opens, Statuses, Request, Idle, Choosing, Sent, NoRow, Goto, Quota, Circuits
  <1>6. ASSUME NEW h \in Handlers, Guard(h) PROVE TypeOK'
    <2>1. PICK m \in Models :
            \/ Goto(h, Sent(m, 0, FALSE))
            \/ \E rest \in Routes(m), n \in 0 .. MaxRetries :
                 \/ Goto(h, Choosing("routing", None, rest, n))
                 \/ \E c \in Models : Goto(h, Choosing("probing", c, rest, n))
      BY <1>6 DEF Guard
    <2>2. \A rest \in Routes(m) : rest \in Seq(Models)
      BY DEF Routes
    <2>3. CASE Goto(h, Sent(m, 0, FALSE))
      <3>0. 0 \in 0 .. MaxRetries
        OBVIOUS
      <3>1. Sent(m, 0, FALSE) \in Requests
        BY <3>0, SentType
      <3>2. req' \in [Handlers -> Requests]
        BY <2>3, <3>1, GotoType
      <3>. QED BY <1>6, <3>2 DEF Guard, TypeOK, Quota, Circuits
    <2>4. ASSUME NEW rest \in Routes(m), NEW n \in 0 .. MaxRetries,
                 Goto(h, Choosing("routing", None, rest, n))
          PROVE TypeOK'
      <3>1. Choosing("routing", None, rest, n) \in Requests
        BY <2>2, ChoosingType DEF Phases
      <3>2. req' \in [Handlers -> Requests]
        BY <2>4, <3>1, GotoType
      <3>. QED BY <1>6, <3>2 DEF Guard, TypeOK, Quota, Circuits
    <2>5. ASSUME NEW rest \in Routes(m), NEW n \in 0 .. MaxRetries, NEW c \in Models,
                 Goto(h, Choosing("probing", c, rest, n))
          PROVE TypeOK'
      <3>1. Choosing("probing", c, rest, n) \in Requests
        BY <2>2, ChoosingType DEF Phases
      <3>2. req' \in [Handlers -> Requests]
        BY <2>5, <3>1, GotoType
      <3>. QED BY <1>6, <3>2 DEF Guard, TypeOK, Quota, Circuits
    <2>. QED BY <2>1, <2>3, <2>4, <2>5
  <1>7. ASSUME NEW h \in Handlers, Look(h) PROVE TypeOK'
    <2>. DEFINE r == req[h]
    <2>0. r.rest \in Seq(Models) /\ r.retries \in 0 .. MaxRetries
      BY DEF TypeOK, Requests
    <2>1. CASE r.rest = << >>
      BY <1>7, <2>1, IdleType DEF Look, TypeOK, Goto, Quota, Circuits
    <2>2. CASE r.rest # << >>
      <3>. DEFINE m == Head(r.rest)
      <3>2. m \in Models /\ Tail(r.rest) \in Seq(Models)
        BY <2>0, <2>2, HeadTailProperties
      <3>3. /\ Choosing("routing", None, Tail(r.rest), r.retries) \in Requests
            /\ Choosing("probing", m, << >>, r.retries) \in Requests
            /\ Sent(m, r.retries, FALSE) \in Requests
        BY <2>0, <3>2, ChoosingType, SentType, EmptySeq DEF Phases
      <3>4. \E q \in Requests : Goto(h, q)
        BY <1>7, <2>2, <3>3 DEF Look
      <3>. QED BY <1>7, <3>4 DEF Look, TypeOK, Goto, Quota, Circuits
    <2>. QED BY <2>1, <2>2
  <1>8. ASSUME NEW h \in Handlers, Probe(h) PROVE TypeOK'
    <2>. DEFINE r == req[h]
    <2>0. r.rest \in Seq(Models) /\ r.retries \in 0 .. MaxRetries /\ r.model \in Models
      BY <1>8 DEF Probe, TypeOK, Requests, RecordsItsModel
    <2>1. /\ Choosing("routing", None, r.rest, r.retries) \in Requests
          /\ Sent(r.model, r.retries, FALSE) \in Requests
      BY <2>0, ChoosingType, SentType DEF Phases
    <2>2. \E q \in Requests : Goto(h, q)
      BY <1>8, <2>1 DEF Probe
    <2>3. health' \in [Models -> Rows]
      BY <1>8, <2>0 DEF Probe, TypeOK, Rows, States
    <2>. QED BY <1>8, <2>2, <2>3 DEF Probe, TypeOK, Goto, Quota
  <1>9. ASSUME NEW h \in Handlers, Retry(h) PROVE TypeOK'
    BY <1>9 DEF Retry, TypeOK, Requests, Phases, Rows, States, Opens, Statuses, Request, Idle, Choosing, Sent, NoRow, Goto, Quota, Circuits
  <1>10. ASSUME NEW h \in Handlers, Unrecorded(h) PROVE TypeOK'
    BY <1>10 DEF Unrecorded, TypeOK, Requests, Phases, Rows, States, Opens, Statuses, Request, Idle, Choosing, Sent, NoRow, Goto, Quota, Circuits
  <1>11. ASSUME NEW h \in Handlers, NEW status \in Statuses \ {"none"}, Answer(h, status) PROVE TypeOK'
    BY <1>11 DEF Answer, TypeOK, Requests, Phases, Rows, States, Opens, Statuses, Request, Idle, Choosing, Sent, NoRow, Goto, Quota, Circuits
  <1>12. ASSUME NEW h \in Handlers, RecordHealth(h) PROVE TypeOK'
    <2>1. req' \in [Handlers -> Requests]
      BY <1>12, IdleType DEF RecordHealth, Goto, TypeOK
    <2>2. req[h].seen \in Rows /\ health[req[h].model] \in Rows
      BY <1>12 DEF RecordHealth, RecordsItsModel, TypeOK, Requests
    <2>. DEFINE r == req[h]
                row == health[r.model]
    <2>5. \A degraded \in BOOLEAN :
            /\ Success(row, r.seen) \in Rows
            /\ Failure(row, r.seen, r.status \in Qualifying, degraded) \in Rows
      BY <2>2, SuccessType, FailureType
    <2>6. \/ health' = health
          \/ \E new \in Rows : health' = [health EXCEPT ![r.model] = new]
      BY <1>12, <2>5 DEF RecordHealth, Circuits
    <2>3. health' \in [Models -> Rows]
      BY <2>6 DEF TypeOK
    <2>4. evidence' \in [Models -> 0 .. Threshold]
      BY <1>12 DEF RecordHealth, Circuits, Counted, UpTo, TypeOK
    <2>. QED BY <1>12, <2>1, <2>3, <2>4 DEF RecordHealth, Quota, TypeOK
  <1>13. ASSUME NEW m \in Models, Cooldown(m) PROVE TypeOK'
    BY <1>13 DEF Cooldown, TypeOK, Quota, Circuits, Rows, States, Opens
  <1>14. CASE NextMinute
    BY <1>14 DEF NextMinute, TypeOK, Quota, Circuits
  <1>15. CASE NextMonth
    BY <1>15 DEF NextMonth, TypeOK, Quota, Circuits
  <1>. QED BY <1>0, <1>1, <1>2, <1>3, <1>4, <1>5, <1>6, <1>7, <1>8, <1>9, <1>10, <1>11, <1>12, <1>13, <1>14, <1>15 DEF Next, Begin, Decide, Upstream

(* A request is admitted where it is counted, and only there.              *)
LEMMA CountStep ==
  ASSUME TypeOK, EachIsCounted, [Next]_vars PROVE EachIsCounted'
  <1>0. CASE UNCHANGED vars
    BY <1>0 DEF EachIsCounted, vars
  <1>1. ASSUME NEW h \in Handlers, AdmitByRedis(h) PROVE EachIsCounted'
    BY <1>1 DEF AdmitByRedis, Admit, EachIsCounted, TypeOK, Quota
  <1>2. ASSUME NEW h \in Handlers, AdmitByDatabase(h) PROVE EachIsCounted'
    <2>1. redis' = redis \/ (shared /\ redis' = redis + 1)
      BY <1>2 DEF AdmitByDatabase, CountedOrLost
    <2>. QED BY <1>2, <2>1 DEF AdmitByDatabase, Admit, EachIsCounted, TypeOK
  <1>3. ASSUME NEW h \in Handlers, CountedInVain(h) PROVE EachIsCounted'
    BY <1>3 DEF CountedInVain, EachIsCounted, TypeOK, Quota
  <1>4. ASSUME NEW h \in Handlers, Explicit(h) PROVE EachIsCounted'
    BY <1>4 DEF Explicit, EachIsCounted, TypeOK, Quota
  <1>5. ASSUME NEW h \in Handlers, Deny(h) PROVE EachIsCounted'
    BY <1>5 DEF Deny, EachIsCounted, TypeOK, Quota
  <1>6. ASSUME NEW h \in Handlers, Guard(h) PROVE EachIsCounted'
    BY <1>6 DEF Guard, EachIsCounted, TypeOK, Quota
  <1>7. ASSUME NEW h \in Handlers, Look(h) PROVE EachIsCounted'
    BY <1>7 DEF Look, EachIsCounted, TypeOK, Quota
  <1>8. ASSUME NEW h \in Handlers, Probe(h) PROVE EachIsCounted'
    BY <1>8 DEF Probe, EachIsCounted, TypeOK, Quota
  <1>9. ASSUME NEW h \in Handlers, Retry(h) PROVE EachIsCounted'
    BY <1>9 DEF Retry, EachIsCounted, TypeOK, Quota
  <1>10. ASSUME NEW h \in Handlers, Unrecorded(h) PROVE EachIsCounted'
    BY <1>10 DEF Unrecorded, EachIsCounted, TypeOK, Quota
  <1>11. ASSUME NEW h \in Handlers, NEW status \in Statuses \ {"none"}, Answer(h, status) PROVE EachIsCounted'
    BY <1>11 DEF Answer, EachIsCounted, TypeOK, Quota
  <1>12. ASSUME NEW h \in Handlers, RecordHealth(h) PROVE EachIsCounted'
    BY <1>12 DEF RecordHealth, EachIsCounted, TypeOK, Quota
  <1>13. ASSUME NEW m \in Models, Cooldown(m) PROVE EachIsCounted'
    BY <1>13 DEF Cooldown, EachIsCounted, TypeOK, Quota
  <1>14. CASE NextMinute
    BY <1>14 DEF NextMinute, EachIsCounted, TypeOK, Quota
  <1>15. CASE NextMonth
    BY <1>15 DEF NextMonth, EachIsCounted, TypeOK, Quota
  <1>. QED BY <1>0, <1>1, <1>2, <1>3, <1>4, <1>5, <1>6, <1>7, <1>8, <1>9, <1>10, <1>11, <1>12, <1>13, <1>14, <1>15 DEF Next, Begin, Decide, Upstream

(* Requests only become pending one at a time, below the limit, and their  *)
(* cost is at most MaxCost.                                                *)
LEMMA PendingFinite ==
  /\ IsFiniteSet(Pending) /\ IsFiniteSet(Handlers)
  /\ Cardinality(Pending) \in Nat /\ Cardinality(Handlers) \in Nat
  /\ Cardinality(Pending) <= Cardinality(Handlers)
  BY FS_Subset, FS_CardinalityType DEF Pending

LEMMA PendingFinite1 ==
  /\ IsFiniteSet(Pending')
  /\ Cardinality(Pending') \in Nat
  /\ Cardinality(Pending') <= Cardinality(Handlers)
  BY FS_Subset, FS_CardinalityType DEF Pending

LEMMA Monotone ==
  ASSUME NEW a \in Nat, NEW b \in Nat, a <= b PROVE a * MaxCost <= b * MaxCost
  <1>1. (b - a) * MaxCost \in Nat
    BY SMT
  <1>. QED BY <1>1, SMT

(* The room is enough for fewer pending requests, for as much spent more   *)
(* as one of them costs, and for all of them when nothing is spent above   *)
(* the limit.                                                              *)
LEMMA FewerPending ==
  ASSUME TypeOK, RoomForPending, spent' = spent, Pending' \subseteq Pending PROVE RoomForPending'
  <1>1. Cardinality(Pending') <= Cardinality(Pending)
    BY PendingFinite, FS_Subset
  <1>2. Cardinality(Pending') * MaxCost <= Cardinality(Pending) * MaxCost
    BY <1>1, PendingFinite, PendingFinite1, Monotone
  <1>. DEFINE a == Cardinality(Pending') * MaxCost
              b == Cardinality(Pending) * MaxCost
              c == Cardinality(Handlers) * MaxCost
  <1>3. a \in Nat /\ b \in Nat /\ c \in Nat
    BY PendingFinite, PendingFinite1, SMT
  <1>4. spent + 1 + b <= Limit + c
    BY DEF RoomForPending
  <1>5. a <= b
    BY <1>2
  <1>6. spent + 1 + a <= Limit + c
    <2>. HIDE DEF a, b, c
    <2>. QED BY <1>3, <1>4, <1>5 DEF TypeOK
  <1>. QED BY <1>6 DEF RoomForPending

LEMMA BelowLimit ==
  ASSUME TypeOK, spent' = spent \/ spent' = 0, spent' < Limit PROVE RoomForPending'
  <1>. DEFINE a == Cardinality(Pending') * MaxCost
              c == Cardinality(Handlers) * MaxCost
  <1>1. a <= c
    BY PendingFinite, PendingFinite1, Monotone
  <1>2. a \in Nat /\ c \in Nat
    BY PendingFinite, PendingFinite1, SMT
  <1>3. spent' + 1 + a <= Limit + c
    <2>. HIDE DEF a, c
    <2>. QED BY <1>1, <1>2 DEF TypeOK
  <1>. QED BY <1>3 DEF RoomForPending

LEMMA OneCharged ==
  ASSUME TypeOK, RoomForPending, NEW h \in Pending, NEW cost \in 0 .. MaxCost,
         spent' = spent + cost, Pending' = Pending \ {h}
  PROVE RoomForPending'
  <1>1. Cardinality(Pending') = Cardinality(Pending) - 1
    BY PendingFinite, FS_RemoveElement
  <1>. DEFINE a == Cardinality(Pending') * MaxCost
              b == Cardinality(Pending) * MaxCost
              c == Cardinality(Handlers) * MaxCost
  <1>2. b = a + MaxCost
    BY <1>1, PendingFinite, PendingFinite1, SMT
  <1>3. a \in Nat /\ b \in Nat /\ c \in Nat
    BY PendingFinite, PendingFinite1, SMT
  <1>4. spent + 1 + b <= Limit + c
    BY DEF RoomForPending
  <1>5. spent' + 1 + a <= Limit + c
    <2>. HIDE DEF a, b, c
    <2>. QED BY <1>2, <1>3, <1>4 DEF TypeOK
  <1>. QED BY <1>5 DEF RoomForPending

LEMMA RoomStep ==
  ASSUME TypeOK, RecordsItsModel, RoomForPending, [Next]_vars PROVE RoomForPending'
  <1>0. CASE UNCHANGED vars
    BY <1>0, FewerPending DEF Pending, vars
  <1>1. ASSUME NEW h \in Handlers, AdmitByRedis(h) PROVE RoomForPending'
    <2>1. Pending' \subseteq Pending
      BY <1>1 DEF AdmitByRedis, Admit, Pending, Goto, Request, Idle, Choosing, Sent, TypeOK
    <2>. QED BY <1>1, <2>1, FewerPending DEF AdmitByRedis, Admit, Quota
  <1>2. ASSUME NEW h \in Handlers, AdmitByDatabase(h) PROVE RoomForPending'
    <2>1. Pending' \subseteq Pending
      BY <1>2 DEF AdmitByDatabase, Admit, Pending, Goto, Request, Idle, Choosing, Sent, TypeOK
    <2>. QED BY <1>2, <2>1, FewerPending DEF AdmitByDatabase, Admit, Quota
  <1>3. ASSUME NEW h \in Handlers, CountedInVain(h) PROVE RoomForPending'
    BY <1>3, FewerPending DEF CountedInVain, Pending, Quota
  <1>4. ASSUME NEW h \in Handlers, Explicit(h) PROVE RoomForPending'
    <2>1. Pending' \subseteq Pending
      BY <1>4 DEF Explicit, Pending, Goto, Request, Idle, Choosing, Sent, TypeOK
    <2>. QED BY <1>4, <2>1, FewerPending DEF Explicit, Quota
  <1>5. ASSUME NEW h \in Handlers, Deny(h) PROVE RoomForPending'
    <2>1. Pending' \subseteq Pending
      BY <1>5 DEF Deny, Pending, Goto, Request, Idle, Choosing, Sent, TypeOK
    <2>. QED BY <1>5, <2>1, FewerPending DEF Deny, Quota
  <1>6. ASSUME NEW h \in Handlers, Guard(h) PROVE RoomForPending'
    BY <1>6, BelowLimit DEF Guard, TypeOK
  <1>7. ASSUME NEW h \in Handlers, Look(h) PROVE RoomForPending'
    <2>1. Pending' \subseteq Pending
      BY <1>7 DEF Look, Pending, Goto, Request, Idle, Choosing, Sent, TypeOK
    <2>. QED BY <1>7, <2>1, FewerPending DEF Look, Quota
  <1>8. ASSUME NEW h \in Handlers, Probe(h) PROVE RoomForPending'
    <2>1. Pending' \subseteq Pending
      BY <1>8 DEF Probe, Pending, Goto, Request, Idle, Choosing, Sent, TypeOK, RecordsItsModel
    <2>. QED BY <1>8, <2>1, FewerPending DEF Probe, Quota
  <1>9. ASSUME NEW h \in Handlers, Retry(h) PROVE RoomForPending'
    <2>1. Pending' \subseteq Pending
      BY <1>9 DEF Retry, Pending, Goto, Request, Idle, Choosing, Sent, TypeOK
    <2>. QED BY <1>9, <2>1, FewerPending DEF Retry, Quota
  <1>10. ASSUME NEW h \in Handlers, Unrecorded(h) PROVE RoomForPending'
    <2>1. Pending' \subseteq Pending
      BY <1>10 DEF Unrecorded, Pending, Goto, Request, Idle, Choosing, Sent, TypeOK
    <2>. QED BY <1>10, <2>1, FewerPending DEF Unrecorded, Quota
  <1>11. ASSUME NEW h \in Handlers, NEW status \in Statuses \ {"none"}, Answer(h, status) PROVE RoomForPending'
    <2>1. PICK cost \in 0 .. MaxCost : spent' = spent + cost
      BY <1>11 DEF Answer
    <2>2. h \in Pending
      BY <1>11 DEF Answer, Pending
    <2>3. Pending' = Pending \ {h}
      BY <1>11 DEF Answer, Pending, Goto, Request, TypeOK
    <2>. QED BY <2>1, <2>2, <2>3, OneCharged
  <1>12. ASSUME NEW h \in Handlers, RecordHealth(h) PROVE RoomForPending'
    <2>1. Pending' \subseteq Pending
      BY <1>12 DEF RecordHealth, Pending, Goto, Request, Idle, Choosing, Sent, TypeOK
    <2>. QED BY <1>12, <2>1, FewerPending DEF RecordHealth, Quota
  <1>13. ASSUME NEW m \in Models, Cooldown(m) PROVE RoomForPending'
    BY <1>13, FewerPending DEF Cooldown, Pending, Quota
  <1>14. CASE NextMinute
    BY <1>14, FewerPending DEF NextMinute, Pending, Quota
  <1>15. CASE NextMonth
    BY <1>15, BelowLimit DEF NextMonth
  <1>. QED BY <1>0, <1>1, <1>2, <1>3, <1>4, <1>5, <1>6, <1>7, <1>8, <1>9, <1>10, <1>11, <1>12, <1>13, <1>14, <1>15 DEF Next, Begin, Decide, Upstream

(* A section begins when no other is under way.                            *)
LEMMA SectionStep ==
  ASSUME TypeOK, OneSection, [Next]_vars PROVE OneSection'
  <1>0. CASE UNCHANGED vars
    BY <1>0 DEF OneSection, vars
  <1>1. ASSUME NEW h \in Handlers, AdmitByRedis(h) PROVE OneSection'
    BY <1>1 DEF AdmitByRedis, Admit, OneSection, Turn, Goto, Request, Idle, Choosing, Sent, TypeOK
  <1>2. ASSUME NEW h \in Handlers, AdmitByDatabase(h) PROVE OneSection'
    BY <1>2 DEF AdmitByDatabase, Admit, OneSection, Turn, Goto, Request, Idle, Choosing, Sent, TypeOK
  <1>3. ASSUME NEW h \in Handlers, CountedInVain(h) PROVE OneSection'
    BY <1>3 DEF CountedInVain, OneSection
  <1>4. ASSUME NEW h \in Handlers, Explicit(h) PROVE OneSection'
    BY <1>4 DEF Explicit, OneSection, Turn, Goto, Request, Idle, Choosing, Sent, TypeOK
  <1>5. ASSUME NEW h \in Handlers, Deny(h) PROVE OneSection'
    BY <1>5 DEF Deny, OneSection, Turn, Goto, Request, Idle, Choosing, Sent, TypeOK
  <1>6. ASSUME NEW h \in Handlers, Guard(h) PROVE OneSection'
    BY <1>6 DEF Guard, OneSection, Turn, Goto, Request, Idle, Choosing, Sent, TypeOK
  <1>7. ASSUME NEW h \in Handlers, Look(h) PROVE OneSection'
    BY <1>7 DEF Look, OneSection, Turn, Goto, Request, Idle, Choosing, Sent, TypeOK
  <1>8. ASSUME NEW h \in Handlers, Probe(h) PROVE OneSection'
    BY <1>8 DEF Probe, OneSection, Turn, Goto, Request, Idle, Choosing, Sent, TypeOK
  <1>9. ASSUME NEW h \in Handlers, Retry(h) PROVE OneSection'
    BY <1>9 DEF Retry, OneSection, Turn, Goto, Request, Idle, Choosing, Sent, TypeOK
  <1>10. ASSUME NEW h \in Handlers, Unrecorded(h) PROVE OneSection'
    BY <1>10 DEF Unrecorded, OneSection, Turn, Goto, Request, Idle, Choosing, Sent, TypeOK
  <1>11. ASSUME NEW h \in Handlers, NEW status \in Statuses \ {"none"}, Answer(h, status) PROVE OneSection'
    BY <1>11 DEF Answer, OneSection, Turn, Goto, Request, Idle, Choosing, Sent, TypeOK
  <1>12. ASSUME NEW h \in Handlers, RecordHealth(h) PROVE OneSection'
    BY <1>12 DEF RecordHealth, OneSection, Turn, Goto, Request, Idle, Choosing, Sent, TypeOK
  <1>13. ASSUME NEW m \in Models, Cooldown(m) PROVE OneSection'
    BY <1>13 DEF Cooldown, OneSection
  <1>14. CASE NextMinute
    BY <1>14 DEF NextMinute, OneSection
  <1>15. CASE NextMonth
    BY <1>15 DEF NextMonth, OneSection
  <1>. QED BY <1>0, <1>1, <1>2, <1>3, <1>4, <1>5, <1>6, <1>7, <1>8, <1>9, <1>10, <1>11, <1>12, <1>13, <1>14, <1>15 DEF Next, Begin, Decide, Upstream

LEMMA RecordStep ==
  ASSUME TypeOK, RecordsItsModel, [Next]_vars PROVE RecordsItsModel'
  <1>0. CASE UNCHANGED vars
    BY <1>0 DEF RecordsItsModel, vars
  <1>1. ASSUME NEW h \in Handlers, AdmitByRedis(h) PROVE RecordsItsModel'
    BY <1>1 DEF AdmitByRedis, Admit, RecordsItsModel, Goto, Request, Idle, Choosing, Sent, TypeOK
  <1>2. ASSUME NEW h \in Handlers, AdmitByDatabase(h) PROVE RecordsItsModel'
    BY <1>2 DEF AdmitByDatabase, Admit, RecordsItsModel, Goto, Request, Idle, Choosing, Sent, TypeOK
  <1>3. ASSUME NEW h \in Handlers, CountedInVain(h) PROVE RecordsItsModel'
    BY <1>3 DEF CountedInVain, RecordsItsModel
  <1>4. ASSUME NEW h \in Handlers, Explicit(h) PROVE RecordsItsModel'
    BY <1>4 DEF Explicit, RecordsItsModel, Goto, Request, Idle, Choosing, Sent, TypeOK
  <1>5. ASSUME NEW h \in Handlers, Deny(h) PROVE RecordsItsModel'
    BY <1>5 DEF Deny, RecordsItsModel, Goto, Request, Idle, Choosing, Sent, TypeOK
  <1>6. ASSUME NEW h \in Handlers, Guard(h) PROVE RecordsItsModel'
    BY <1>6 DEF Guard, RecordsItsModel, Goto, Request, Idle, Choosing, Sent, TypeOK
  <1>7. ASSUME NEW h \in Handlers, Look(h) PROVE RecordsItsModel'
    <2>1. CASE req[h].rest = << >>
      BY <1>7, <2>1 DEF Look, RecordsItsModel, Goto, Request, Idle, TypeOK
    <2>2. CASE req[h].rest # << >>
      <3>. DEFINE m == Head(req[h].rest)
      <3>1. m \in Models
        BY <2>2, HeadTailProperties DEF TypeOK, Requests
      <3>. QED BY <1>7, <2>2, <3>1 DEF Look, RecordsItsModel, Goto, Request, Choosing, Sent, TypeOK
    <2>. QED BY <2>1, <2>2
  <1>8. ASSUME NEW h \in Handlers, Probe(h) PROVE RecordsItsModel'
    BY <1>8 DEF Probe, RecordsItsModel, Goto, Request, Idle, Choosing, Sent, TypeOK
  <1>9. ASSUME NEW h \in Handlers, Retry(h) PROVE RecordsItsModel'
    BY <1>9 DEF Retry, RecordsItsModel, Goto, Request, Idle, Choosing, Sent, TypeOK
  <1>10. ASSUME NEW h \in Handlers, Unrecorded(h) PROVE RecordsItsModel'
    BY <1>10 DEF Unrecorded, RecordsItsModel, Goto, Request, Idle, Choosing, Sent, TypeOK
  <1>11. ASSUME NEW h \in Handlers, NEW status \in Statuses \ {"none"}, Answer(h, status) PROVE RecordsItsModel'
    BY <1>11 DEF Answer, RecordsItsModel, Goto, Request, Idle, Choosing, Sent, TypeOK, Requests
  <1>12. ASSUME NEW h \in Handlers, RecordHealth(h) PROVE RecordsItsModel'
    BY <1>12 DEF RecordHealth, RecordsItsModel, Goto, Request, Idle, Choosing, Sent, TypeOK
  <1>13. ASSUME NEW m \in Models, Cooldown(m) PROVE RecordsItsModel'
    BY <1>13 DEF Cooldown, RecordsItsModel
  <1>14. CASE NextMinute
    BY <1>14 DEF NextMinute, RecordsItsModel
  <1>15. CASE NextMonth
    BY <1>15 DEF NextMonth, RecordsItsModel
  <1>. QED BY <1>0, <1>1, <1>2, <1>3, <1>4, <1>5, <1>6, <1>7, <1>8, <1>9, <1>10, <1>11, <1>12, <1>13, <1>14, <1>15 DEF Next, Begin, Decide, Upstream

(* Evidence is recorded with the failure it is for; in one process nothing *)
(* happens between what record reads and what it writes.                   *)
LEMMA FailureStep ==
  ASSUME TypeOK, OneSection, RecordsItsModel, FailuresAreOwn, OpensOnOwnFailures, [Next]_vars
  PROVE (FailuresAreOwn /\ OpensOnOwnFailures)'
  <1>0. CASE UNCHANGED vars
    BY <1>0 DEF FailuresAreOwn, OpensOnOwnFailures, vars
  <1>1. ASSUME NEW h \in Handlers, AdmitByRedis(h) PROVE (FailuresAreOwn /\ OpensOnOwnFailures)'
    <2>1. /\ req'[h].at # "recording" /\ UNCHANGED <<ha, health, evidence>>
          /\ \A g \in Handlers \ {h} : req'[g] = req[g]
      BY <1>1 DEF AdmitByRedis, Admit, Goto, Request, Idle, Choosing, Sent, Circuits, TypeOK
    <2>. QED BY <2>1 DEF FailuresAreOwn, OpensOnOwnFailures
  <1>2. ASSUME NEW h \in Handlers, AdmitByDatabase(h) PROVE (FailuresAreOwn /\ OpensOnOwnFailures)'
    <2>1. /\ req'[h].at # "recording" /\ UNCHANGED <<ha, health, evidence>>
          /\ \A g \in Handlers \ {h} : req'[g] = req[g]
      BY <1>2 DEF AdmitByDatabase, Admit, Goto, Request, Idle, Choosing, Sent, Circuits, TypeOK
    <2>. QED BY <2>1 DEF FailuresAreOwn, OpensOnOwnFailures
  <1>3. ASSUME NEW h \in Handlers, CountedInVain(h) PROVE (FailuresAreOwn /\ OpensOnOwnFailures)'
    BY <1>3 DEF CountedInVain, FailuresAreOwn, OpensOnOwnFailures, Circuits
  <1>4. ASSUME NEW h \in Handlers, Explicit(h) PROVE (FailuresAreOwn /\ OpensOnOwnFailures)'
    <2>1. /\ req'[h].at # "recording" /\ UNCHANGED <<ha, health, evidence>>
          /\ \A g \in Handlers \ {h} : req'[g] = req[g]
      BY <1>4 DEF Explicit, Goto, Request, Idle, Choosing, Sent, Circuits, TypeOK
    <2>. QED BY <2>1 DEF FailuresAreOwn, OpensOnOwnFailures
  <1>5. ASSUME NEW h \in Handlers, Deny(h) PROVE (FailuresAreOwn /\ OpensOnOwnFailures)'
    <2>1. /\ req'[h].at # "recording" /\ UNCHANGED <<ha, health, evidence>>
          /\ \A g \in Handlers \ {h} : req'[g] = req[g]
      BY <1>5 DEF Deny, Goto, Request, Idle, Choosing, Sent, Circuits, TypeOK
    <2>. QED BY <2>1 DEF FailuresAreOwn, OpensOnOwnFailures
  <1>6. ASSUME NEW h \in Handlers, Guard(h) PROVE (FailuresAreOwn /\ OpensOnOwnFailures)'
    <2>1. /\ req'[h].at # "recording" /\ UNCHANGED <<ha, health, evidence>>
          /\ \A g \in Handlers \ {h} : req'[g] = req[g]
      BY <1>6 DEF Guard, Goto, Request, Idle, Choosing, Sent, Circuits, TypeOK
    <2>. QED BY <2>1 DEF FailuresAreOwn, OpensOnOwnFailures
  <1>7. ASSUME NEW h \in Handlers, Look(h) PROVE (FailuresAreOwn /\ OpensOnOwnFailures)'
    <2>1. /\ req'[h].at # "recording" /\ UNCHANGED <<ha, health, evidence>>
          /\ \A g \in Handlers \ {h} : req'[g] = req[g]
      BY <1>7 DEF Look, Goto, Request, Idle, Choosing, Sent, Circuits, TypeOK
    <2>. QED BY <2>1 DEF FailuresAreOwn, OpensOnOwnFailures
  <1>8. ASSUME NEW h \in Handlers, Probe(h) PROVE (FailuresAreOwn /\ OpensOnOwnFailures)'
    <2>1. \A m \in Models : /\ health'[m].failures = health[m].failures
                            /\ health'[m].state = "OPEN" => health[m].state = "OPEN"
      BY <1>8 DEF Probe, TypeOK, Rows
    <2>2. /\ req'[h].at # "recording" /\ UNCHANGED <<ha, evidence>>
          /\ \A g \in Handlers \ {h} : req'[g] = req[g]
      BY <1>8 DEF Probe, Goto, Request, Choosing, Sent, TypeOK
    <2>3. \A g \in Handlers : req'[g].at = "recording" => g # h /\ req[g].at = "recording" /\ req[g].model \in Models
      BY <2>2 DEF RecordsItsModel
    <2>4. OpensOnOwnFailures'
      BY <2>1, <2>2 DEF OpensOnOwnFailures
    <2>5. \A m \in Models : health'[m].failures <= evidence'[m]
      BY <2>1, <2>2 DEF FailuresAreOwn
    <2>6. ASSUME NEW g \in Handlers, req'[g].at = "recording"
          PROVE /\ req'[g].seen.failures <= evidence'[req'[g].model]
                /\ ~ha' => /\ req'[g].seen.failures = health'[req'[g].model].failures
                           /\ health'[req'[g].model].state = "OPEN" => req'[g].seen.state = "OPEN"
      <3>1. req'[g] = req[g] /\ req[g].at = "recording" /\ req[g].model \in Models
        BY <2>2, <2>3, <2>6
      <3>2. /\ req[g].seen.failures <= evidence[req[g].model]
            /\ ~ha => /\ req[g].seen.failures = health[req[g].model].failures
                      /\ health[req[g].model].state = "OPEN" => req[g].seen.state = "OPEN"
        BY <3>1 DEF FailuresAreOwn
      <3>3. /\ health'[req[g].model].failures = health[req[g].model].failures
            /\ health'[req[g].model].state = "OPEN" => health[req[g].model].state = "OPEN"
        BY <2>1, <3>1
      <3>. QED BY <2>2, <3>1, <3>2, <3>3
    <2>. QED BY <2>4, <2>5, <2>6 DEF FailuresAreOwn
  <1>9. ASSUME NEW h \in Handlers, Retry(h) PROVE (FailuresAreOwn /\ OpensOnOwnFailures)'
    <2>1. /\ req'[h].at # "recording" /\ UNCHANGED <<ha, health, evidence>>
          /\ \A g \in Handlers \ {h} : req'[g] = req[g]
      BY <1>9 DEF Retry, Goto, Request, Idle, Choosing, Sent, Circuits, TypeOK
    <2>. QED BY <2>1 DEF FailuresAreOwn, OpensOnOwnFailures
  <1>10. ASSUME NEW h \in Handlers, Unrecorded(h) PROVE (FailuresAreOwn /\ OpensOnOwnFailures)'
    <2>1. /\ req'[h].at # "recording" /\ UNCHANGED <<ha, health, evidence>>
          /\ \A g \in Handlers \ {h} : req'[g] = req[g]
      BY <1>10 DEF Unrecorded, Goto, Request, Idle, Choosing, Sent, Circuits, TypeOK
    <2>. QED BY <2>1 DEF FailuresAreOwn, OpensOnOwnFailures
  <1>11. ASSUME NEW h \in Handlers, NEW status \in Statuses \ {"none"}, Answer(h, status) PROVE (FailuresAreOwn /\ OpensOnOwnFailures)'
    <2>1. /\ req[h].model \in Models /\ req'[h].model = req[h].model
          /\ req'[h].seen = health[req[h].model] /\ UNCHANGED <<ha, health, evidence>>
          /\ \A g \in Handlers \ {h} : req'[g] = req[g]
      BY <1>11 DEF Answer, Goto, Request, Circuits, TypeOK, Requests
    <2>. QED BY <2>1 DEF FailuresAreOwn, OpensOnOwnFailures
  <1>12. ASSUME NEW h \in Handlers, RecordHealth(h) PROVE (FailuresAreOwn /\ OpensOnOwnFailures)'
    <2>. DEFINE r == req[h]
                m == r.model
                row == health[m]
    <2>1. /\ r.at = "recording" /\ m \in Models /\ row \in Rows /\ r.seen \in Rows
          /\ r.status \in Statuses /\ r.own \in BOOLEAN
          /\ evidence[m] \in 0 .. Threshold
          /\ row.failures <= evidence[m] /\ r.seen.failures <= evidence[m]
          /\ r.status \in Qualifying => r.own
          /\ ~ha => r.seen.failures = row.failures /\ (row.state = "OPEN" => r.seen.state = "OPEN")
      BY <1>12 DEF RecordHealth, RecordsItsModel, FailuresAreOwn, TypeOK, Requests
    <2>2. \A g \in Handlers \ {h} : /\ req'[g] = req[g]
                                    /\ ~ha => req[g].at # "recording"
      BY <1>12, <2>1 DEF RecordHealth, Goto, OneSection, TypeOK
    <2>3. req'[h].at # "recording"
      BY <1>12 DEF RecordHealth, Goto, Idle, Request, TypeOK
    <2>7. ASSUME \A n \in Models : health'[n].failures <= evidence'[n],
                 \A n \in Models : evidence'[n] \in 0 .. Threshold,
                 \A n \in Models : ha => evidence[n] <= evidence'[n]
          PROVE FailuresAreOwn'
      <3>1. ASSUME NEW g \in Handlers, req'[g].at = "recording"
            PROVE /\ req'[g].seen.failures <= evidence'[req'[g].model]
                  /\ ha
        <4>0. g # h
          BY <2>3, <3>1
        <4>3. req'[g] = req[g] /\ (~ha => req[g].at # "recording")
          BY <2>2, <4>0
        <4>1. g # h /\ req'[g] = req[g] /\ ha
          BY <4>0, <4>3, <3>1 DEF TypeOK
        <4>2. req[g].model \in Models /\ req[g].seen.failures \in 0 .. Threshold
          BY <3>1, <4>1 DEF RecordsItsModel, TypeOK, Requests, Rows
        <4>. QED BY <2>7, <3>1, <4>1, <4>2 DEF FailuresAreOwn, TypeOK
      <3>2. ha' = ha
        BY <1>12 DEF RecordHealth
      <3>. QED BY <2>7, <3>1, <3>2 DEF FailuresAreOwn
    <2>4. CASE UNCHANGED Circuits
      <3>1. \A n \in Models : /\ health'[n].failures <= evidence'[n]
                              /\ evidence'[n] \in 0 .. Threshold
                              /\ ha => evidence[n] <= evidence'[n]
        BY <2>4 DEF FailuresAreOwn, Circuits, TypeOK
      <3>2. FailuresAreOwn'
        <4>1. /\ \A n \in Models : health'[n].failures <= evidence'[n]
              /\ \A n \in Models : evidence'[n] \in 0 .. Threshold
              /\ \A n \in Models : ha => evidence[n] <= evidence'[n]
          BY <3>1
        <4>. QED BY <2>7, <4>1
      <3>3. OpensOnOwnFailures'
        BY <2>4 DEF OpensOnOwnFailures, Circuits
      <3>. QED BY <3>2, <3>3
    <2>5. CASE Counted(r) /\ health' = [health EXCEPT ![m] = Success(row, r.seen)] /\ r.status = "ok"
      <3>1. evidence'[m] >= (IF ha THEN evidence[m] ELSE 0)
        BY <2>1, <2>5 DEF Counted, UpTo, TypeOK
      <3>2. evidence'[m] \in 0 .. Threshold /\ \A n \in Models \ {m} : evidence'[n] = evidence[n]
        BY <2>1, <2>5 DEF Counted, UpTo, TypeOK
      <3>3. health'[m] = Success(row, r.seen) /\ \A n \in Models \ {m} : health'[n] = health[n]
        BY <2>1, <2>5 DEF TypeOK
      <3>4. health'[m].failures <= evidence'[m]
        BY <2>1, <3>1, <3>2, <3>3 DEF Success, Rows
      <3>5. health'[m].state = "OPEN" => evidence'[m] = Threshold
        BY <2>1, <3>1, <3>2, <3>3 DEF Success, Rows, OpensOnOwnFailures
      <3>6. \A n \in Models : /\ health'[n].failures <= evidence'[n]
                              /\ health'[n].state = "OPEN" => evidence'[n] = Threshold
        BY <3>2, <3>3, <3>4, <3>5 DEF FailuresAreOwn, OpensOnOwnFailures
      <3>7. \A n \in Models : ha => evidence[n] <= evidence'[n]
        BY <3>1, <3>2 DEF TypeOK
      <3>8. /\ \A n \in Models : health'[n].failures <= evidence'[n]
            /\ \A n \in Models : evidence'[n] \in 0 .. Threshold
        BY <2>1, <3>2, <3>6 DEF TypeOK
      <3>9. FailuresAreOwn'
        BY <2>7, <3>7, <3>8
      <3>10. OpensOnOwnFailures'
        BY <3>6 DEF OpensOnOwnFailures
      <3>. QED BY <3>9, <3>10
    <2>6. ASSUME NEW degraded \in BOOLEAN, Counted(r), r.status # "ok",
                 health' = [health EXCEPT ![m] = Failure(row, r.seen, r.status \in Qualifying, degraded)]
          PROVE (FailuresAreOwn /\ OpensOnOwnFailures)'
      <3>1. evidence'[m] = IF r.own THEN UpTo(evidence[m] + 1) ELSE evidence[m]
        BY <2>1, <2>6 DEF Counted, TypeOK
      <3>2. evidence'[m] \in 0 .. Threshold /\ \A n \in Models \ {m} : evidence'[n] = evidence[n]
        BY <2>1, <2>6, <3>1 DEF Counted, UpTo, TypeOK
      <3>3. health'[m] = Failure(row, r.seen, r.status \in Qualifying, degraded)
            /\ \A n \in Models \ {m} : health'[n] = health[n]
        BY <2>1, <2>6 DEF TypeOK
      <3>4. health'[m].failures <= evidence'[m] /\ (health'[m].state = "OPEN" => evidence'[m] = Threshold)
        BY <2>1, <3>1, <3>3 DEF Failure, UpTo, Rows, OpensOnOwnFailures
      <3>6. \A n \in Models : /\ health'[n].failures <= evidence'[n]
                              /\ health'[n].state = "OPEN" => evidence'[n] = Threshold
        BY <3>2, <3>3, <3>4 DEF FailuresAreOwn, OpensOnOwnFailures
      <3>7. \A n \in Models : ha => evidence[n] <= evidence'[n]
        BY <2>1, <3>1, <3>2 DEF TypeOK, UpTo
      <3>8. /\ \A n \in Models : health'[n].failures <= evidence'[n]
            /\ \A n \in Models : evidence'[n] \in 0 .. Threshold
        BY <2>1, <3>2, <3>6 DEF TypeOK
      <3>9. FailuresAreOwn'
        BY <2>7, <3>7, <3>8
      <3>10. OpensOnOwnFailures'
        BY <3>6 DEF OpensOnOwnFailures
      <3>. QED BY <3>9, <3>10
    <2>. QED BY <1>12, <2>4, <2>5, <2>6 DEF RecordHealth, Circuits
  <1>13. ASSUME NEW m \in Models, Cooldown(m) PROVE (FailuresAreOwn /\ OpensOnOwnFailures)'
    BY <1>13 DEF Cooldown, FailuresAreOwn, OpensOnOwnFailures, TypeOK, Rows
  <1>14. CASE NextMinute
    BY <1>14 DEF NextMinute, FailuresAreOwn, OpensOnOwnFailures, Circuits
  <1>15. CASE NextMonth
    BY <1>15 DEF NextMonth, FailuresAreOwn, OpensOnOwnFailures, Circuits
  <1>. QED BY <1>0, <1>1, <1>2, <1>3, <1>4, <1>5, <1>6, <1>7, <1>8, <1>9, <1>10, <1>11, <1>12, <1>13, <1>14, <1>15 DEF Next, Begin, Decide, Upstream

-----------------------------------------------------------------------------
LEMMA InitInv == Init => IInv
  <1>. SUFFICES ASSUME Init PROVE IInv
    OBVIOUS
  <1>1. TypeOK
    BY IdleType DEF Init, TypeOK, NoRow, Rows, States
  <1>2. EachIsCounted
    BY DEF Init, EachIsCounted
  <1>3. RoomForPending
    <2>1. Pending = {}
      BY DEF Init, Pending, Idle, Request
    <2>2. Cardinality(Pending) = 0
      BY <2>1, FS_EmptySet
    <2>3. Cardinality(Handlers) * MaxCost \in Nat /\ 0 * MaxCost = 0
      BY PendingFinite
    <2>. DEFINE c == Cardinality(Handlers) * MaxCost
    <2>4. spent + 1 <= Limit + c
      <3>1. c \in Nat /\ spent = 0
        BY <2>3 DEF Init
      <3>. HIDE DEF c
      <3>. QED BY <3>1
    <2>. QED BY <2>2, <2>3, <2>4 DEF RoomForPending, Init
  <1>4. OneSection /\ RecordsItsModel /\ FailuresAreOwn /\ OpensOnOwnFailures
    BY DEF Init, OneSection, RecordsItsModel, FailuresAreOwn, OpensOnOwnFailures, Idle, Request, NoRow
  <1>. QED BY <1>1, <1>2, <1>3, <1>4 DEF IInv

LEMMA NextInv == IInv /\ [Next]_vars => IInv'
  BY TypeStep, CountStep, RoomStep, SectionStep, RecordStep, FailureStep DEF IInv

LEMMA Invariance == Spec => []IInv
  BY InitInv, NextInv, PTL DEF Spec

(* Counters, rows and requests keep their shape.                           *)
THEOREM TypeCorrect == Spec => []TypeOK
  BY Invariance, PTL DEF IInv

(* The quota of a minute, for any number of replicas and any quota.        *)
THEOREM QuotaIsKept == Spec => []QuotaHolds
  <1>1. IInv => QuotaHolds
    BY DEF IInv, TypeOK, EachIsCounted, QuotaHolds
  <1>. QED BY <1>1, Invariance, PTL

(* The month's overrun, for any number of requests and any prices.         *)
THEOREM OverrunBound == Spec => []OverrunIsBounded
  <1>1. IInv => OverrunIsBounded
    <2>. SUFFICES ASSUME IInv PROVE OverrunIsBounded
      OBVIOUS
    <2>. DEFINE b == Cardinality(Pending) * MaxCost
                c == Cardinality(Handlers) * MaxCost
    <2>1. b \in Nat /\ c \in Nat
      BY PendingFinite, SMT
    <2>2. spent + 1 + b <= Limit + c /\ spent \in Nat
      BY DEF IInv, RoomForPending, TypeOK
    <2>3. spent + 1 <= Limit + c
      <3>. HIDE DEF b, c
      <3>. QED BY <2>1, <2>2
    <2>. QED BY <2>3 DEF OverrunIsBounded
  <1>. QED BY <1>1, Invariance, PTL

(* Circuits, for any number of models, replicas and retries.               *)
THEOREM OpenForCause == Spec => []OpensOnOwnFailures
  BY Invariance, PTL DEF IInv

=============================================================================
