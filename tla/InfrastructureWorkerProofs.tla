---------------------- MODULE InfrastructureWorkerProofs ----------------------
(***************************************************************************)
(* Theorems about InfrastructureWorker, for every set of plans, tickets    *)
(* and calls, and with no bound on boots, changes by others or restarts.   *)
(*                                                                         *)
(* The argument rests on what the devices cannot take back: a boot is      *)
(* counted, a change of the VLAN gives it a new version, and a controller  *)
(* that was once given a plan is never idle again.  So a call that changed *)
(* something leaves a state other than the one its plan was previewed      *)
(* with, and it stays another.                                             *)
(***************************************************************************)
EXTENDS InfrastructureWorker, TLAPS

\* A call that is being served knows its ticket, and the ticket its plan.
CallsKnown ==
  \A h \in Handlers :
    IF run[h].stage = "idle" THEN run[h] = IdleRun
    ELSE /\ run[h].ticket \in Tickets
         /\ PlanOf(h) \in Plans
         /\ plan[PlanOf(h)] # NoPlan

WorkerInv == TypeOK /\ CallsKnown

-----------------------------------------------------------------------------
(* Shapes                                                                  *)

LEMMA ConstantRows ==
  /\ IdleRun \in Runs /\ IdleRun.stage = "idle" /\ IdleRun.ticket = None
  /\ None \notin Plans /\ None \notin Tickets /\ None \notin Nat /\ "disk" \notin Plans
  BY BoundsAssumption DEF IdleRun, Runs, Stages

\* What a served call's plan looks like.
LEMMA Known ==
  ASSUME WorkerInv, NEW h \in Handlers, run[h].stage # "idle"
  PROVE  /\ run[h].ticket \in Tickets /\ PlanOf(h) \in Plans
         /\ ticket[run[h].ticket] = PlanOf(h)
         /\ plan[PlanOf(h)] \in PlanRows /\ Op(h) \in Ops /\ Seen(h) \in Previews
<1>1. run[h].ticket \in Tickets /\ PlanOf(h) \in Plans /\ plan[PlanOf(h)] # NoPlan
  BY DEF WorkerInv, CallsKnown
<1>2. plan[PlanOf(h)] \in PlanRows
  BY <1>1 DEF WorkerInv, TypeOK
<1> QED BY <1>1, <1>2 DEF PlanRows, Op, Seen, PlanOf

LEMMA ToType ==
  ASSUME run \in [Handlers -> Runs], NEW h \in Handlers, NEW stage \in Stages, To(h, stage)
  PROVE  run' \in [Handlers -> Runs] /\ run'[h] = [run[h] EXCEPT !.stage = stage]
         /\ \A g \in Handlers \ {h} : run'[g] = run[g]
  BY DEF To, Runs

LEMMA EndType ==
  ASSUME run \in [Handlers -> Runs], NEW h \in Handlers, NEW stage \in Stages
  PROVE  /\ Fresh(h, stage) \in Runs
         /\ Fresh(h, stage).stage = stage /\ Fresh(h, stage).ticket = run[h].ticket
         /\ Fresh(h, stage).mark = 0
  BY DEF Fresh, IdleRun, Runs

LEMMA SnapshotType ==
  ASSUME TypeOK, NEW op \in Ops
  PROVE  Snapshot(op) \in Previews
<1>1. server.power \in {"on", "off"} /\ server.boot \in {"pxe", "hdd"} /\ server.boots \in Nat
  BY DEF TypeOK, Servers
<1>2. vlan.name \in Plans \cup {"other", None} /\ vlan.version \in Nat
  BY DEF TypeOK, Vlans
<1>3. Etag \in Etags
  BY <1>2 DEF Etag, Etags
<1>4. controller \in Controllers
  BY DEF TypeOK
<1>5. /\ Snapshot(op).power \in {"on", "off", None} /\ Snapshot(op).boot \in {"pxe", "hdd", None}
      /\ Snapshot(op).boots \in Nat \cup {None}
  BY <1>1 DEF Snapshot
<1>6. /\ Snapshot(op).controller \in Controllers \cup {None}
      /\ Snapshot(op).name \in Plans \cup {"other", None} /\ Snapshot(op).etag \in Etags
  BY <1>2, <1>3, <1>4 DEF Snapshot, Etags
<1> QED BY <1>5, <1>6 DEF Snapshot, Previews

-----------------------------------------------------------------------------
(* What the devices do                                                     *)

\* A power command is counted as a boot, or leaves the server off.
LEMMA PowerFlow ==
  ASSUME server \in Servers, controller \in Controllers, NEW command, PowerDone(command)
  PROVE  /\ server' \in Servers
         /\ server'.image \in Plans => controller.state \in Active
         /\ \/ command \in {"on", "restart"} /\ server'.boots = server.boots + 1
            \/ /\ command = "force-off"
               /\ server'.power = "off" /\ server'.boot = server.boot
               /\ server'.boots = server.boots /\ server'.image = None
<1>1. CASE command = "force-off"
  <2>1. server' = Off
    BY <1>1 DEF PowerDone
  <2> QED BY <1>1, <2>1, ConstantRows DEF Off, Servers
<1>2. CASE command # "force-off"
  <2>1. command \in {"on", "restart"} /\ server' = Booted
    BY <1>2 DEF PowerDone
  <2> QED BY <2>1, ConstantRows DEF Booted, Servers, Controllers
<1> QED BY <1>1, <1>2
-----------------------------------------------------------------------------
(* What a step changes                                                     *)

\* A step of a call that has its ticket: the call keeps it, and nothing that the
\* calls share changes but the devices and the set of those with an effect.
Serves(h) ==
  \/ Probe(h) \/ Apply(h) \/ Verify(h) \/ GiveUp(h)
  \/ PxeStep(h)

\* The rows of plans, tickets and calls as all steps of a served call leave them.
ServedFrame(h) ==
  /\ run[h].stage # "idle"
  /\ run' \in [Handlers -> Runs]
  /\ run'[h].ticket = run[h].ticket /\ run'[h].stage # "idle"
  /\ \A g \in Handlers \ {h} : run'[g] = run[g]
  /\ effective' \in {effective, effective \cup {h}}
  /\ UNCHANGED <<bmc, disk, granted, used, counts>>

LEMMA Serving ==
  ASSUME WorkerInv, NEW h \in Handlers, Serves(h)
  PROVE  ServedFrame(h)
<1> USE DEF ServedFrame, WorkerInv, TypeOK
<1>1. run \in [Handlers -> Runs]
  OBVIOUS
<1>2. CASE Probe(h) \/ ReadPower(h) \/ Dark(h)
  <2>1. server.boots \in Nat
    BY DEF Servers
  <2>2. \E r \in Runs : /\ run' = [run EXCEPT ![h] = r]
                        /\ r.ticket = run[h].ticket /\ r.stage # "idle"
    <3>1. CASE Probe(h)
      <4> DEFINE r == [run[h] EXCEPT
            !.mark = IF Op(h) = "restart" THEN server.boots ELSE 0,
            !.stage = IF Op(h) \in PxeOps THEN "preparing"
                      ELSE IF NeedsChange(h) THEN "applying" ELSE "verifying"]
      <4>1. r \in Runs /\ r.ticket = run[h].ticket /\ r.stage # "idle"
        BY <1>1, <2>1 DEF Runs, Stages
      <4>2. run' = [run EXCEPT ![h] = r]
        BY <3>1, <1>1 DEF Probe, Runs
      <4> QED BY <4>1, <4>2
    <3>2. CASE ReadPower(h)
      <4> DEFINE r == [run[h] EXCEPT
            !.mark = IF bmc = "redfish" THEN server.boots ELSE 0,
            !.want = IF server.power = "on" /\ bmc = "redfish" THEN "restart" ELSE "on",
            !.stage = IF server.power = "on" /\ bmc = "ipmi" THEN "cutting" ELSE "pushing"]
      <4>1. r \in Runs /\ r.ticket = run[h].ticket /\ r.stage # "idle"
        BY <1>1, <2>1 DEF Runs, Stages
      <4>2. run' = [run EXCEPT ![h] = r]
        BY <3>2, <1>1 DEF ReadPower, Runs
      <4> QED BY <4>1, <4>2
    <3>3. CASE Dark(h)
      <4> DEFINE r == [run[h] EXCEPT !.stage = "pushing", !.want = "on"]
      <4>1. r \in Runs /\ r.ticket = run[h].ticket /\ r.stage # "idle"
        BY <1>1 DEF Runs, Stages
      <4>2. run' = [run EXCEPT ![h] = r]
        BY <3>3, <1>1 DEF Dark, Runs
      <4> QED BY <4>1, <4>2
    <3> QED BY <1>2, <3>1, <3>2, <3>3
  <2> QED BY <1>1, <1>2, <2>2 DEF Probe, ReadPower, Dark, Look, devices, granted, counts
<1>3. ASSUME NEW stage \in Stages \ {"idle"}, End(h, stage)
      PROVE  /\ run' \in [Handlers -> Runs]
             /\ run'[h].ticket = run[h].ticket /\ run'[h].stage # "idle"
             /\ \A g \in Handlers \ {h} : run'[g] = run[g]
  BY <1>1, <1>3, EndType DEF End
<1>4. ASSUME NEW stage \in Stages \ {"idle"}, To(h, stage)
      PROVE  /\ run' \in [Handlers -> Runs]
             /\ run'[h].ticket = run[h].ticket /\ run'[h].stage # "idle"
             /\ \A g \in Handlers \ {h} : run'[g] = run[g]
  <2>1. run'[h] = [run[h] EXCEPT !.stage = stage] /\ run[h] \in Runs
    BY <1>1, <1>4, ToType
  <2> QED BY <1>1, <1>4, <2>1, ToType DEF Runs
<1>5. CASE Verify(h) \/ GiveUp(h) \/ PoweredUp(h) \/ HostReady(h)
  <2>1. \E stage \in Stages \ {"idle"} : End(h, stage)
    BY <1>5 DEF Verify, GiveUp, PoweredUp, HostReady, Stages, Ended, End
  <2>2. run[h].stage # "idle"
    BY <1>5 DEF Verify, GiveUp, PoweredUp, HostReady
  <2> QED BY <1>3, <1>5, <2>1, <2>2
        DEF Verify, GiveUp, PoweredUp, HostReady, Look, devices, granted, counts
<1>6. CASE Apply(h) \/ Prepare(h) \/ Arm(h) \/ Armed(h) \/ Start(h) \/ Complete(h)
  <2>1. \E stage \in Stages \ {"idle"} : To(h, stage)
    BY <1>6 DEF Apply, Prepare, Arm, Armed, Start, Complete, Stages
  <2>2. run[h].stage # "idle"
    BY <1>6 DEF Apply, Prepare, Arm, Armed, Start, Complete
  <2>3. UNCHANGED <<bmc, disk, granted, used, counts>>
    BY <1>6 DEF Apply, Prepare, Arm, Armed, Start, Complete, Still, Look, devices, granted, counts
  <2>4. effective' \in {effective, effective \cup {h}}
    BY <1>6 DEF Apply, Prepare, Arm, Armed, Start, Complete, Still, Look
  <2> QED BY <1>4, <2>1, <2>2, <2>3, <2>4
<1>7. ASSUME NEW from \in Stages \ {"idle"}, NEW command, NEW to \in Stages \ {"idle"},
             Push(h, from, command, to)
      PROVE  ServedFrame(h)
  <2>1. To(h, to) /\ run[h].stage # "idle"
    BY <1>7 DEF Push
  <2> QED BY <1>4, <1>7, <2>1 DEF Push, Still
<1>8. CASE Push(h, "cutting", "force-off", "dark")
  BY <1>7, <1>8 DEF Stages
<1>9. CASE Push(h, "pushing", run[h].want, "booting")
  BY <1>7, <1>9 DEF Stages
<1> QED BY <1>2, <1>5, <1>6, <1>8, <1>9 DEF Serves, PxeStep
\* What the devices do not take back: a boot is counted, and without one a
\* server that is off stays off, a boot target that is set stays set, and no
\* image is loaded; a VLAN that changes gets a new version; a controller with a
\* plan stays busy with one, and completes only what the server has loaded.
Flow ==
  /\ server' \in Servers /\ controller' \in Controllers /\ vlan' \in Vlans
  /\ \/ server'.boots > server.boots
     \/ /\ server'.boots = server.boots
        /\ server.power = "off" => server'.power = "off"
        /\ server.boot = "pxe" => server'.boot = "pxe"
        /\ server'.image \in Plans => server'.image = server.image
  /\ server'.image \in Plans => server'.image = server.image \/ controller.state \in Active
  /\ vlan' = vlan \/ vlan'.version > vlan.version
  /\ controller' = controller \/ controller'.state # "idle"
  /\ controller'.state = "complete" => controller' = controller \/ server.image \in Plans

LEMMA Calm ==
  ASSUME TypeOK, UNCHANGED <<server, controller, vlan>>
  PROVE  Flow
  BY DEF TypeOK, Flow, Servers

LEMMA PowerFlows ==
  ASSUME TypeOK, NEW command, PowerDone(command), UNCHANGED <<controller, vlan>>
  PROVE  Flow
  BY PowerFlow, ConstantRows DEF TypeOK, Flow, Servers

LEMMA PutFlows ==
  ASSUME WorkerInv, NEW h \in Handlers, run[h].stage # "idle", Put(h),
         UNCHANGED <<server, controller>>
  PROVE  Flow /\ vlan'.version = vlan.version + 1
<1>1. vlan' \in Vlans /\ vlan'.version = vlan.version + 1 /\ vlan.version \in Nat
  BY Known DEF Put, WorkerInv, TypeOK, Vlans
<1> QED BY <1>1 DEF WorkerInv, TypeOK, Flow, Servers

LEMMA BootSetFlows ==
  ASSUME TypeOK, server' = [server EXCEPT !.boot = "pxe"], UNCHANGED <<controller, vlan>>
  PROVE  Flow
  BY DEF TypeOK, Flow, Servers

LEMMA ServedFlow ==
  ASSUME WorkerInv, NEW h \in Handlers, Serves(h)
  PROVE  Flow
<1> USE DEF WorkerInv
<1>1. CASE Apply(h)
  <2>1. CASE Change(h) /\ UNCHANGED controller
    BY <1>1, <2>1, PowerFlows, PutFlows, BootSetFlows DEF Change, Apply
  <2> QED BY <1>1, <2>1, Calm DEF Apply
<1>2. CASE Prepare(h)
  <2>1. controller' \in Controllers /\ controller'.state = "requested"
    BY <1>2, Known DEF Prepare, Controllers, Active
  <2> QED BY <1>2, <2>1 DEF Prepare, Flow, TypeOK, Servers
<1>3. CASE Arm(h)
  BY <1>3, BootSetFlows, Calm DEF Arm
<1>4. ASSUME NEW from, NEW command, NEW to, Push(h, from, command, to)
      PROVE  Flow
  BY <1>4, PowerFlows, Calm DEF Push
<1>5. CASE \/ Probe(h) \/ Verify(h) \/ GiveUp(h) \/ Armed(h) \/ ReadPower(h)
           \/ Dark(h) \/ PoweredUp(h) \/ Start(h) \/ Complete(h) \/ HostReady(h)
  BY <1>5, Calm DEF Probe, Verify, GiveUp, Armed, ReadPower, Dark, PoweredUp, Start,
                    Complete, HostReady, Look, devices
<1> QED BY <1>1, <1>2, <1>3, <1>4, <1>5 DEF Serves, PxeStep

LEMMA InstallFlow ==
  ASSUME TypeOK, Install
  PROVE  /\ Flow /\ server.image \in Plans /\ disk' \in Plans \cup {None}
         /\ UNCHANGED <<bmc, plan, ticket, used, run, effective, counts>>
         /\ server'.boots = server.boots
<1>1. server.image \in Plans /\ vlan' = vlan
  BY DEF Install
<1>2. server' \in Servers /\ server'.boots = server.boots /\ server'.power = server.power
      /\ server'.boot = server.boot /\ server'.image \in {server.image, "disk"}
  BY DEF Install, TypeOK, Servers
<1>3. controller' \in Controllers
  BY DEF Install, TypeOK, Controllers, Active
<1>4. controller' = controller \/ controller'.state # "idle"
  BY DEF Install, TypeOK, Controllers
<1>5. "disk" \notin Plans
  BY BoundsAssumption
<1>6. disk' \in Plans \cup {None}
  BY <1>1 DEF Install, TypeOK
<1> QED BY <1>1, <1>2, <1>3, <1>4, <1>5, <1>6 DEF Install, granted, TypeOK, Flow, Servers

LEMMA FlowStep ==
  ASSUME WorkerInv, [Next]_vars
  PROVE  Flow
<1> USE DEF WorkerInv
<1>1. ASSUME NEW h \in Handlers, HandlerStep(h)
      PROVE  Flow
  BY <1>1, ServedFlow, Calm DEF HandlerStep, Serves, Accept, devices
<1>2. CASE Install
  BY <1>2, InstallFlow
<1>3. CASE InstallFails
  BY <1>3 DEF InstallFails, TypeOK, Flow, Controllers, Servers
<1>4. CASE ChangedOutside
  <2>1. CASE \E command \in PowerOps : PowerDone(command) /\ UNCHANGED <<controller, vlan>>
    BY <2>1, PowerFlows
  <2>2. CASE \E n \in {"other", None} : vlan' = [name |-> n, version |-> vlan.version + 1]
    BY <1>4, <2>2 DEF ChangedOutside, Flow, TypeOK, Vlans, Servers
  <2> QED BY <1>4, <2>1, <2>2 DEF ChangedOutside
<1>5. CASE Restart \/ UNCHANGED vars \/ \E p \in Plans, op \in Ops : Preview(p, op)
  BY <1>5, Calm DEF Restart, vars, devices, Preview
<1> QED BY <1>1, <1>2, <1>3, <1>4, <1>5 DEF Next
-----------------------------------------------------------------------------
(* Types, and what every call knows                                        *)

\* The installer, others and nobody leave plans, tickets and calls alone.
Aside == UNCHANGED <<bmc, granted, used, run, effective, restarts>>

LEMMA Cases ==
  ASSUME [Next]_vars
  PROVE  \/ \E h \in Handlers, t \in Tickets, p \in Plans : Accept(h, t, p)
         \/ \E h \in Handlers : Serves(h)
         \/ \E p \in Plans, op \in Ops : Preview(p, op)
         \/ Restart
         \/ Aside
<1>1. CASE Install \/ InstallFails \/ ChangedOutside \/ UNCHANGED vars
  BY <1>1 DEF Install, InstallFails, ChangedOutside, Aside, vars, counts
<1>2. CASE \E h \in Handlers : HandlerStep(h)
  BY <1>2 DEF HandlerStep, Serves
<1> QED BY <1>1, <1>2 DEF Next

LEMMA Accepting ==
  ASSUME WorkerInv, NEW h \in Handlers, NEW t \in Tickets, NEW p \in Plans, Accept(h, t, p)
  PROVE  /\ run' \in [Handlers -> Runs] /\ run[h] = IdleRun
         /\ run'[h].stage = "probing" /\ run'[h].ticket = t /\ run'[h].mark = 0
         /\ \A g \in Handlers \ {h} : run'[g] = run[g]
         /\ ticket' \in [Tickets -> Plans \cup {None}] /\ ticket'[t] = p /\ plan[p] # NoPlan
         /\ \A s \in Tickets : ticket[s] # None => ticket'[s] = ticket[s]
         /\ t \notin used /\ used' = used \cup {t}
         /\ UNCHANGED <<bmc, server, disk, controller, vlan, plan, effective, outside, restarts>>
<1>1. [IdleRun EXCEPT !.stage = "probing", !.ticket = t] \in Runs
  BY DEF IdleRun, Runs, Stages
<1>2. run \in [Handlers -> Runs] /\ ticket \in [Tickets -> Plans \cup {None}]
  BY DEF WorkerInv, TypeOK
<1> QED BY <1>1, <1>2 DEF Accept, devices, counts, IdleRun

LEMMA Previewing ==
  ASSUME WorkerInv, NEW p \in Plans, NEW op \in Ops, Preview(p, op)
  PROVE  /\ plan' \in [Plans -> PlanRows \cup {NoPlan}] /\ plan[p] = NoPlan
         /\ plan'[p] = [op |-> op, seen |-> Snapshot(op)]
         /\ \A q \in Plans \ {p} : plan'[q] = plan[q]
         /\ UNCHANGED <<bmc, server, disk, controller, vlan, ticket, used, run, effective,
                        outside, restarts>>
<1>1. [op |-> op, seen |-> Snapshot(op)] \in PlanRows
  BY SnapshotType DEF WorkerInv, PlanRows
<1>2. plan \in [Plans -> PlanRows \cup {NoPlan}]
  BY DEF WorkerInv, TypeOK
<1> QED BY <1>1, <1>2 DEF Preview, devices, counts

LEMMA Restarting ==
  ASSUME WorkerInv, Restart
  PROVE  /\ run' \in [Handlers -> Runs] /\ used' = {} /\ restarts' = restarts + 1
         /\ \A h \in Handlers :
              \/ run'[h] = run[h] /\ run[h].stage \in Ended \cup {"idle"}
              \/ /\ run[h].stage \notin Ended \cup {"idle"} /\ run'[h].stage = "ERROR"
                 /\ run'[h].ticket = run[h].ticket /\ run'[h].mark = 0
         /\ UNCHANGED <<bmc, server, disk, controller, vlan, plan, ticket, effective, outside>>
<1>1. run \in [Handlers -> Runs]
  BY DEF WorkerInv, TypeOK
<1>2. "ERROR" \in Stages
  BY DEF Stages, Ended
<1>3. \A h \in Handlers : Fresh(h, "ERROR") \in Runs
  BY <1>1, <1>2, EndType
<1> QED BY <1>1, <1>2, <1>3, EndType DEF Restart, devices, granted

LEMMA WorkerStep ==
  ASSUME WorkerInv, [Next]_vars
  PROVE  WorkerInv'
<1>1. TypeOK'
  <2>1. server' \in Servers /\ controller' \in Controllers /\ vlan' \in Vlans
    BY FlowStep DEF Flow
  <2>2. disk' \in Plans \cup {None} /\ bmc' \in {"redfish", "ipmi"} /\ outside' \in Nat
    <3>1. CASE Install
      BY <3>1, InstallFlow DEF WorkerInv, TypeOK, counts
    <3>2. CASE ~Install
      <4>1. disk' = disk /\ bmc' = bmc /\ outside' \in {outside, outside + 1}
        <5>1. ASSUME NEW h \in Handlers, Serves(h)
              PROVE  disk' = disk /\ bmc' = bmc /\ outside' = outside
          BY <5>1, Serving DEF ServedFrame, counts
        <5> QED BY <3>2, <5>1, Accepting, Previewing, Restarting
                DEF Next, HandlerStep, Serves, InstallFails, ChangedOutside, vars, devices, counts
      <4> QED BY <4>1 DEF WorkerInv, TypeOK
    <3> QED BY <3>1, <3>2
  <2> DEFINE Rest ==
        /\ plan \in [Plans -> PlanRows \cup {NoPlan}] /\ ticket \in [Tickets -> Plans \cup {None}]
        /\ used \subseteq Tickets /\ run \in [Handlers -> Runs]
        /\ effective \subseteq Handlers /\ restarts \in Nat
  <2>3. Rest'
    <3>1. ASSUME NEW h \in Handlers, NEW t \in Tickets, NEW p \in Plans, Accept(h, t, p)
          PROVE  Rest'
      BY <3>1, Accepting DEF WorkerInv, TypeOK
    <3>2. ASSUME NEW h \in Handlers, Serves(h)
          PROVE  Rest'
      BY <3>2, Serving DEF ServedFrame, WorkerInv, TypeOK, granted, counts
    <3>3. ASSUME NEW p \in Plans, NEW op \in Ops, Preview(p, op)
          PROVE  Rest'
      BY <3>3, Previewing DEF WorkerInv, TypeOK
    <3>4. CASE Restart
      BY <3>4, Restarting DEF WorkerInv, TypeOK
    <3>5. CASE Aside
      BY <3>5 DEF Aside, granted, WorkerInv, TypeOK
    <3> HIDE DEF Rest
    <3> QED BY <3>1, <3>2, <3>3, <3>4, <3>5, Cases
  <2> QED BY <2>1, <2>2, <2>3 DEF TypeOK
<1>2. CallsKnown'
  <2>1. ASSUME NEW h \in Handlers, NEW t \in Tickets, NEW p \in Plans, Accept(h, t, p)
        PROVE  CallsKnown'
    <3>1. \A g \in Handlers \ {h} : run[g].stage # "idle" => ticket'[run[g].ticket] = PlanOf(g)
      BY <2>1, Known, Accepting, ConstantRows
    <3> QED BY <2>1, <3>1, Known, Accepting DEF WorkerInv, CallsKnown, PlanOf
  <2>2. ASSUME NEW h \in Handlers, Serves(h)
        PROVE  CallsKnown'
    BY <2>2, Serving DEF ServedFrame, granted, WorkerInv, CallsKnown, PlanOf
  <2>3. ASSUME NEW p \in Plans, NEW op \in Ops, Preview(p, op)
        PROVE  CallsKnown'
    BY <2>3, Previewing DEF WorkerInv, CallsKnown, PlanOf
  <2>4. CASE Restart
    BY <2>4, Restarting DEF WorkerInv, CallsKnown, PlanOf
  <2>5. CASE Aside
    BY <2>5 DEF Aside, granted, WorkerInv, CallsKnown, PlanOf
  <2> QED BY <2>1, <2>2, <2>3, <2>4, <2>5, Cases
<1> QED BY <1>1, <1>2 DEF WorkerInv
-----------------------------------------------------------------------------
(* What a preview tells, later on                                          *)

\* The image of a finished installation is on the disk, and its installer is gone.
DiskInstalled ==
  controller.state = "complete" => disk = controller.plan /\ server.image \notin Plans

\* The devices only move on from what a plan was previewed with.
EtagPast(p) ==
  LET seen == plan[p].seen
  IN  IF plan[p].op = "vlan.ensure" THEN seen.etag # None =>
           /\ seen.etag <= vlan.version
           /\ seen.etag = vlan.version => seen.name = vlan.name
      ELSE seen.etag = None
BootsPast(p) ==
  bmc = "redfish" /\ plan[p].op # "vlan.ensure" =>
    plan[p].seen.boots \in Nat /\ plan[p].seen.boots <= server.boots
ControllerPast(p) ==
  LET seen == plan[p].seen
  IN  plan[p].op \in PxeOps =>
        /\ seen.controller \in Controllers /\ seen.controller.plan # p
        /\ bmc = "redfish" /\ seen.controller.state = "complete" =>
             server.boots > seen.boots \/ server.image \notin Plans
SeenTrue(p) == EtagPast(p) /\ BootsPast(p) /\ ControllerPast(p)

\* A preview is never of a controller with its own plan.
Previewed ==
  /\ controller.plan \in Plans => plan[controller.plan] # NoPlan
  /\ \A p \in Plans : plan[p] # NoPlan => SeenTrue(p)

\* Plans and tickets, once known, do not change, and no call changes its ticket.
LEMMA Constant ==
  ASSUME WorkerInv, [Next]_vars
  PROVE  /\ bmc' = bmc
         /\ \A p \in Plans : plan[p] # NoPlan => plan'[p] = plan[p]
         /\ \A h \in Handlers : run[h].stage # "idle" =>
              /\ run'[h].ticket = run[h].ticket /\ run'[h].stage # "idle"
              /\ PlanOf(h)' = PlanOf(h) /\ Op(h)' = Op(h) /\ Seen(h)' = Seen(h)
<1>1. ASSUME NEW h \in Handlers, NEW t \in Tickets, NEW p \in Plans, Accept(h, t, p)
      PROVE  /\ bmc' = bmc /\ plan' = plan
             /\ \A g \in Handlers : run[g].stage # "idle" =>
                  /\ run'[g].ticket = run[g].ticket /\ run'[g].stage # "idle"
                  /\ ticket'[run[g].ticket] = ticket[run[g].ticket]
  BY <1>1, Accepting, Known, ConstantRows
<1>2. ASSUME NEW h \in Handlers, Serves(h)
      PROVE  /\ bmc' = bmc /\ plan' = plan /\ ticket' = ticket
             /\ \A g \in Handlers : run[g].stage # "idle" =>
                  run'[g].ticket = run[g].ticket /\ run'[g].stage # "idle"
  BY <1>2, Serving DEF ServedFrame, granted
<1>3. ASSUME NEW p \in Plans, NEW op \in Ops, Preview(p, op)
      PROVE  /\ bmc' = bmc /\ ticket' = ticket /\ run' = run
             /\ \A q \in Plans : plan[q] # NoPlan => plan'[q] = plan[q]
  BY <1>3, Previewing
<1>4. CASE Restart \/ Aside
  <2>1. /\ bmc' = bmc /\ plan' = plan /\ ticket' = ticket
        /\ \A g \in Handlers : run[g].stage # "idle" =>
             run'[g].ticket = run[g].ticket /\ run'[g].stage # "idle"
    BY <1>4, Restarting DEF Aside, granted, Ended
  <2> QED BY <2>1 DEF PlanOf, Op, Seen
<1> QED
  <2>1. ASSUME NEW h \in Handlers, NEW t \in Tickets, NEW p \in Plans, Accept(h, t, p)
        PROVE  \A g \in Handlers : run[g].stage # "idle" => PlanOf(g)' = PlanOf(g)
    BY <1>1, <2>1 DEF PlanOf
  <2>2. \A g \in Handlers : run[g].stage # "idle" =>
          PlanOf(g) \in Plans /\ plan[PlanOf(g)] # NoPlan
    BY DEF WorkerInv, CallsKnown
  <2> QED BY <1>1, <1>2, <1>3, <1>4, <2>1, <2>2, Cases DEF PlanOf, Op, Seen

\* Only a call that prepares a PXE plan gives the controller another plan.
LEMMA ControllerPlan ==
  ASSUME WorkerInv, [Next]_vars
  PROVE  controller'.plan = controller.plan \/
           \E h \in Handlers : run[h].stage # "idle" /\ controller'.plan = PlanOf(h)
<1> USE DEF WorkerInv
<1>1. controller \in Controllers
  BY DEF TypeOK
<1>2. ASSUME NEW h \in Handlers, Serves(h)
      PROVE  controller' = controller \/ (run[h].stage # "idle" /\ controller'.plan = PlanOf(h))
  BY <1>2 DEF Serves, PxeStep, Probe, Apply, Verify, GiveUp, Prepare, Arm, Armed, ReadPower,
              Push, Dark, PoweredUp, Start, Complete, HostReady, Look, devices
<1>3. CASE Install \/ InstallFails
  BY <1>1, <1>3 DEF Install, InstallFails, Controllers
<1>4. CASE ChangedOutside
  <2>1. controller' = controller
    BY <1>4 DEF ChangedOutside
  <2> QED BY <2>1
<1> QED BY <1>2, <1>3, <1>4, Accepting, Previewing, Restarting
        DEF Next, HandlerStep, Serves, vars, devices

LEMMA DiskStep ==
  ASSUME WorkerInv, DiskInstalled, [Next]_vars
  PROVE  DiskInstalled'
<1> SUFFICES ASSUME controller'.state = "complete"
             PROVE  disk' = controller'.plan /\ server'.image \notin Plans
  BY DEF DiskInstalled
<1>1. controller \in Controllers
  BY DEF WorkerInv, TypeOK
<1>2. CASE Install
  BY <1>1, <1>2, ConstantRows DEF Install, DiskInstalled, Controllers, Active, WorkerInv, TypeOK, Servers
<1>3. CASE ~Install
  <2>1. disk' = disk
    <3>1. ASSUME NEW h \in Handlers, Serves(h)
          PROVE  disk' = disk
      BY <3>1, Serving DEF ServedFrame
    <3> QED BY <1>3, <3>1, Accepting, Previewing, Restarting
            DEF Next, HandlerStep, Serves, InstallFails, ChangedOutside, vars, devices
  <2>2. controller' = controller
    <3>1. ASSUME NEW h \in Handlers, Serves(h)
          PROVE  controller' = controller
      BY <3>1 DEF Serves, PxeStep, Probe, Apply, Verify, GiveUp, Prepare, Arm, Armed, ReadPower,
                  Push, Dark, PoweredUp, Start, Complete, HostReady, Look, devices
    <3>2. CASE InstallFails
      BY <1>1, <3>2 DEF InstallFails, Controllers
    <3> QED BY <1>3, <3>1, <3>2, Accepting, Previewing, Restarting
            DEF Next, HandlerStep, Serves, ChangedOutside, vars, devices
  <2> QED BY <2>1, <2>2, FlowStep DEF Flow, DiskInstalled, Active
<1> QED BY <1>2, <1>3

LEMMA SnapshotTrue ==
  ASSUME WorkerInv, DiskInstalled, NEW p \in Plans, controller.plan # p, NEW op \in Ops,
         plan'[p] = [op |-> op, seen |-> Snapshot(op)],
         UNCHANGED <<bmc, server, controller, vlan>>
  PROVE  SeenTrue(p)'
<1>1. /\ server.boots \in Nat /\ vlan.version \in Nat /\ controller \in Controllers
  BY DEF WorkerInv, TypeOK, Servers, Vlans
<1>2. plan'[p].op = op /\ plan'[p].seen = Snapshot(op)
  OBVIOUS
<1>3. CASE op = "vlan.ensure"
  <2>1. Snapshot(op).etag = Etag /\ Snapshot(op).name = vlan.name
    BY <1>3 DEF Snapshot
  <2> QED BY <1>1, <1>2, <1>3, <2>1 DEF Etag, SeenTrue, EtagPast, BootsPast, ControllerPast, PxeOps
<1>4. CASE op # "vlan.ensure"
  <2>1. Snapshot(op).etag = None
    BY <1>4 DEF Snapshot
  <2>2. bmc = "redfish" => Snapshot(op).boots = server.boots
    BY <1>4 DEF Snapshot, ReportsBoots, Ops
  <2>3. op \in PxeOps => Snapshot(op).controller = controller
    BY <1>4 DEF Snapshot
  <2> QED BY <1>1, <1>2, <1>4, <2>1, <2>2, <2>3 DEF SeenTrue, EtagPast, BootsPast, ControllerPast, DiskInstalled
<1> QED BY <1>3, <1>4

LEMMA PreviewedStep ==
  ASSUME WorkerInv, DiskInstalled, Previewed, [Next]_vars
  PROVE  Previewed'
<1>1. controller'.plan \in Plans => plan'[controller'.plan] # NoPlan
  BY ControllerPlan, Constant DEF Previewed, WorkerInv, CallsKnown
<1>2. ASSUME NEW p \in Plans, plan'[p] # NoPlan
      PROVE  SeenTrue(p)'
  <2>1. CASE plan[p] # NoPlan
    <3>1. SeenTrue(p) /\ plan'[p] = plan[p] /\ bmc' = bmc
      BY <2>1, Constant DEF Previewed
    <3>2. plan[p] \in PlanRows /\ plan[p].seen \in Previews
      BY <2>1 DEF WorkerInv, TypeOK, PlanRows
    <3>3. plan[p].seen.etag # None => plan[p].seen.etag \in Nat
      BY <3>2 DEF Previews, Etags
    <3>4. server \in Servers /\ server' \in Servers /\ vlan \in Vlans /\ vlan' \in Vlans
      BY FlowStep DEF WorkerInv, TypeOK, Flow
    <3>5. server.boots \in Nat /\ server'.boots \in Nat /\ vlan.version \in Nat /\ vlan'.version \in Nat
      BY <3>4 DEF Servers, Vlans
    <3>6. /\ server'.boots >= server.boots /\ vlan'.version >= vlan.version
          /\ vlan'.version = vlan.version => vlan' = vlan
      BY <3>5, FlowStep DEF Flow
    <3>7. server'.boots = server.boots /\ server.image \notin Plans => server'.image \notin Plans
      BY <3>5, FlowStep DEF Flow
    <3> DEFINE seen == plan[p].seen
    <3>8. plan'[p].seen = seen /\ plan'[p].op = plan[p].op
      BY <3>1
    <3> HIDE DEF seen
    <3>9. seen.boots \in Nat /\ seen.boots <= server.boots =>
            /\ seen.boots <= server'.boots
            /\ server.boots > seen.boots => server'.boots > seen.boots
            /\ server'.boots > seen.boots \/ server'.boots = server.boots
      BY <3>5, <3>6
    <3>10. seen.etag \in Nat /\ seen.etag <= vlan.version =>
             /\ seen.etag <= vlan'.version
             /\ seen.etag = vlan'.version => vlan' = vlan
      BY <3>5, <3>6
    <3>11. seen.etag # None => seen.etag \in Nat
      BY <3>3 DEF seen
    <3>12. EtagPast(p)'
      BY <3>1, <3>8, <3>10, <3>11 DEF SeenTrue, EtagPast, seen
    <3>13. BootsPast(p)'
      BY <3>1, <3>8, <3>9 DEF SeenTrue, BootsPast, seen
    <3>14. plan[p].op \in PxeOps => plan[p].op # "vlan.ensure"
      BY DEF PxeOps
    <3>15. ControllerPast(p)'
      BY <3>1, <3>7, <3>8, <3>9, <3>14 DEF SeenTrue, BootsPast, ControllerPast, seen
    <3> QED BY <3>12, <3>13, <3>15 DEF SeenTrue
  <2>2. CASE plan[p] = NoPlan
    <3>1. \E op \in Ops : Preview(p, op)
      <4>1. ASSUME NEW h \in Handlers, Serves(h)
            PROVE  plan' = plan
        BY <4>1, Serving DEF ServedFrame, granted
      <4> QED BY <1>2, <2>2, <4>1, Cases, Accepting, Previewing, Restarting DEF Aside, granted
    <3> QED BY <2>2, <3>1, Previewing, SnapshotTrue DEF Previewed
  <2> QED BY <2>1, <2>2
<1> QED BY <1>1, <1>2 DEF Previewed
-----------------------------------------------------------------------------
(* Calls and their plans                                                   *)

\* The stages of a PXE plan whose call has given it to the controller.
Installing == {"arming", "armed", "powering", "cutting", "dark", "pushing", "booting",
               "starting", "waiting", "ready"}

\* A call that has been through its probe.
Past(h) == h \in effective \/ run[h].stage \notin Ended \cup {"idle", "probing"}

\* The stages of a call fit its plan, and it goes on to a change only from a
\* state in which the plan asks for one.
CallFits(h) ==
  /\ run[h].mark <= server.boots
  /\ run[h].stage = "preparing" \/ run[h].stage \in Installing => Op(h) \in PxeOps
  /\ run[h].stage \in {"applying", "verifying"} => Op(h) \notin PxeOps
  /\ run[h].stage \in Installing => h \in effective
  /\ run[h].stage \in {"idle", "probing"} => h \notin effective
  /\ run[h].stage = "applying" =>
       /\ Op(h) = "force-off" => Seen(h).power = "on"
       /\ Op(h) = "boot.set" => Seen(h).boot = "hdd"
  /\ Past(h) /\ Op(h) \in PxeOps => Seen(h).controller.state \notin Active

LEMMA ProbeFits ==
  ASSUME WorkerInv, Previewed, NEW h \in Handlers, CallFits(h), Probe(h)
  PROVE  /\ run'[h].stage \in {"preparing", "applying", "verifying"}
         /\ run'[h].stage = "preparing" <=> Op(h) \in PxeOps
         /\ run'[h].stage = "applying" =>
              /\ Op(h) = "force-off" => Seen(h).power = "on"
              /\ Op(h) = "boot.set" => Seen(h).boot = "hdd"
         /\ Op(h) \in PxeOps => Seen(h).controller.state \notin Active
<1>1. run[h] \in Runs /\ run[h].stage = "probing" /\ run \in [Handlers -> Runs]
  BY DEF Probe, WorkerInv, TypeOK
<1>2. run'[h].stage = IF Op(h) \in PxeOps THEN "preparing"
                      ELSE IF NeedsChange(h) THEN "applying" ELSE "verifying"
  BY <1>1 DEF Probe, Runs
<1>3. ASSUME run'[h].stage = "applying"
      PROVE  /\ Op(h) = "force-off" => Seen(h).power = "on"
             /\ Op(h) = "boot.set" => Seen(h).boot = "hdd"
  <2>1. NeedsChange(h)
    BY <1>2, <1>3
  <2>2. server.power \in {"on", "off"} /\ server.boot \in {"pxe", "hdd"}
    BY DEF WorkerInv, TypeOK, Servers
  <2>3. CASE Op(h) = "force-off"
    <3>1. Seen(h).power = server.power
      BY <2>3 DEF Probe, Snapshot, ReportsPower, PowerOps
    <3> QED BY <2>1, <2>2, <2>3, <3>1 DEF NeedsChange, Matches
  <2>4. CASE Op(h) = "boot.set"
    <3>1. Seen(h).boot = server.boot
      BY <2>4 DEF Probe, Snapshot, ReportsBoot
    <3> QED BY <2>1, <2>2, <2>4, <3>1 DEF NeedsChange, Matches
  <2> QED BY <2>3, <2>4
<1>4. ASSUME Op(h) \in PxeOps
      PROVE  Seen(h).controller.state \notin Active
  <2>1. Seen(h).controller = controller
    BY <1>4 DEF Probe, Snapshot
  <2>2. Seen(h).controller.plan # PlanOf(h)
    BY <1>1, <1>4 DEF Previewed, SeenTrue, ControllerPast, WorkerInv, CallsKnown, Op, Seen
  <2> QED BY <1>4, <2>1, <2>2 DEF Probe, Conflicts
<1> QED BY <1>2, <1>3, <1>4

\* The stages a served call goes through after its probe.
LEMMA Stage ==
  ASSUME WorkerInv, NEW h \in Handlers, Serves(h)
  PROVE  \/ Probe(h)
         \/ run[h].stage = "applying" /\ run'[h].stage = "verifying"
         \/ run'[h].stage \in Ended
         \/ run[h].stage = "preparing" /\ run'[h].stage = "arming" /\ h \in effective'
         \/ run[h].stage \in Installing /\ run'[h].stage \in Installing
<1>1. run \in [Handlers -> Runs]
  BY DEF WorkerInv, TypeOK
<1>2. CASE Apply(h)
  BY <1>1, <1>2 DEF Apply, To, Runs
<1>3. CASE Verify(h) \/ GiveUp(h) \/ HostReady(h)
  BY <1>1, <1>3 DEF Verify, GiveUp, HostReady, End, Fresh, IdleRun, Ended
<1>4. CASE Prepare(h)
  BY <1>1, <1>4 DEF Prepare, To, Runs
<1>5. CASE Arm(h) \/ Armed(h) \/ Start(h) \/ Complete(h)
  BY <1>1, <1>5 DEF Arm, Armed, Start, Complete, To, Runs, Installing
<1>6. CASE ReadPower(h) \/ Dark(h)
  BY <1>1, <1>6 DEF ReadPower, Dark, Runs, Installing
<1>7. CASE PoweredUp(h)
  BY <1>1, <1>7 DEF PoweredUp, Fresh, IdleRun, Runs, Installing
<1>8. CASE Push(h, "cutting", "force-off", "dark") \/ Push(h, "pushing", run[h].want, "booting")
  BY <1>1, <1>8 DEF Push, To, Runs, Installing
<1> QED BY <1>2, <1>3, <1>4, <1>5, <1>6, <1>7, <1>8 DEF Serves, PxeStep

LEMMA MarkStep ==
  ASSUME WorkerInv, NEW h \in Handlers, run[h].mark <= server.boots, [Next]_vars
  PROVE  (run[h].mark <= server.boots)'
<1>1. run \in [Handlers -> Runs] /\ run[h].mark \in Nat /\ server.boots \in Nat
  BY DEF WorkerInv, TypeOK, Runs, Servers
<1>2. server'.boots \in Nat /\ server'.boots >= server.boots
  BY <1>1, FlowStep DEF Flow, Servers
<1>3. run'[h].mark \in {0, run[h].mark, server.boots}
  <2>1. ASSUME NEW g \in Handlers, Serves(g)
        PROVE  run'[g].mark \in {0, run[g].mark, server.boots}
    <3>1. CASE Probe(g) \/ ReadPower(g) \/ Dark(g)
      BY <1>1, <3>1 DEF Probe, ReadPower, Dark, Runs
    <3>2. CASE Apply(g) \/ Prepare(g) \/ Arm(g) \/ Armed(g) \/ Start(g) \/ Complete(g)
      BY <1>1, <3>2 DEF Apply, Prepare, Arm, Armed, Start, Complete, To, Runs
    <3>3. CASE Verify(g) \/ GiveUp(g) \/ HostReady(g) \/ PoweredUp(g)
      BY <1>1, <3>3 DEF Verify, GiveUp, HostReady, PoweredUp, End, Fresh, IdleRun
    <3>4. CASE Push(g, "cutting", "force-off", "dark") \/ Push(g, "pushing", run[g].want, "booting")
      BY <1>1, <3>4 DEF Push, To, Runs
    <3> QED BY <2>1, <3>1, <3>2, <3>3, <3>4 DEF Serves, PxeStep
  <2>2. ASSUME NEW g \in Handlers, Serves(g)
        PROVE  run'[h].mark \in {0, run[h].mark, server.boots}
    BY <2>1, <2>2, Serving DEF ServedFrame
  <2> QED BY <2>2, Accepting, Previewing, Restarting, Cases DEF Aside
<1> QED BY <1>1, <1>2, <1>3

LEMMA FitsStep ==
  ASSUME WorkerInv, Previewed, NEW h \in Handlers, CallFits(h), [Next]_vars
  PROVE  CallFits(h)'
<1>1. (run[h].mark <= server.boots)'
  BY MarkStep DEF CallFits
<1>2. ASSUME run'[h] = run[h], h \in effective' <=> h \in effective
      PROVE  CallFits(h)'
  <2>1. CASE run[h].stage = "idle"
    BY <1>1, <1>2, <2>1 DEF CallFits, Past, Installing
  <2>2. CASE run[h].stage # "idle"
    BY <1>1, <1>2, <2>2, Constant DEF CallFits, Past
  <2> QED BY <2>1, <2>2
<1>3. ASSUME Serves(h)
      PROVE  CallFits(h)'
  <2>1. /\ run[h].stage # "idle" /\ Op(h)' = Op(h) /\ Seen(h)' = Seen(h)
        /\ effective' \in {effective, effective \cup {h}}
    BY <1>3, Serving, Constant DEF ServedFrame
  <2>2. CASE Probe(h)
    BY <1>1, <2>1, <2>2, ProbeFits DEF CallFits, Past, Installing, Probe, Look
  <2>3. CASE run[h].stage = "applying" /\ run'[h].stage = "verifying"
    BY <1>1, <2>1, <2>3 DEF CallFits, Past, Installing, Ended
  <2>4. CASE run'[h].stage \in Ended
    <3>1. run[h].stage \in Ended \cup {"probing"} => effective' = effective
      BY <1>3 DEF Serves, PxeStep, Probe, Apply, Verify, GiveUp, Prepare, Arm, Armed, ReadPower,
                  Push, Dark, PoweredUp, Start, Complete, HostReady, Look, Ended
    <3>2. Past(h)' => Past(h)
      BY <2>1, <2>4, <3>1 DEF Past, Ended
    <3> QED BY <1>1, <2>1, <2>4, <3>2 DEF CallFits, Installing, Ended
  <2>5. CASE run[h].stage = "preparing" /\ run'[h].stage = "arming" /\ h \in effective'
    BY <1>1, <2>1, <2>5 DEF CallFits, Past, Installing, Ended
  <2>6. CASE run[h].stage \in Installing /\ run'[h].stage \in Installing
    BY <1>1, <2>1, <2>6 DEF CallFits, Past, Installing, Ended
  <2> QED BY <1>3, <2>2, <2>3, <2>4, <2>5, <2>6, Stage
<1>4. ASSUME NEW g \in Handlers, g # h, Serves(g)
      PROVE  CallFits(h)'
  BY <1>2, <1>4, Serving DEF ServedFrame
<1>5. ASSUME NEW g \in Handlers, NEW t \in Tickets, NEW p \in Plans, Accept(g, t, p)
      PROVE  CallFits(h)'
  <2>1. CASE g = h
    BY <1>1, <1>5, <2>1, Accepting, ConstantRows DEF CallFits, Past, Installing, Ended
  <2> QED BY <1>2, <1>5, <2>1, Accepting
<1>6. CASE Restart
  <2>1. CASE run[h].stage \notin Ended \cup {"idle"} /\ run'[h].stage = "ERROR"
    BY <1>1, <1>6, <2>1, Restarting, Constant DEF CallFits, Past, Installing, Ended
  <2> QED BY <1>2, <1>6, <2>1, Restarting
<1> QED BY <1>2, <1>3, <1>4, <1>5, <1>6, Previewing, Cases DEF Aside
-----------------------------------------------------------------------------
(* Drift                                                                   *)

\* The state that a plan was previewed with is gone, and cannot come back.
Drifted(p) ==
  LET seen == plan[p].seen
      op == plan[p].op
  IN  CASE op = "vlan.ensure" -> vlan.version > seen.etag
        [] op \in PxeOps ->
             \/ seen.controller.state = "idle" /\ controller.state # "idle"
             \/ /\ seen.controller.state = "complete"
                /\ \/ server.boots > seen.boots
                   \/ controller.state # "complete" /\ server.image \notin Plans
        [] OTHER ->
             \/ server.boots > seen.boots
             \/ op = "force-off" /\ server.power = "off" /\ seen.power = "on"
             \/ op = "boot.set" /\ server.boot = "pxe" /\ seen.boot = "hdd"

\* What is known of the numbers in a preview that cannot recur.
LEMMA Numbers ==
  ASSUME WorkerInv, NEW p \in Plans, plan[p] # NoPlan, SeenTrue(p), ~MayRecur(p)
  PROVE  /\ plan[p].op \in Ops
         /\ plan[p].op = "vlan.ensure" => plan[p].seen.etag \in Nat
         /\ plan[p].op # "vlan.ensure" => bmc = "redfish" /\ plan[p].seen.boots \in Nat
         /\ plan[p].op \in PxeOps => plan[p].seen.controller \in Controllers
         /\ plan[p].op \in PxeOps => plan[p].op # "vlan.ensure"
<1>1. plan[p] \in PlanRows
  BY DEF WorkerInv, TypeOK
<1>2. plan[p].op \in Ops /\ plan[p].seen.etag \in Nat \cup {None}
  BY <1>1 DEF PlanRows, Previews, Etags
<1>3. bmc \in {"redfish", "ipmi"}
  BY DEF WorkerInv, TypeOK
<1> QED BY <1>2, <1>3 DEF MayRecur, SeenTrue, BootsPast, ControllerPast, PxeOps

LEMMA DriftStays ==
  ASSUME WorkerInv, NEW p \in Plans, plan[p] # NoPlan, SeenTrue(p), ~MayRecur(p),
         Drifted(p), [Next]_vars
  PROVE  Drifted(p)'
<1>1. plan'[p] = plan[p]
  BY Constant
<1>2. /\ server.boots \in Nat /\ server'.boots \in Nat
      /\ vlan.version \in Nat /\ vlan'.version \in Nat
  BY FlowStep DEF Flow, WorkerInv, TypeOK, Servers, Vlans
<1> DEFINE seen == plan[p].seen
           op == plan[p].op
<1>3. plan'[p].seen = seen /\ plan'[p].op = op
  BY <1>1
<1>4. CASE op = "vlan.ensure"
  <2>1. vlan'.version >= vlan.version /\ seen.etag \in Nat /\ vlan.version > seen.etag
    BY <1>2, <1>4, FlowStep, Numbers DEF Flow, Drifted
  <2>2. vlan'.version > seen.etag
    BY <1>2, <2>1
  <2> QED BY <1>3, <1>4, <2>2 DEF Drifted, PxeOps
<1>5. CASE op # "vlan.ensure"
  <2>1. /\ seen.boots \in Nat /\ seen.boots <= server.boots
        /\ op \in PxeOps => seen.controller \in Controllers
    BY <1>5, Numbers DEF SeenTrue, BootsPast
  <2>2. server.boots > seen.boots \/ server'.boots # server.boots => server'.boots > seen.boots
    BY <1>2, <2>1, FlowStep DEF Flow
  <2>3. CASE op \in PxeOps
    <3>1. CASE seen.controller.state = "idle"
      <4>1. controller.state # "idle" /\ controller'.state # "idle"
        BY <1>5, <2>3, <3>1, FlowStep DEF Flow, Drifted
      <4> QED BY <1>3, <1>5, <2>3, <3>1, <4>1 DEF Drifted
    <3>2. CASE seen.controller.state # "idle"
      <4>1. /\ seen.controller.state = "complete"
            /\ \/ server.boots > seen.boots
               \/ controller.state # "complete" /\ server.image \notin Plans
        BY <1>5, <2>3, <3>2 DEF Drifted
      <4>2. \/ server'.boots > seen.boots
            \/ controller'.state # "complete" /\ server'.image \notin Plans
        BY <1>2, <2>2, <4>1, FlowStep DEF Flow
      <4> QED BY <1>3, <1>5, <2>3, <4>1, <4>2 DEF Drifted
    <3> QED BY <3>1, <3>2
  <2>4. CASE op \notin PxeOps
    <3>1. \/ server.boots > seen.boots
          \/ op = "force-off" /\ server.power = "off" /\ seen.power = "on"
          \/ op = "boot.set" /\ server.boot = "pxe" /\ seen.boot = "hdd"
      BY <1>5, <2>4 DEF Drifted
    <3>2. \/ server'.boots > seen.boots
          \/ op = "force-off" /\ server'.power = "off" /\ seen.power = "on"
          \/ op = "boot.set" /\ server'.boot = "pxe" /\ seen.boot = "hdd"
      BY <1>2, <2>2, <3>1, FlowStep DEF Flow
    <3> QED BY <1>3, <1>5, <2>4, <3>2 DEF Drifted
  <2> QED BY <2>3, <2>4
<1> QED BY <1>4, <1>5

LEMMA DriftStops ==
  ASSUME WorkerInv, NEW p \in Plans, plan[p] # NoPlan, SeenTrue(p), ~MayRecur(p),
         Drifted(p)
  PROVE  Snapshot(plan[p].op) # plan[p].seen
<1> SUFFICES ASSUME Snapshot(plan[p].op) = plan[p].seen
             PROVE  FALSE
  OBVIOUS
<1> DEFINE seen == plan[p].seen
           op == plan[p].op
<1>1. server.boots \in Nat /\ vlan.version \in Nat /\ op \in Ops
  BY Numbers DEF WorkerInv, TypeOK, Servers, Vlans
<1>2. CASE op = "vlan.ensure"
  <2>1. seen.etag = Etag /\ seen.etag \in Nat /\ vlan.version > seen.etag
    BY <1>2, Numbers DEF Snapshot, Drifted
  <2> QED BY <1>1, <2>1, ConstantRows DEF Etag
<1>3. CASE op # "vlan.ensure"
  <2>1. seen.boots = server.boots
    BY <1>1, <1>3, Numbers DEF Snapshot, ReportsBoots, Ops
  <2>2. CASE op \in PxeOps
    <3>1. seen.controller = controller
      BY <2>2 DEF Snapshot
    <3> QED BY <1>1, <1>3, <2>1, <2>2, <3>1 DEF Drifted
  <2>3. CASE op \notin PxeOps
    <3>1. op \in BmcOps /\ bmc = "redfish"
      BY <1>1, <1>3, <2>3, Numbers DEF Ops
    <3>2. op = "force-off" => seen.power = server.power
      BY <3>1 DEF Snapshot, ReportsPower, PowerOps
    <3>3. op = "boot.set" => seen.boot = server.boot
      BY <3>1 DEF Snapshot, ReportsBoot
    <3> QED BY <1>1, <1>3, <2>1, <2>3, <3>2, <3>3 DEF Drifted
  <2> QED BY <2>2, <2>3
<1> QED BY <1>2, <1>3

\* A call has its effect in a state that differs from the previewed one for good.
LEMMA EffectDrifts ==
  ASSUME WorkerInv, Previewed, NEW h \in Handlers, CallFits(h), Serves(h),
         h \notin effective, h \in effective', ~MayRecur(PlanOf(h)), [Next]_vars
  PROVE  Drifted(PlanOf(h))'
<1> DEFINE p == PlanOf(h)
           seen == plan[p].seen
           op == plan[p].op
<1>1. run[h].stage # "idle" /\ plan' = plan /\ PlanOf(h)' = p
  BY Serving, Constant DEF ServedFrame, granted
<1>2. p \in Plans /\ plan[p] # NoPlan /\ SeenTrue(p) /\ Op(h) = op /\ Seen(h) = seen
  BY <1>1 DEF WorkerInv, CallsKnown, Previewed, Op, Seen
<1>3. /\ server.boots \in Nat /\ server'.boots \in Nat
      /\ vlan.version \in Nat /\ vlan'.version \in Nat
      /\ server \in Servers /\ controller \in Controllers
  BY FlowStep DEF Flow, WorkerInv, TypeOK, Servers, Vlans
<1>4. CASE Apply(h)
  <2>1. run[h].stage = "applying" /\ Change(h) /\ op \notin PxeOps
    BY <1>2, <1>4 DEF Apply, CallFits
  <2>2. CASE op = "vlan.ensure"
    <3>1. Put(h) /\ seen.etag \in Nat
      BY <1>2, <2>1, <2>2, Numbers DEF Change, PowerOps
    <3>2. vlan.version = seen.etag
      BY <1>2, <3>1, ConstantRows DEF Put, Etag
    <3>3. vlan'.version > seen.etag
      BY <1>3, <3>1, <3>2 DEF Put
    <3> QED BY <1>1, <2>2, <3>3 DEF Drifted, PxeOps
  <2>3. CASE op = "boot.set"
    <3>1. server'.boot = "pxe" /\ seen.boot = "hdd"
      BY <1>2, <1>3, <2>1, <2>3 DEF Change, PowerOps, CallFits, Servers
    <3> QED BY <1>1, <2>3, <3>1 DEF Drifted, PxeOps
  <2>4. CASE op \in PowerOps
    <3>1. PowerDone(op) /\ seen.boots \in Nat /\ seen.boots <= server.boots
      BY <1>2, <2>1, <2>4, Numbers DEF Change, PowerOps, SeenTrue, BootsPast
    <3>2. \/ op \in {"on", "restart"} /\ server'.boots = server.boots + 1
          \/ op = "force-off" /\ server'.power = "off"
      BY <1>3, <3>1, PowerFlow
    <3>3. op = "force-off" => seen.power = "on"
      BY <1>2, <2>1 DEF CallFits
    <3>4. \/ server'.boots > seen.boots
          \/ op = "force-off" /\ server'.power = "off" /\ seen.power = "on"
      BY <1>3, <3>1, <3>2, <3>3
    <3> QED BY <1>1, <2>1, <2>4, <3>4 DEF Drifted, PowerOps
  <2> QED BY <1>2, <2>1, <2>2, <2>3, <2>4, Numbers DEF Ops, BmcOps
<1>5. CASE Prepare(h)
  <2>1. op \in PxeOps /\ controller'.state = "requested" /\ server' = server
    BY <1>2, <1>5 DEF Prepare, CallFits
  <2>2. op # "vlan.ensure" /\ bmc = "redfish" /\ seen.boots \in Nat /\ seen.boots <= server.boots
    BY <1>2, <2>1, Numbers DEF SeenTrue, BootsPast
  <2>3. seen.controller \in Controllers /\ seen.controller.state \notin Active
    BY <1>2, <1>5, <2>1, Numbers DEF Prepare, CallFits, Past, Ended
  <2>4. seen.controller.state \in {"idle", "complete"}
    BY <1>2, <2>1, <2>2, <2>3 DEF MayRecur, Controllers
  <2>5. seen.controller.state = "complete" => server.boots > seen.boots \/ server.image \notin Plans
    BY <1>2, <2>1, <2>2 DEF SeenTrue, ControllerPast
  <2> QED BY <1>1, <2>1, <2>2, <2>4, <2>5 DEF Drifted
<1>6. run[h].stage \notin Installing
  BY DEF CallFits
<1>7. CASE PxeStep(h) /\ ~Prepare(h)
  BY <1>6, <1>7 DEF PxeStep, Arm, Armed, ReadPower, Push, Dark, PoweredUp, Start, Complete,
                    HostReady, Installing
<1>8. CASE Probe(h) \/ Verify(h) \/ GiveUp(h)
  BY <1>8 DEF Probe, Verify, GiveUp, Look
<1> QED BY <1>4, <1>5, <1>7, <1>8 DEF Serves
-----------------------------------------------------------------------------
(* One ticket, one effect                                                  *)

Live(h) == run[h].stage \notin Ended \cup {"idle"}

\* Of the calls with one ticket one is live, as long as the worker remembers it.
SoleUser ==
  /\ \A h \in Handlers : Live(h) \/ (restarts = 0 /\ run[h].stage # "idle") =>
       run[h].ticket \in used
  /\ \A h, g \in Handlers :
       h # g /\ Live(h) /\ run[g].ticket = run[h].ticket => run[g].stage \in Ended
  /\ restarts = 0 =>
       \A h, g \in Handlers :
         h # g /\ run[h].stage # "idle" => run[g].ticket # run[h].ticket

\* After an effect the devices have drifted from the preview, and no other call
\* with the ticket gets, or got, past its probe.
Once ==
  \A h \in effective : ~MayRecur(PlanOf(h)) =>
    /\ Drifted(PlanOf(h))
    /\ \A g \in Handlers : g # h /\ run[g].ticket = run[h].ticket => ~Past(g)

LEMMA SoleStep ==
  ASSUME WorkerInv, SoleUser, [Next]_vars
  PROVE  SoleUser'
<1>1. ASSUME NEW h \in Handlers, NEW t \in Tickets, NEW p \in Plans, Accept(h, t, p)
      PROVE  SoleUser'
  <2>1. \A g \in Handlers \ {h} : run'[g] = run[g]
    BY <1>1, Accepting
  <2>2. /\ run'[h].stage = "probing" /\ run'[h].ticket = t /\ t \notin used
        /\ used' = used \cup {t} /\ restarts' = restarts
    BY <1>1, Accepting
  <2>3. \A g \in Handlers \ {h} : run[g].ticket = t => run[g].stage \in Ended /\ restarts # 0
    <3>1. \A g \in Handlers : run[g].stage = "idle" => run[g].ticket = None
      BY ConstantRows DEF WorkerInv, CallsKnown
    <3> QED BY <1>1, <2>2, <3>1, ConstantRows DEF SoleUser, Live
  <2> QED BY <2>1, <2>2, <2>3 DEF SoleUser, Live, Ended
<1>2. ASSUME NEW h \in Handlers, Serves(h)
      PROVE  SoleUser'
  <2>1. Live(h)
    BY <1>2 DEF Serves, PxeStep, Probe, Apply, Verify, GiveUp, Prepare, Arm, Armed, ReadPower,
                Push, Dark, PoweredUp, Start, Complete, HostReady, Live, Ended
  <2>2. /\ \A g \in Handlers : run'[g].ticket = run[g].ticket
        /\ \A g \in Handlers \ {h} : run'[g] = run[g]
        /\ run'[h].stage # "idle" /\ used' = used /\ restarts' = restarts
    BY <1>2, Serving DEF ServedFrame, counts
  <2>3. \A g \in Handlers : Live(g)' => Live(g)
    BY <2>1, <2>2 DEF Live
  <2>4. \A g \in Handlers \ {h} : Live(g) => run[h].ticket # run[g].ticket
    BY <2>1 DEF SoleUser, Live
  <2> QED BY <2>1, <2>2, <2>3, <2>4 DEF SoleUser, Live
<1>3. ASSUME NEW p \in Plans, NEW op \in Ops, Preview(p, op)
      PROVE  SoleUser'
  BY <1>3, Previewing DEF SoleUser, Live
<1>4. CASE Restart
  <2>1. restarts' # 0
    BY <1>4, Restarting DEF WorkerInv, TypeOK
  <2>2. \A h \in Handlers : run'[h].stage \in Ended \cup {"idle"}
    BY <1>4, Restarting DEF Ended
  <2> QED BY <2>1, <2>2 DEF SoleUser, Live
<1>5. CASE Aside
  BY <1>5 DEF Aside, SoleUser, Live
<1> QED BY <1>1, <1>2, <1>3, <1>4, <1>5, Cases

LEMMA OnceStep ==
  ASSUME WorkerInv, Previewed, \A h \in Handlers : CallFits(h), SoleUser, Once, [Next]_vars
  PROVE  Once'
<1>1. ASSUME NEW h \in effective, h \in Handlers
      PROVE  /\ run[h].stage # "idle" /\ PlanOf(h) \in Plans /\ plan[PlanOf(h)] # NoPlan
             /\ SeenTrue(PlanOf(h)) /\ PlanOf(h)' = PlanOf(h)
             /\ MayRecur(PlanOf(h))' <=> MayRecur(PlanOf(h))
  <2>1. run[h].stage # "idle"
    BY <1>1 DEF CallFits
  <2> QED BY <1>1, <2>1, Constant DEF WorkerInv, CallsKnown, Previewed, MayRecur
<1>2. effective \subseteq Handlers
  BY DEF WorkerInv, TypeOK
<1>3. ASSUME NEW h \in effective, ~MayRecur(PlanOf(h))'
      PROVE  Drifted(PlanOf(h))'
  BY <1>1, <1>2, <1>3, DriftStays DEF Once
<1>4. ASSUME effective' = effective, \A g \in Handlers : Past(g)' => Past(g),
             \A g, h \in Handlers : h \in effective /\ Past(g)
                                      /\ run'[g].ticket = run'[h].ticket =>
                                    run[g].ticket = run[h].ticket
      PROVE  Once'
  BY <1>1, <1>2, <1>3, <1>4 DEF Once
<1>5. ASSUME NEW h \in Handlers, Serves(h)
      PROVE  Once'
  <2>1. /\ \A g \in Handlers : run'[g].ticket = run[g].ticket
        /\ \A g \in Handlers \ {h} : run'[g] = run[g]
        /\ effective' \in {effective, effective \cup {h}} /\ run[h].stage # "idle"
    BY <1>5, Serving DEF ServedFrame
  <2>2. CASE Probe(h)
    <3>1. ASSUME NEW g \in effective, g # h, run[g].ticket = run[h].ticket
          PROVE  MayRecur(PlanOf(g))
      <4>1. PlanOf(g) = PlanOf(h)
        BY <3>1 DEF PlanOf
      <4>2. Snapshot(plan[PlanOf(h)].op) = plan[PlanOf(h)].seen
        BY <2>2 DEF Probe, Op, Seen
      <4> QED BY <1>1, <1>2, <3>1, <4>1, <4>2, DriftStops DEF Once
    <3>2. effective' = effective
      BY <2>2 DEF Probe, Look
    <3>3. \A g \in Handlers \ {h} : Past(g)' => Past(g)
      BY <2>1, <3>2 DEF Past
    <3> QED BY <1>1, <1>2, <1>3, <2>1, <3>1, <3>2, <3>3 DEF Once
  <2>3. CASE GiveUp(h)
    <3>1. effective' = effective /\ run'[h].stage \in Ended
      BY <2>1, <2>3 DEF GiveUp, Look, Ended, End, Fresh, IdleRun, WorkerInv, TypeOK
    <3>2. \A g \in Handlers : Past(g)' => Past(g)
      BY <2>1, <3>1 DEF Past
    <3> QED BY <1>4, <2>1, <3>1, <3>2
  <2>4. CASE ~Probe(h) /\ ~GiveUp(h)
    <3>1. Past(h)
      BY <1>5, <2>4 DEF Serves, PxeStep, Apply, Verify, Prepare, Arm, Armed, ReadPower,
                  Push, Dark, PoweredUp, Start, Complete, HostReady, Past, Ended
    <3>2. \A g \in Handlers : Past(g)' => Past(g)
      BY <2>1, <3>1 DEF Past
    <3>3. CASE effective' = effective
      BY <1>4, <2>1, <3>2, <3>3
    <3>4. CASE h \notin effective /\ h \in effective'
      <4>1. MayRecur(PlanOf(h))' <=> MayRecur(PlanOf(h))
        BY <2>1, Constant DEF MayRecur, WorkerInv, CallsKnown
      <4>2. ASSUME NEW g \in Handlers, g # h, run[g].ticket = run[h].ticket, Past(g),
                   ~MayRecur(PlanOf(h))
            PROVE  FALSE
        <5>1. Live(h)
          BY <3>1, <3>4, <2>1 DEF Past, Live
        <5>2. g \in effective
          BY <4>2, <5>1 DEF SoleUser, Past
        <5> QED BY <3>1, <4>2, <5>2 DEF Once, PlanOf
      <4>3. ~MayRecur(PlanOf(h)) => Drifted(PlanOf(h))'
        BY <1>5, <3>4, EffectDrifts
      <4> QED BY <1>1, <1>2, <1>3, <2>1, <3>1, <3>2, <3>4, <4>1, <4>2, <4>3 DEF Once
    <3> QED BY <2>1, <3>3, <3>4
  <2> QED BY <2>2, <2>3, <2>4
<1>6. ASSUME NEW h \in Handlers, NEW t \in Tickets, NEW p \in Plans, Accept(h, t, p)
      PROVE  Once'
  <2>1. /\ \A g \in Handlers \ {h} : run'[g] = run[g]
        /\ run'[h].stage = "probing" /\ effective' = effective
        /\ h \notin effective
    BY <1>6, Accepting, ConstantRows DEF CallFits
  <2>2. ~Past(h)' /\ \A g \in Handlers : Past(g)' => Past(g)
    BY <2>1 DEF Past
  <2> QED BY <1>1, <1>2, <1>3, <2>1, <2>2 DEF Once
<1>7. CASE Restart
  <2>1. effective' = effective
    BY <1>7, Restarting
  <2>2. \A g \in Handlers : run'[g].ticket = run[g].ticket /\ (Past(g)' => Past(g))
    BY <1>7, <2>1, Restarting DEF Past, Ended
  <2> QED BY <1>4, <2>1, <2>2
<1>8. CASE Aside \/ \E p \in Plans, op \in Ops : Preview(p, op)
  <2>1. run' = run /\ effective' = effective
    BY <1>8, Previewing DEF Aside
  <2> QED BY <1>4, <2>1 DEF Past
<1> QED BY <1>5, <1>6, <1>7, <1>8, Cases
-----------------------------------------------------------------------------
(* The theorems                                                            *)

CallsFit == \A h \in Handlers : CallFits(h)
WholeInv == WorkerInv /\ DiskInstalled /\ Previewed /\ CallsFit /\ SoleUser /\ Once

LEMMA Initially == Init => WholeInv
<1> SUFFICES ASSUME Init
             PROVE  WholeInv
  OBVIOUS
<1>1. /\ server \in Servers /\ controller \in Controllers /\ vlan \in Vlans
      /\ server.boots = 0 /\ server.image = "disk"
      /\ controller.state = "idle" /\ controller.plan = None
  BY DEF Init, Servers, Controllers, Vlans
<1>2. \A h \in Handlers : run[h] = IdleRun /\ run[h].stage = "idle" /\ run[h].ticket = None
                          /\ run[h].mark = 0
  BY DEF Init, IdleRun
<1>3. TypeOK
  BY <1>1, ConstantRows DEF Init, TypeOK
<1>4. CallsKnown /\ DiskInstalled
  BY <1>1, <1>2 DEF CallsKnown, DiskInstalled
<1>5. Previewed
  BY <1>1, ConstantRows DEF Init, Previewed
<1>6. CallsFit
  BY <1>1, <1>2 DEF Init, CallsFit, CallFits, Past, Installing, Ended
<1>7. SoleUser /\ Once
  BY <1>2 DEF Init, SoleUser, Once, Live
<1> QED BY <1>3, <1>4, <1>5, <1>6, <1>7 DEF WholeInv, WorkerInv

LEMMA WholeHolds == Spec => []WholeInv
<1>1. WholeInv /\ [Next]_vars => WholeInv'
  BY WorkerStep, DiskStep, PreviewedStep, FitsStep, SoleStep, OnceStep DEF WholeInv, CallsFit
<1> QED BY <1>1, Initially, PTL DEF Spec

\* Devices, plans, tickets and calls keep their shape.
THEOREM WorkerTypeCorrect == Spec => []TypeOK
<1>1. WholeInv => TypeOK
  BY DEF WholeInv, WorkerInv
<1> QED BY <1>1, WholeHolds, PTL

\* A ticket that was used before a restart of the worker, and is presented again
\* after it, changes nothing more, unless its plan's preview could come back.
THEOREM TicketsTakeEffectOnce == Spec => []TakesEffectOnce
<1>1. WholeInv => TakesEffectOnce
  <2> SUFFICES ASSUME WholeInv, NEW h \in effective, NEW g \in effective,
                      h # g, run[h].ticket = run[g].ticket
               PROVE  restarts > 0 /\ MayRecur(PlanOf(h))
    BY DEF TakesEffectOnce
  <2>1. h \in Handlers /\ g \in Handlers /\ restarts \in Nat
    BY DEF WholeInv, WorkerInv, TypeOK
  <2>2. run[h].stage # "idle" /\ run[g].stage # "idle"
    BY <2>1 DEF WholeInv, CallsFit, CallFits
  <2>3. restarts # 0
    BY <2>1, <2>2 DEF WholeInv, SoleUser
  <2>4. MayRecur(PlanOf(h))
    BY <2>1 DEF WholeInv, Once, Past
  <2> QED BY <2>1, <2>3, <2>4
<1> QED BY <1>1, WholeHolds, PTL

\* The PUT of _execute_vlan replaces the VLAN the plan was previewed with, or one
\* that was absent then.
THEOREM PutsArePreviewed == Spec => PutReplacesPreviewed
<1>1. ASSUME WholeInv, [Next]_vars, NEW h \in Handlers,
             run[h].stage = "applying", run'[h] # run[h], vlan' # vlan
      PROVE  \/ Seen(h).etag = None
             \/ Seen(h).name = vlan.name /\ Seen(h).etag = Etag
  <2> USE DEF WholeInv
  <2>1. PICK g \in Handlers : Serves(g)
    BY <1>1, Accepting, Previewing, Restarting, Cases DEF Aside
  <2>2. g = h
    BY <1>1, <2>1, Serving DEF ServedFrame
  <2>3. Put(h) /\ Op(h) = "vlan.ensure"
    BY <1>1, <2>1, <2>2
    DEF Serves, PxeStep, Probe, Apply, Change, Verify, GiveUp, Prepare, Arm, Armed, ReadPower,
        Push, Dark, PoweredUp, Start, Complete, HostReady, Look, devices
  <2>4. SeenTrue(PlanOf(h)) /\ Seen(h).etag \in {None, Etag}
    BY <1>1, <2>3 DEF WorkerInv, CallsKnown, Previewed, Put
  <2> QED BY <2>3, <2>4 DEF SeenTrue, EtagPast, Op, Seen, Etag
<1>2. WholeInv /\ [Next]_vars =>
        [\A h \in Handlers :
           run[h].stage = "applying" /\ run'[h] # run[h] /\ vlan' # vlan =>
             \/ Seen(h).etag = None
             \/ Seen(h).name = vlan.name /\ Seen(h).etag = Etag]_vars
  BY <1>1
<1> QED BY <1>2, WholeHolds, PTL DEF Spec, PutReplacesPreviewed

\* Only these steps end well, or are the last but one of a PXE plan.
LEMMA EndsWell ==
  ASSUME WorkerInv, NEW h \in Handlers, Serves(h), run'[h].stage \in {"SUCCEEDED", "ready"}
  PROVE  \/ Verify(h) /\ run'[h].stage = IF Matches(h) THEN "SUCCEEDED" ELSE "FAILED"
         \/ HostReady(h) /\ run[h].stage = "ready" /\ run'[h].stage = "SUCCEEDED"
         \/ Complete(h) /\ run'[h].stage = "ready"
<1>1. run \in [Handlers -> Runs]
  BY DEF WorkerInv, TypeOK
<1>2. CASE Verify(h) \/ HostReady(h) \/ GiveUp(h)
  BY <1>1, <1>2 DEF Verify, HostReady, GiveUp, End, Fresh, IdleRun
<1>3. CASE Complete(h) \/ Apply(h) \/ Prepare(h) \/ Arm(h) \/ Armed(h) \/ Start(h)
  BY <1>1, <1>3 DEF Complete, Apply, Prepare, Arm, Armed, Start, To, Runs
<1>4. CASE Probe(h) \/ ReadPower(h) \/ Dark(h)
  BY <1>1, <1>4 DEF Probe, ReadPower, Dark, Runs
<1>5. CASE PoweredUp(h)
  BY <1>1, <1>5 DEF PoweredUp, Fresh, IdleRun
<1>6. CASE Push(h, "cutting", "force-off", "dark") \/ Push(h, "pushing", run[h].want, "booting")
  BY <1>1, <1>6 DEF Push, To, Runs
<1> QED BY <1>2, <1>3, <1>4, <1>5, <1>6 DEF Serves, PxeStep

\* A restart is called successful after a boot that followed the probe, and a PXE
\* plan gets to its last check with its own image on the disk.
THEOREM SuccessIsReal == Spec => SucceedsOnlyIfSo
<1>1. ASSUME WholeInv, [Next]_vars, NEW h \in Handlers, run'[h].stage # run[h].stage,
             run'[h].stage \in {"SUCCEEDED", "ready"}
      PROVE  Serves(h)
  <2> USE DEF WholeInv
  <2>1. ASSUME NEW g \in Handlers, g # h, Serves(g)
        PROVE  FALSE
    BY <1>1, <2>1, Serving DEF ServedFrame
  <2> QED BY <1>1, <2>1, Accepting, Previewing, Restarting, Cases DEF Aside
<1>2. ASSUME WholeInv, [Next]_vars, NEW h \in Handlers, run[h].stage # "SUCCEEDED",
             run'[h].stage = "SUCCEEDED", Op(h) = "restart"
      PROVE  server.boots > run[h].mark
  <2>1. Serves(h) /\ CallFits(h) /\ run \in [Handlers -> Runs]
    BY <1>1, <1>2 DEF WholeInv, WorkerInv, TypeOK, CallsFit
  <2>2. Op(h) \notin PxeOps /\ run[h].stage # "ready"
    BY <1>2, <2>1 DEF PxeOps, CallFits, Installing
  <2>3. Matches(h)
    BY <1>2, <2>1, <2>2, EndsWell DEF WholeInv
  <2>4. server.boots # run[h].mark
    BY <1>2, <2>3 DEF Matches
  <2>5. server.boots \in Nat /\ run[h].mark \in Nat
    BY <1>2 DEF WholeInv, WorkerInv, TypeOK, Servers, Runs
  <2> QED BY <2>1, <2>4, <2>5 DEF CallFits
<1>3. ASSUME WholeInv, [Next]_vars, NEW h \in Handlers, run[h].stage # "ready",
             run'[h].stage = "ready"
      PROVE  disk = PlanOf(h)
  <2>1. Serves(h) /\ run \in [Handlers -> Runs]
    BY <1>1, <1>3 DEF WholeInv, WorkerInv, TypeOK
  <2>2. Complete(h)
    BY <1>3, <2>1, EndsWell DEF WholeInv
  <2> QED BY <1>3, <2>2 DEF Complete, WholeInv, DiskInstalled
<1>4. WholeInv /\ [Next]_vars =>
        [\A h \in Handlers :
           /\ run[h].stage # "SUCCEEDED" /\ run'[h].stage = "SUCCEEDED" /\ Op(h) = "restart"
                => server.boots > run[h].mark
           /\ run[h].stage # "ready" /\ run'[h].stage = "ready" => disk = PlanOf(h)]_vars
  BY <1>2, <1>3
<1> QED BY <1>4, WholeHolds, PTL DEF Spec, SucceedsOnlyIfSo
=============================================================================
