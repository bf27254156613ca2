------------------------- MODULE InfrastructureWorker -------------------------
(***************************************************************************)
(* The infrastructure worker of the node agent: it previews the live state *)
(* of a provider for a plan, and later executes a signed ticket for that   *)
(* plan if the state is still the previewed one.  A server with its BMC    *)
(* (Redfish or IPMI), a PXE controller and a switch with one VLAN stand    *)
(* for the providers; they are external and modelled from what the worker  *)
(* asks of them.  Requests run in threads of one process that share        *)
(* nothing but the set of used tickets.                                    *)
(***************************************************************************)
EXTENDS Naturals, FiniteSets

CONSTANTS Plans, Tickets,
          Handlers,      \* calls of /v1/infrastructure/execute; each is used once
          None,
          MaxVersion,    \* bound on the changes of the VLAN
          MaxBoots,      \* bound on the boots of the server
          MaxOutside,    \* bound on the changes by others
          MaxRestarts    \* bound on the restarts of the worker

ASSUME BoundsAssumption ==
  /\ {MaxVersion, MaxBoots, MaxOutside, MaxRestarts} \subseteq Nat
  /\ None \notin Plans \cup Tickets \cup Nat
  /\ {"disk", "on", "off", "pxe", "hdd"} \cap (Plans \cup {None}) = {}

VARIABLES
  bmc,         \* kind of the server's BMC, which the registration fixes
  server,      \* power, one-time boot target, count of boots, what it runs
  disk,        \* plan whose image is installed
  controller,  \* row of the PXE controller
  vlan,        \* the VLAN on the switch, with the version its ETag names
  plan,        \* typed plans, each with its preview
  ticket,      \* plan that a ticket was signed for, once it is presented
  used,        \* _USED_TICKETS
  run,         \* calls of /v1/infrastructure/execute
  effective,   \* history: the calls that changed something
  outside, restarts

devices == <<server, disk, controller, vlan>>
granted == <<plan, ticket>>
counts == <<outside, restarts>>
vars == <<bmc, devices, granted, used, run, effective, counts>>

PowerOps == {"on", "force-off", "restart"}
BmcOps == PowerOps \cup {"boot.set"}
PxeOps == {"os.provision", "os.reimage"}
Ops == BmcOps \cup PxeOps \cup {"vlan.ensure"}

Servers == [power : {"on", "off"}, boot : {"pxe", "hdd"}, boots : Nat,
            image : Plans \cup {"disk", None}]
\* "installing" stands for booting, installer-started and installing.
Active == {"requested", "installing"}
Controllers == [state : Active \cup {"idle", "complete", "failed"}, plan : Plans \cup {None}]
Vlans == [name : Plans \cup {"other", None}, version : Nat]
Etags == Nat \cup {None}
Previews ==
  [power : {"on", "off", None}, boot : {"pxe", "hdd", None}, boots : Nat \cup {None},
   controller : Controllers \cup {None},
   name : Plans \cup {"other", None}, etag : Etags]
PlanRows == [op : Ops, seen : Previews]
NoPlan == [op |-> None, seen |-> None]

Ended == {"SUCCEEDED", "FAILED", "ERROR"}
Stages == Ended \cup
  {"idle", "probing", "applying", "verifying", "preparing", "arming", "armed",
   "powering", "cutting", "dark", "pushing", "booting", "starting", "waiting", "ready"}
\* mark: the boots seen before a reset; want: the power command that follows
Runs == [stage : Stages, ticket : Tickets \cup {None}, mark : Nat, want : {"on", "restart"}]
IdleRun == [stage |-> "idle", ticket |-> None, mark |-> 0, want |-> "on"]

PlanOf(h) == ticket[run[h].ticket]
Op(h) == plan[PlanOf(h)].op
Seen(h) == plan[PlanOf(h)].seen

Init ==
  /\ bmc \in {"redfish", "ipmi"}
  /\ server = [power |-> "on", boot |-> "hdd", boots |-> 0, image |-> "disk"]
  /\ disk = None
  /\ controller = [state |-> "idle", plan |-> None]
  /\ vlan \in {[name |-> n, version |-> 0] : n \in {"other", None}}
  /\ plan = [p \in Plans |-> NoPlan]
  /\ ticket = [t \in Tickets |-> None]
  /\ used = {}
  /\ run = [h \in Handlers |-> IdleRun]
  /\ effective = {}
  /\ outside = 0 /\ restarts = 0

-----------------------------------------------------------------------------
(* What the providers report *)

\* Redfish reports all of a system; IPMI is asked for one thing, and has no
\* marks of a reset.
ReportsPower(op) == op \in PowerOps \cup PxeOps \/ (bmc = "redfish" /\ op = "boot.set")
ReportsBoot(op) == op \in PxeOps \cup {"boot.set"} \/ (bmc = "redfish" /\ op \in PowerOps)
ReportsBoots(op) == bmc = "redfish" /\ op \in BmcOps \cup PxeOps

\* A VLAN that is absent has no ETag.
Etag == IF vlan.name = None THEN None ELSE vlan.version

Snapshot(op) ==
  [power |-> IF ReportsPower(op) THEN server.power ELSE None,
   boot |-> IF ReportsBoot(op) THEN server.boot ELSE None,
   boots |-> IF ReportsBoots(op) THEN server.boots ELSE None,
   controller |-> IF op \in PxeOps THEN controller ELSE None,
   name |-> IF op = "vlan.ensure" THEN vlan.name ELSE None,
   etag |-> IF op = "vlan.ensure" THEN Etag ELSE None]

-----------------------------------------------------------------------------
(* What the providers do *)

\* A boot takes the one-time target back; from the network the server gets
\* the image of the plan the controller is busy with, if any.
Booted ==
  [power |-> "on", boot |-> "hdd", boots |-> server.boots + 1,
   image |-> IF server.boot = "pxe" /\ controller.state \in Active
               THEN controller.plan ELSE "disk"]
Off == [server EXCEPT !.power = "off", !.image = None]

\* The power command that a BMC was given; a server that is off cannot restart.
PowerDone(command) ==
  CASE command = "force-off" -> server' = Off
    [] command = "on" /\ server.power = "off" ->
         server.boots < MaxBoots /\ server' = Booted
    [] command = "restart" /\ server.power = "on" ->
         server.boots < MaxBoots /\ server' = Booted
    [] OTHER -> FALSE

\* The installer goes on; the controller takes the callbacks of its own plan.
Install ==
  /\ server.image \in Plans
  /\ IF controller.plan = server.image /\ controller.state \in Active
       THEN controller' = [controller EXCEPT !.state =
              IF controller.state = "requested" THEN "installing" ELSE "complete"]
       ELSE UNCHANGED controller
  /\ IF controller'.state = "complete" \/ UNCHANGED controller
       THEN disk' = server.image /\ server' = [server EXCEPT !.image = "disk"]
       ELSE UNCHANGED <<disk, server>>
  /\ UNCHANGED <<bmc, vlan, granted, used, run, effective, counts>>

InstallFails ==
  /\ controller.state \in Active
  /\ controller' = [controller EXCEPT !.state = "failed"]
  /\ UNCHANGED <<bmc, server, disk, vlan, granted, used, run, effective, counts>>

\* Someone else at the switch or at the server
ChangedOutside ==
  /\ outside < MaxOutside
  /\ outside' = outside + 1
  /\ \/ /\ vlan.version < MaxVersion
        /\ \E n \in {"other", None} \ {vlan.name} :
             vlan' = [name |-> n, version |-> vlan.version + 1]
        /\ UNCHANGED server
     \/ (\E command \in PowerOps : PowerDone(command)) /\ UNCHANGED vlan
  /\ UNCHANGED <<bmc, disk, controller, granted, used, run, effective, restarts>>

-----------------------------------------------------------------------------
(* Planning: the Control Plane asks for a preview and keeps it in the plan *)

\* A plan's hash covers its preview, so no preview shows its own plan.
Preview(p, op) ==
  /\ plan[p] = NoPlan
  /\ plan' = [plan EXCEPT ![p] = [op |-> op, seen |-> Snapshot(op)]]
  /\ UNCHANGED <<bmc, devices, ticket, used, run, effective, counts>>

-----------------------------------------------------------------------------
(* Execution *)

\* The rest of a handler's step: where it goes, with all else as it was.
To(h, stage) == run' = [run EXCEPT ![h].stage = stage]
Fresh(h, stage) == [IdleRun EXCEPT !.stage = stage, !.ticket = run[h].ticket]
End(h, stage) == run' = [run EXCEPT ![h] = Fresh(h, stage)]
Still == UNCHANGED <<bmc, disk, granted, used, counts>>
Look == UNCHANGED <<bmc, devices, granted, used, effective, counts>>

\* Fault: the signature is looked up but not remembered.
AcceptAgain(h, t, p) ==
  /\ run[h] = IdleRun
  /\ plan[p] # NoPlan /\ ticket[t] \in {None, p} /\ t \notin used
  /\ ticket' = [ticket EXCEPT ![t] = p]
  /\ run' = [run EXCEPT ![h] = [IdleRun EXCEPT !.stage = "probing", !.ticket = t]]
  /\ UNCHANGED <<bmc, devices, plan, used, effective, counts>>

\* A ticket the Control Plane signed for an approved plan is presented, for the
\* first time or again.
Accept(h, t, p) ==
  /\ run[h] = IdleRun
  /\ plan[p] # NoPlan /\ ticket[t] \in {None, p} /\ t \notin used
  /\ ticket' = [ticket EXCEPT ![t] = p]
  /\ used' = used \cup {t}
  /\ run' = [run EXCEPT ![h] = [IdleRun EXCEPT !.stage = "probing", !.ticket = t]]
  /\ UNCHANGED <<bmc, devices, plan, effective, counts>>

\* Whatever fails ends in an error; so does a wait that lasts too long.
GiveUp(h) ==
  /\ run[h].stage \notin Ended \cup {"idle"}
  /\ End(h, "ERROR")
  /\ Look

\* Fault: a restart is verified by the power state alone.
MatchesByPower(h) ==
  CASE Op(h) \in {"on", "restart"} -> server.power = "on"
    [] Op(h) = "force-off" -> server.power = "off"
    [] Op(h) = "boot.set" -> server.boot = "pxe"
    [] OTHER -> vlan.name = PlanOf(h)

\* What a plan asks for, as far as one look at the provider can tell
Matches(h) ==
  CASE Op(h) = "on" -> server.power = "on"
    [] Op(h) = "force-off" -> server.power = "off"
    [] Op(h) = "restart" -> bmc = "redfish" /\ server.power = "on" /\ server.boots # run[h].mark
    [] Op(h) = "boot.set" -> server.boot = "pxe"
    [] OTHER -> vlan.name = PlanOf(h)

NeedsChange(h) == Op(h) = "restart" \/ ~Matches(h)

\* A PXE plan gives way to another that is under way, or finished.
Conflicts(h) ==
  /\ Op(h) \in PxeOps
  /\ controller.plan # PlanOf(h)
  /\ \/ controller.state \in Active
     \/ Op(h) = "os.provision" /\ controller.state = "complete"

Probe(h) ==
  /\ run[h].stage = "probing"
  /\ Snapshot(Op(h)) = Seen(h) /\ ~Conflicts(h)
  /\ run' = [run EXCEPT
       ![h].mark = IF Op(h) = "restart" THEN server.boots ELSE 0,
       ![h].stage = IF Op(h) \in PxeOps THEN "preparing"
                    ELSE IF NeedsChange(h) THEN "applying" ELSE "verifying"]
  /\ Look

\* Fault: the PUT carries no If-Match.
PutBlindly(h) ==
  /\ vlan.version < MaxVersion
  /\ vlan' = [name |-> PlanOf(h), version |-> vlan.version + 1]

\* The PUT with If-Match, where the probe had an ETag to match
Put(h) ==
  /\ Seen(h).etag \in {None, Etag}
  /\ vlan.version < MaxVersion
  /\ vlan' = [name |-> PlanOf(h), version |-> vlan.version + 1]

Change(h) ==
  \/ Op(h) \in PowerOps /\ PowerDone(Op(h)) /\ UNCHANGED vlan
  \/ /\ Op(h) = "boot.set"
     /\ server' = [server EXCEPT !.boot = "pxe"]
     /\ UNCHANGED vlan
  \/ Op(h) = "vlan.ensure" /\ Put(h) /\ UNCHANGED server

\* The device does what it is asked, or says so and does not; GiveUp covers the
\* answer that is lost.
Apply(h) ==
  /\ run[h].stage = "applying"
  /\ To(h, "verifying")
  /\ \/ /\ Change(h)
        /\ effective' = effective \cup {h}
     \/ UNCHANGED <<server, vlan, effective>>
  /\ UNCHANGED controller
  /\ Still

Verify(h) ==
  /\ run[h].stage = "verifying"
  /\ End(h, IF Matches(h) THEN "SUCCEEDED" ELSE "FAILED")
  /\ Look

-----------------------------------------------------------------------------
(* Execution of a PXE plan *)

Prepare(h) ==
  /\ run[h].stage = "preparing"
  /\ To(h, "arming")
  /\ controller' = [state |-> "requested", plan |-> PlanOf(h)]
  /\ effective' = effective \cup {h}
  /\ UNCHANGED <<server, vlan>>
  /\ Still

\* The one-time boot target is set unless it is set already.
Arm(h) ==
  /\ run[h].stage = "arming"
  /\ To(h, IF server.boot = "pxe" THEN "powering" ELSE "armed")
  /\ \/ /\ server.boot # "pxe"
        /\ server' = [server EXCEPT !.boot = "pxe"]
        /\ effective' = effective \cup {h}
     \/ UNCHANGED <<server, effective>>
  /\ UNCHANGED <<controller, vlan>>
  /\ Still

Armed(h) ==
  /\ run[h].stage = "armed"
  /\ server.boot = "pxe"
  /\ To(h, "powering")
  /\ Look

\* Fault: the power state that was read becomes the command.
ReadPowerRaw(h) ==
  /\ run[h].stage = "powering"
  /\ run' = [run EXCEPT ![h].want = server.power, ![h].stage = "pushing"]
  /\ Look

\* Redfish restarts a server that is on; with IPMI it goes off and on again.
ReadPower(h) ==
  /\ run[h].stage = "powering"
  /\ run' = [run EXCEPT
       ![h].mark = IF bmc = "redfish" THEN server.boots ELSE 0,
       ![h].want = IF server.power = "on" /\ bmc = "redfish" THEN "restart" ELSE "on",
       ![h].stage = IF server.power = "on" /\ bmc = "ipmi" THEN "cutting" ELSE "pushing"]
  /\ Look

\* A power command of a PXE plan
Push(h, from, command, to) ==
  /\ run[h].stage = from
  /\ To(h, to)
  /\ \/ /\ PowerDone(command)
        /\ effective' = effective \cup {h}
     \/ UNCHANGED <<server, effective>>
  /\ UNCHANGED <<controller, vlan>>
  /\ Still

Dark(h) ==
  /\ run[h].stage = "dark"
  /\ server.power = "off"
  /\ run' = [run EXCEPT ![h].stage = "pushing", ![h].want = "on"]
  /\ Look

PoweredUp(h) ==
  /\ run[h].stage = "booting"
  /\ server.power = "on"
  /\ run[h].want = "restart" => server.boots # run[h].mark
  /\ run' = [run EXCEPT ![h] = Fresh(h, "starting")]
  /\ Look

\* The controller is told to go ahead; what that changes in it the worker
\* learns from the states it reports.
Start(h) ==
  /\ run[h].stage = "starting"
  /\ To(h, "waiting")
  /\ Look

\* Fault: a completion counts without the bindings of the plan.
CompleteOfAny(h) ==
  /\ run[h].stage = "waiting"
  /\ controller.state = "complete"
  /\ To(h, "ready")
  /\ Look

\* plan_hash stands for the hashes of plan, manifest and callback token: one
\* PUT binds all three.  A row of another plan, a failure and a wait that
\* lasts too long end in GiveUp.
Complete(h) ==
  /\ run[h].stage = "waiting"
  /\ controller = [state |-> "complete", plan |-> PlanOf(h)]
  /\ To(h, "ready")
  /\ Look

HostReady(h) ==
  /\ run[h].stage = "ready"
  /\ \/ server.power = "on" /\ End(h, "SUCCEEDED")
     \/ End(h, "FAILED")
  /\ Look

\* The process ends: what it was told and what it was doing is forgotten.
Restart ==
  /\ restarts < MaxRestarts
  /\ restarts' = restarts + 1
  /\ used' = {}
  /\ run' = [h \in Handlers |-> IF run[h].stage \in Ended \cup {"idle"} THEN run[h]
                                  ELSE Fresh(h, "ERROR")]
  /\ UNCHANGED <<bmc, devices, granted, effective, outside>>

-----------------------------------------------------------------------------
PxeStep(h) ==
  \/ Prepare(h) \/ Arm(h) \/ Armed(h) \/ ReadPower(h)
  \/ Push(h, "cutting", "force-off", "dark") \/ Dark(h)
  \/ Push(h, "pushing", run[h].want, "booting") \/ PoweredUp(h)
  \/ Start(h) \/ Complete(h) \/ HostReady(h)

HandlerStep(h) ==
  \/ \E t \in Tickets, p \in Plans : Accept(h, t, p)
  \/ Probe(h) \/ Apply(h) \/ Verify(h) \/ GiveUp(h)
  \/ PxeStep(h)

Next ==
  \/ \E p \in Plans, op \in Ops : Preview(p, op)
  \/ \E h \in Handlers : HandlerStep(h)
  \/ Install \/ InstallFails \/ ChangedOutside \/ Restart

Spec == Init /\ [][Next]_vars

-----------------------------------------------------------------------------
(* Properties *)

(* Devices, plans, tickets and calls keep their shape.                     *)
TypeOK ==
  /\ bmc \in {"redfish", "ipmi"}
  /\ server \in Servers
  /\ disk \in Plans \cup {None}
  /\ controller \in Controllers
  /\ vlan \in Vlans
  /\ plan \in [Plans -> PlanRows \cup {NoPlan}]
  /\ ticket \in [Tickets -> Plans \cup {None}]
  /\ used \subseteq Tickets
  /\ run \in [Handlers -> Runs]
  /\ effective \subseteq Handlers
  /\ outside \in Nat /\ restarts \in Nat

\* Previewed states that may come back: IPMI shows no mark of a boot, a VLAN that
\* is absent has no ETag, and an installation can fail a second time.
MayRecur(p) ==
  IF plan[p].op = "vlan.ensure" THEN plan[p].seen.etag = None
  ELSE \/ bmc = "ipmi"
       \/ plan[p].op \in PxeOps /\ plan[p].seen.controller.state = "failed"

(* A ticket changes something once at most.  A worker that restarts forgets *)
(* which tickets it has seen (_USED_TICKETS); what a ticket presented again *)
(* then meets is the drift check, which stops it wherever the state that    *)
(* was previewed cannot come back.                                          *)
TakesEffectOnce ==
  \A h, g \in effective :
    h # g /\ run[h].ticket = run[g].ticket =>
      restarts > 0 /\ MayRecur(PlanOf(h))

(* A PUT on the switch never replaces a VLAN other than the one the plan    *)
(* was previewed with, whoever changes it between the worker's look and its *)
(* PUT.  Only where the VLAN was absent is there no ETag to compare.        *)
PutReplacesPreviewed ==
  [][\A h \in Handlers :
       run[h].stage = "applying" /\ run'[h] # run[h] /\ vlan' # vlan =>
         \/ Seen(h).etag = None
         \/ Seen(h).name = vlan.name /\ Seen(h).etag = Etag]_vars

(* SUCCEEDED is never said of what did not happen: a restart is reported    *)
(* only after a boot, and a PXE plan goes on to its last check only when    *)
(* the image on the disk is its own, even when the BMC drops the command,   *)
(* two plans race for the server, or an installer of another plan goes on.  *)
SucceedsOnlyIfSo ==
  [][\A h \in Handlers :
       /\ run[h].stage # "SUCCEEDED" /\ run'[h].stage = "SUCCEEDED" /\ Op(h) = "restart"
            => server.boots > run[h].mark
       /\ run[h].stage # "ready" /\ run'[h].stage = "ready" => disk = PlanOf(h)]_vars

=============================================================================
