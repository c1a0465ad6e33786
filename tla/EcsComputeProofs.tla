-------------------------- MODULE EcsComputeProofs --------------------------
(***************************************************************************)
(* Proofs about EcsCompute, for any set of machines, disks and groups, any *)
(* edits and any number of disturbances: the state is well typed, no       *)
(* second machine is bought, no machine is ever without a group, no disk   *)
(* disappears with its machine, and a deployment or a destroy that says it *)
(* is done has done it.                                                    *)
(***************************************************************************)
EXTENDS EcsCompute, TLAPS

Held == [vm : Vm \cup {None}, disk : Disk \cup {None}]

\* The steps of a deletion, and those at which the handler knows its machine.
VmDelete == {"dRead", "dSettle", "dStop", "dStopped", "dDelete", "dAbsent"}
VmKnown == VmStep \ {"observe", "run", "created"}

\* A generation is begun for a change or a loss, each of which was a
\* disturbance, and at most once for each.
GenInv ==
    /\ gen.disk <= upsets /\ ("disk" \in retire => gen.disk < upsets)
    /\ gen.vm <= upsets
    /\ ~destroying =>
         /\ "vm" \in retire \/ (saved.vm # None /\ saved.vm \notin LiveVm) => gen.vm < upsets
         /\ pc.vm \in VmDelete => "vm" \in retire

\* The handler that goes on with a machine holds its identity, and what is
\* destroyed was deployed.
HoldInv ==
    /\ pc.vm \in VmKnown => cur.vm # None
    /\ destroying => saved.vm # None

\* The handler that is about to look has no machine but the saved one to find;
\* the one that is about to buy, none but that which its own lost request
\* bought.
PurchaseInv ==
    /\ pc.vm = "observe" /\ saved.vm # None => LiveVm \subseteq {saved.vm}
    /\ pc.vm = "run" => \A i \in LiveVm : vm[i].gen = gen.vm

\* A disk that would go with its machine was attached so by an operator.
Loose(d) == disk[d].on # None /\ ~disk[d].keep
KeepInv == \A d \in Disk : Loose(d) => d \in meddled

-----------------------------------------------------------------------------
(* How the handlers move. *)

\* A handler goes on to a step, stays or fails; what it held it holds until it
\* fails.
Moves(r, step) ==
    /\ pc' \in [Res -> Step] /\ cur' \in Held
    /\ pc'[r] \in {step, pc[r], "failed"}
    /\ \A q \in Res : q # r => pc'[q] = pc[q]
    /\ UNCHANGED cur \/ pc'[r] = "failed"
    /\ r # "vm" => cur'.vm = cur.vm
    /\ r # "disk" => cur'.disk = cur.disk
    /\ upsets' \in 0..MaxUpsets /\ upsets <= upsets'

LEMMA UpsetType ==
    ASSUME TypeOK, Upset \/ Calm
    PROVE  upsets' \in 0..MaxUpsets /\ upsets <= upsets'
BY BoundAssumption DEF TypeOK, Upset, Calm

LEMMA GotoType ==
    ASSUME TypeOK, NEW r \in Res, NEW step \in Step, Goto(r, step)
    PROVE  pc' \in [Res -> Step] /\ pc'[r] = step /\ \A q \in Res : q # r => pc'[q] = pc[q]
BY DEF TypeOK, Goto

LEMMA EndType ==
    ASSUME TypeOK, NEW r \in Res, NEW step \in Step, End(r, step)
    PROVE  /\ pc' \in [Res -> Step] /\ pc'[r] = step
           /\ \A q \in Res : q # r => pc'[q] = pc[q]
           /\ cur' \in Held /\ (r # "vm" => cur'.vm = cur.vm) /\ (r # "disk" => cur'.disk = cur.disk)
<1>1. cur \in Held /\ cur' = [cur EXCEPT ![r] = None]
  BY DEF TypeOK, Held, End
<1>2. cur' \in Held /\ (r # "vm" => cur'.vm = cur.vm) /\ (r # "disk" => cur'.disk = cur.disk)
  BY <1>1 DEF Held, Res
<1> QED BY <1>2, GotoType DEF End

LEMMA FailMoves ==
    ASSUME TypeOK, NEW r \in Res, NEW step, Fail(r), Upset \/ Calm
    PROVE  Moves(r, step)
BY EndType, UpsetType DEF Fail, Moves, Step, Rest

LEMMA ProceedMoves ==
    ASSUME TypeOK, NEW r \in Res, NEW step \in Step, Proceed(r, step)
    PROVE  Moves(r, step)
BY GotoType, UpsetType DEF Proceed, Moves, TypeOK, Held

LEMMA LostMoves ==
    ASSUME TypeOK, NEW r \in Res, NEW step, Lost(r)
    PROVE  Moves(r, step)
<1>1. CASE Upset /\ UNCHANGED <<pc, cur>>
  BY <1>1, UpsetType DEF Moves, TypeOK, Held
<1>2. CASE Upset /\ Fail(r)
  BY <1>2, FailMoves
<1> QED BY <1>1, <1>2 DEF Lost

LEMMA CallMoves ==
    ASSUME TypeOK, NEW r \in Res, NEW STATE allowed, NEW ACTION effect, NEW step \in Step,
           Call(r, allowed, effect, step)
    PROVE  Moves(r, step) /\ ((allowed /\ effect) \/ UNCHANGED cloud)
BY ProceedMoves, LostMoves, FailMoves DEF Call

LEMMA WaitMoves ==
    ASSUME TypeOK, NEW r \in Res, NEW STATE ready, NEW STATE busy, NEW step \in Step,
           Wait(r, ready, busy, step)
    PROVE  Moves(r, step) /\ UNCHANGED cloud
BY ProceedMoves, FailMoves DEF Wait

-----------------------------------------------------------------------------
(* What the steps do to machines and disks. *)

\* No machine comes up anew, or loses its last group.
Machines ==
    /\ vm' \in [Vm -> Machine]
    /\ \A i \in Vm : /\ Live(vm'[i]) => Live(vm[i])
                     /\ vm'[i].gen = vm[i].gen
                     /\ vm[i].groups # {} => vm'[i].groups # {}

\* No disk goes away, or comes to go with its machine.
Disks ==
    /\ disk' \in [Disk -> Volume]
    /\ \A d \in Disk : /\ Live(disk[d]) => Live(disk'[d])
                       /\ Loose(d)' => Loose(d)

LEMMA SetVmType ==
    ASSUME TypeOK, NEW i, NEW status \in VmStatus \ {"unborn", "gone"},
           i \in Vm => Live(vm[i]), SetVm(i, status)
    PROVE  Machines /\ UNCHANGED disk /\ \A j \in Vm : Live(vm[j]) => Live(vm'[j])
<1>1. vm \in [Vm -> Machine]
  BY DEF TypeOK
<1>2. vm' = [vm EXCEPT ![i].status = status] /\ UNCHANGED disk
  BY DEF SetVm
<1>3. ASSUME NEW j \in Vm
      PROVE  /\ vm'[j] \in Machine /\ vm'[j].gen = vm[j].gen /\ vm'[j].groups = vm[j].groups
             /\ Live(vm'[j]) <=> Live(vm[j])
  <2>1. CASE j = i
    <3>1. vm'[j] = [vm[j] EXCEPT !.status = status]
      BY <1>1, <1>2, <2>1
    <3>2. vm[j] \in Machine
      BY <1>1
    <3> QED BY <2>1, <3>1, <3>2 DEF Machine, Live
  <2>2. CASE j # i
    BY <1>1, <1>2, <2>2
  <2> QED BY <2>1, <2>2
<1>4. vm' \in [Vm -> Machine]
  BY <1>1, <1>2, <1>3
<1> QED BY <1>2, <1>3, <1>4 DEF Machines

LEMMA SetDiskType ==
    ASSUME TypeOK, NEW d, NEW volume, d \in Disk => volume \in Volume, SetDisk(d, volume)
    PROVE  /\ UNCHANGED vm /\ disk' \in [Disk -> Volume]
           /\ \A e \in Disk : disk'[e] = IF e = d THEN volume ELSE disk[e]
BY DEF TypeOK, SetDisk

LEMMA ReleaseType ==
    ASSUME TypeOK, NEW i \in Vm, Release(i)
    PROVE  /\ Machines /\ disk' \in [Disk -> Volume]
           /\ \A j \in Vm : j # i => vm'[j] = vm[j]
           /\ \A d \in Disk : /\ Loose(d)' => Loose(d)
                              /\ Live(disk[d]) => Live(disk'[d]) \/ Loose(d)
<1>1. vm \in [Vm -> Machine] /\ disk \in [Disk -> Volume]
  BY DEF TypeOK
<1>2. vm' = [vm EXCEPT ![i].status = "gone"]
  BY DEF Release
<1>3. vm'[i] = [vm[i] EXCEPT !.status = "gone"] /\ \A j \in Vm : j # i => vm'[j] = vm[j]
  BY <1>1, <1>2
<1>4. vm'[i] \in Machine /\ vm'[i].gen = vm[i].gen /\ vm'[i].groups = vm[i].groups /\ ~Live(vm'[i])
  <2>1. vm[i] \in Machine
    BY <1>1
  <2> QED BY <1>3, <2>1 DEF Machine, VmStatus, Live
<1>5. Machines
  BY <1>1, <1>2, <1>3, <1>4 DEF Machines
<1>6. ASSUME NEW d \in Disk
      PROVE  /\ disk'[d] \in Volume /\ (Loose(d)' => Loose(d))
             /\ Live(disk[d]) => Live(disk'[d]) \/ Loose(d)
  <2>1. disk[d] \in Volume /\ i # None
    BY <1>1, IdAssumption
  <2>2. CASE disk[d].on # i
    <3>1. disk'[d] = disk[d]
      BY <2>2 DEF Release
    <3> QED BY <2>1, <3>1 DEF Loose
  <2>3. CASE disk[d].on = i
    <3> DEFINE status == IF disk[d].keep THEN "Available" ELSE "gone"
    <3>1. disk'[d] = [disk[d] EXCEPT !.status = status, !.on = None]
      BY <2>3 DEF Release
    <3>2. status \in DiskStatus /\ (disk[d].keep => status = "Available")
      BY DEF DiskStatus
    <3> HIDE DEF status
    <3>3. disk'[d] \in Volume /\ disk'[d].on = None /\ disk'[d].status = status
      BY <2>1, <3>1, <3>2 DEF Volume
    <3> QED BY <2>1, <2>3, <3>2, <3>3 DEF Loose, Live
  <2> QED BY <2>2, <2>3
<1>7. disk' \in [Disk -> Volume]
  BY <1>6 DEF Release
<1> QED BY <1>3, <1>5, <1>6, <1>7

\* A machine whose settings are written.
LEMMA SetMachineType ==
    ASSUME TypeOK, NEW i, NEW machine,
           i \in Vm => /\ machine \in Machine /\ machine.status = vm[i].status
                       /\ machine.gen = vm[i].gen
                       /\ vm[i].groups # {} => machine.groups # {},
           vm' = [vm EXCEPT ![i] = machine]
    PROVE  Machines /\ \A j \in Vm : Live(vm[j]) => Live(vm'[j])
<1>1. vm \in [Vm -> Machine]
  BY DEF TypeOK
<1>2. ASSUME NEW j \in Vm
      PROVE  /\ vm'[j] \in Machine /\ vm'[j].gen = vm[j].gen
             /\ vm[j].groups # {} => vm'[j].groups # {}
             /\ Live(vm'[j]) <=> Live(vm[j])
  <2>1. CASE j = i
    BY <1>1, <2>1 DEF Live
  <2>2. CASE j # i
    BY <1>1, <2>2
  <2> QED BY <2>1, <2>2
<1> QED BY <1>1, <1>2 DEF Machines

-----------------------------------------------------------------------------
(* The steps of the machine's handler that buy nothing and plan nothing. *)

Resizing == AwaitRunning \/ StopInstance \/ AwaitStopped \/ ModifyInstanceSpec
            \/ RestartInstance \/ AwaitResized
Working == StartInstance \/ Resizing \/ SyncGroups \/ TuneVm
Deleting == DeleteVmRead \/ DeleteVmSettle \/ DeleteVmStop \/ DeleteVmStopped \/ DeleteInstance

\* The handler goes on with its machine, to a later step of the same way.
VmMoves ==
    /\ pc.vm \in VmKnown
    /\ \E step \in VmKnown : Moves("vm", step) /\ (step \in VmDelete => pc.vm \in VmDelete)
    /\ UNCHANGED <<engine, history>>

LEMMA StartMoves ==
    ASSUME TypeOK, StartInstance
    PROVE  VmMoves /\ Machines /\ UNCHANGED disk /\ \A i \in Vm : Live(vm[i]) => Live(vm'[i])
<1>1. "running" \in VmKnown /\ "running" \in Step /\ "running" \notin VmDelete /\ "vm" \in Res
  BY DEF VmKnown, VmStep, VmDelete, Step, Res
<1>2. pc.vm \in VmKnown /\ UNCHANGED <<engine, history>>
  BY DEF StartInstance, VmKnown, VmStep
<1>3. CASE Proceed("vm", "running") /\ UNCHANGED cloud
  <2>1. VmMoves
    BY <1>1, <1>2, <1>3, ProceedMoves DEF VmMoves
  <2> QED BY <1>3, <2>1 DEF Machines, TypeOK, cloud
<1>4. CASE Call("vm", Status(cur.vm) = "Stopped", SetVm(cur.vm, "Starting"), "running")
  <2> DEFINE allowed == Status(cur.vm) = "Stopped"
             effect == SetVm(cur.vm, "Starting")
  <2>1. Moves("vm", "running") /\ ((allowed /\ effect) \/ UNCHANGED cloud)
    <3>1. Call("vm", allowed, effect, "running")
      BY <1>4
    <3> HIDE DEF allowed, effect
    <3> QED BY <1>1, <3>1, CallMoves
  <2>2. CASE allowed /\ effect
    BY <1>1, <1>2, <2>1, <2>2, SetVmType DEF VmMoves, VmStatus, Status, Live
  <2>3. CASE UNCHANGED cloud
    BY <1>1, <1>2, <2>1, <2>3 DEF VmMoves, Machines, TypeOK, cloud
  <2> QED BY <2>1, <2>2, <2>3
<1> QED BY <1>3, <1>4 DEF StartInstance

LEMMA ResizeMoves ==
    ASSUME TypeOK, Resizing
    PROVE  VmMoves /\ Machines /\ UNCHANGED disk /\ \A i \in Vm : Live(vm[i]) => Live(vm'[i])
<1>1. /\ {"stop", "groups", "stopped", "spec", "restart", "resized"} \subseteq VmKnown \cap Step
      /\ {"stop", "groups", "stopped", "spec", "restart", "resized"} \cap VmDelete = {}
      /\ "vm" \in Res
  BY DEF VmKnown, VmStep, VmDelete, Step, Res
<1>2. pc.vm \in VmKnown /\ UNCHANGED <<engine, history>>
  BY DEF Resizing, AwaitRunning, StopInstance, AwaitStopped, ModifyInstanceSpec,
         RestartInstance, AwaitResized, VmKnown, VmStep
<1>3. ASSUME NEW step \in {"stop", "groups", "stopped", "spec", "restart", "resized"},
             Moves("vm", step), UNCHANGED cloud
      PROVE  VmMoves /\ Machines /\ UNCHANGED disk /\ \A i \in Vm : Live(vm[i]) => Live(vm'[i])
  BY <1>1, <1>2, <1>3 DEF VmMoves, Machines, TypeOK, cloud
<1>4. CASE AwaitRunning
  <2> DEFINE step == IF vm[cur.vm].type # want.type THEN "stop" ELSE "groups"
  <2>1. step \in {"stop", "groups"}
    OBVIOUS
  <2>2. Wait("vm", Status(cur.vm) = "Running", VmBusy(cur.vm), step)
    BY <1>4 DEF AwaitRunning
  <2> HIDE DEF step
  <2> QED BY <1>1, <1>3, <2>1, <2>2, WaitMoves
<1>5. CASE AwaitStopped
  <2>1. Wait("vm", Status(cur.vm) = "Stopped", VmBusy(cur.vm), "spec")
    BY <1>5 DEF AwaitStopped
  <2> QED BY <1>1, <1>3, <2>1, WaitMoves
<1>6. CASE AwaitResized
  <2>1. Wait("vm", Status(cur.vm) = "Running" /\ vm[cur.vm].type = want.type,
             VmBusy(cur.vm), "groups")
    BY <1>6 DEF AwaitResized
  <2> QED BY <1>1, <1>3, <2>1, WaitMoves
<1>7. ASSUME NEW status \in {"Stopping", "Starting"}, NEW step \in {"stopped", "resized"},
             NEW from \in {"Running", "Stopped"},
             Call("vm", Status(cur.vm) = from, SetVm(cur.vm, status), step)
      PROVE  VmMoves /\ Machines /\ UNCHANGED disk /\ \A i \in Vm : Live(vm[i]) => Live(vm'[i])
  <2> DEFINE allowed == Status(cur.vm) = from
             effect == SetVm(cur.vm, status)
  <2>1. Moves("vm", step) /\ ((allowed /\ effect) \/ UNCHANGED cloud)
    <3>1. Call("vm", allowed, effect, step)
      BY <1>7
    <3> HIDE DEF allowed, effect
    <3> QED BY <1>1, <3>1, CallMoves
  <2>2. CASE UNCHANGED cloud
    BY <1>3, <2>1, <2>2
  <2>3. CASE allowed /\ effect
    BY <1>1, <1>2, <2>1, <2>3, SetVmType DEF VmMoves, VmStatus, Status, Live
  <2> QED BY <2>1, <2>2, <2>3
<1>8. CASE ModifyInstanceSpec
  <2> DEFINE effect == vm' = [vm EXCEPT ![cur.vm].type = want.type] /\ UNCHANGED disk
  <2>1. Call("vm", Status(cur.vm) = "Stopped", effect, "restart")
    BY <1>8 DEF ModifyInstanceSpec
  <2>2. Moves("vm", "restart") /\ (effect \/ UNCHANGED cloud)
    <3> HIDE DEF effect
    <3> QED BY <1>1, <2>1, CallMoves
  <2>3. CASE effect
    <3> DEFINE machine == [vm[cur.vm] EXCEPT !.type = want.type]
    <3>1. cur.vm \in Vm => /\ machine \in Machine /\ machine.status = vm[cur.vm].status
                           /\ machine.gen = vm[cur.vm].gen /\ machine.groups = vm[cur.vm].groups
      BY DEF TypeOK, Machine
    <3>2. vm' = [vm EXCEPT ![cur.vm] = machine]
      BY <2>3
    <3> HIDE DEF machine
    <3>3. Machines /\ \A j \in Vm : Live(vm[j]) => Live(vm'[j])
      BY <3>1, <3>2, SetMachineType
    <3> QED BY <1>1, <1>2, <2>2, <2>3, <3>3 DEF VmMoves
  <2> QED BY <1>3, <2>2, <2>3
<1> QED BY <1>4, <1>5, <1>6, <1>7, <1>8 DEF Resizing, StopInstance, RestartInstance

\* Groups are joined before others are left, and the desired ones are some.
LEMMA SyncMoves ==
    ASSUME TypeOK, SyncGroups \/ TuneVm
    PROVE  VmMoves /\ Machines /\ UNCHANGED disk /\ \A i \in Vm : Live(vm[i]) => Live(vm'[i])
<1> DEFINE i == cur.vm
<1>1. /\ {"groups", "tune", "final"} \subseteq VmKnown \cap Step
      /\ {"groups", "tune", "final"} \cap VmDelete = {}
      /\ "vm" \in Res
  BY DEF VmKnown, VmStep, VmDelete, Step, Res
<1>2. pc.vm \in VmKnown /\ UNCHANGED <<engine, history>>
  BY DEF SyncGroups, TuneVm, VmKnown, VmStep
<1>3. ASSUME NEW step \in {"groups", "tune", "final"}, Moves("vm", step), UNCHANGED cloud
      PROVE  VmMoves /\ Machines /\ UNCHANGED disk /\ \A j \in Vm : Live(vm[j]) => Live(vm'[j])
  BY <1>1, <1>2, <1>3 DEF VmMoves, Machines, TypeOK, cloud
<1>4. ASSUME NEW step \in {"groups", "tune", "final"}, Moves("vm", step), UNCHANGED disk,
             NEW machine, vm' = [vm EXCEPT ![i] = machine],
             i \in Vm => /\ machine \in Machine /\ machine.status = vm[i].status
                         /\ machine.gen = vm[i].gen
                         /\ vm[i].groups # {} => machine.groups # {}
      PROVE  VmMoves /\ Machines /\ UNCHANGED disk /\ \A j \in Vm : Live(vm[j]) => Live(vm'[j])
  BY <1>1, <1>2, <1>4, SetMachineType DEF VmMoves
<1>5. ASSUME NEW step \in {"groups", "tune", "final"}, Proceed("vm", step), UNCHANGED cloud
      PROVE  VmMoves /\ Machines /\ UNCHANGED disk /\ \A j \in Vm : Live(vm[j]) => Live(vm'[j])
  BY <1>1, <1>3, <1>5, ProceedMoves
<1>6. CASE SyncGroups
  <2>1. CASE Joins(i) \cup Leaves(i) = {}
    BY <1>5, <1>6, <2>1 DEF SyncGroups
  <2>2. ASSUME NEW g \in IF Joins(i) # {} THEN Joins(i) ELSE Leaves(i),
               Call("vm", Live(vm[i]),
                    vm' = [vm EXCEPT ![i].groups =
                             IF g \in @ THEN @ \ {g} ELSE @ \cup {g}] /\ UNCHANGED disk,
                    "groups")
        PROVE  VmMoves /\ Machines /\ UNCHANGED disk /\ \A j \in Vm : Live(vm[j]) => Live(vm'[j])
    <3> DEFINE groups == IF g \in vm[i].groups THEN vm[i].groups \ {g} ELSE vm[i].groups \cup {g}
               machine == [vm[i] EXCEPT !.groups = groups]
               allowed == Live(vm[i])
               effect == vm' = [vm EXCEPT ![i].groups =
                                  IF g \in @ THEN @ \ {g} ELSE @ \cup {g}] /\ UNCHANGED disk
    <3>1. Moves("vm", "groups") /\ ((allowed /\ effect) \/ UNCHANGED cloud)
      <4>1. Call("vm", allowed, effect, "groups")
        BY <2>2
      <4> HIDE DEF allowed, effect
      <4> QED BY <1>1, <4>1, CallMoves
    <3>2. groupsOf[want.type] \in SUBSET Group /\ groupsOf[want.type] # {}
      BY GroupAssumption DEF TypeOK
    <3>3. ASSUME i \in Vm
          PROVE  groups \in SUBSET Group /\ groups # {}
      <4>1. vm[i].groups \in SUBSET Group
        BY <3>3 DEF TypeOK, Machine
      <4>2. CASE Joins(i) # {}
        BY <2>2, <3>2, <4>1, <4>2 DEF Joins
      <4>3. CASE Joins(i) = {}
        <5>1. g \in vm[i].groups /\ g \notin groupsOf[want.type]
          BY <2>2, <4>3 DEF Leaves
        <5>2. groupsOf[want.type] \subseteq vm[i].groups
          BY <4>3 DEF Joins
        <5> QED BY <3>2, <4>1, <5>1, <5>2
      <4> QED BY <4>2, <4>3
    <3>4. ASSUME effect
          PROVE  vm' = [vm EXCEPT ![i] = machine] /\ UNCHANGED disk
      BY <3>4
    <3>5. i \in Vm => /\ machine \in Machine /\ machine.status = vm[i].status
                      /\ machine.gen = vm[i].gen
                      /\ vm[i].groups # {} => machine.groups # {}
      <4> HIDE DEF groups
      <4> SUFFICES ASSUME i \in Vm PROVE /\ machine \in Machine /\ machine.status = vm[i].status
                                         /\ machine.gen = vm[i].gen /\ machine.groups = groups
        BY <3>3
      <4>1. vm[i] \in Machine
        BY DEF TypeOK
      <4> QED BY <3>3, <4>1 DEF Machine
    <3> HIDE DEF effect, machine, allowed
    <3> QED BY <1>3, <1>4, <3>1, <3>4, <3>5
  <2> QED BY <1>6, <2>1, <2>2 DEF SyncGroups
<1>7. CASE TuneVm
  <2>1. CASE vm[i].tuned
    BY <1>5, <1>7, <2>1 DEF TuneVm
  <2>2. CASE ~vm[i].tuned
    <3> DEFINE machine == [vm[i] EXCEPT !.tuned = TRUE]
               allowed == Live(vm[i])
               effect == vm' = [vm EXCEPT ![i].tuned = TRUE] /\ UNCHANGED disk
    <3>1. Moves("vm", "final") /\ ((allowed /\ effect) \/ UNCHANGED cloud)
      <4>1. Call("vm", allowed, effect, "final")
        BY <1>7, <2>2 DEF TuneVm
      <4> HIDE DEF allowed, effect
      <4> QED BY <1>1, <4>1, CallMoves
    <3>2. i \in Vm => /\ machine \in Machine /\ machine.status = vm[i].status
                      /\ machine.gen = vm[i].gen /\ machine.groups = vm[i].groups
      <4> SUFFICES ASSUME i \in Vm PROVE /\ machine \in Machine /\ machine.status = vm[i].status
                                         /\ machine.gen = vm[i].gen /\ machine.groups = vm[i].groups
        OBVIOUS
      <4>1. vm[i] \in Machine
        BY DEF TypeOK
      <4> QED BY <4>1 DEF Machine
    <3>3. ASSUME effect
          PROVE  vm' = [vm EXCEPT ![i] = machine] /\ UNCHANGED disk
      BY <3>3
    <3> HIDE DEF effect, machine, allowed
    <3> QED BY <1>3, <1>4, <3>1, <3>2, <3>3
  <2> QED BY <2>1, <2>2
<1> QED BY <1>6, <1>7

\* The steps of a deletion: only its last request makes a machine disappear,
\* and only disks that an operator attached go with it.
LEMMA DeletingMoves ==
    ASSUME TypeOK, HoldInv, Deleting
    PROVE  /\ VmMoves /\ pc.vm \in VmDelete /\ Machines
           /\ \A i \in Vm : Live(vm[i]) => Live(vm'[i]) \/ pc.vm = "dDelete"
           /\ disk' \in [Disk -> Volume]
           /\ \A d \in Disk : /\ Loose(d)' => Loose(d)
                              /\ Live(disk[d]) => Live(disk'[d]) \/ Loose(d)
<1> DEFINE i == cur.vm
           Goal == /\ VmMoves /\ pc.vm \in VmDelete /\ Machines
                   /\ \A j \in Vm : Live(vm[j]) => Live(vm'[j]) \/ pc.vm = "dDelete"
                   /\ disk' \in [Disk -> Volume]
                   /\ \A d \in Disk : /\ Loose(d)' => Loose(d)
                                      /\ Live(disk[d]) => Live(disk'[d]) \/ Loose(d)
<1> SUFFICES Goal
  OBVIOUS
<1>1. VmDelete \subseteq VmKnown \cap Step /\ "vm" \in Res
  BY DEF VmKnown, VmStep, VmDelete, Step, Res
<1>2. pc.vm \in VmDelete /\ UNCHANGED <<engine, history>> /\ i # None
  BY <1>1 DEF Deleting, DeleteVmRead, DeleteVmSettle, DeleteVmStop, DeleteVmStopped,
              DeleteInstance, VmDelete, HoldInv
<1>3. i \in Vm
  BY <1>2 DEF TypeOK
<1>4. ASSUME NEW step \in VmDelete, Moves("vm", step), UNCHANGED cloud
      PROVE  Goal
  <2>1. VmMoves
    BY <1>1, <1>2, <1>4 DEF VmMoves
  <2> QED BY <1>2, <1>4, <2>1 DEF Machines, TypeOK, cloud, Loose
<1>5. CASE DeleteVmRead
  <2> DEFINE step == IF Live(vm[i]) THEN "dSettle" ELSE "dAbsent"
  <2>1. step \in VmDelete /\ ((Fail("vm") /\ Calm) \/ Proceed("vm", step)) /\ UNCHANGED cloud
    BY <1>5 DEF DeleteVmRead, VmDelete
  <2> HIDE DEF step, Goal
  <2> QED BY <1>1, <1>4, <2>1, ProceedMoves, FailMoves
<1>6. CASE DeleteVmSettle
  <2> DEFINE step == IF Status(cur.vm) = "Running" THEN "dStop"
                     ELSE IF Live(vm[cur.vm]) THEN "dStopped" ELSE "dAbsent"
  <2>1. step \in VmDelete /\ Wait("vm", ~VmBusy(cur.vm), TRUE, step)
    BY <1>6 DEF DeleteVmSettle, VmDelete
  <2> HIDE DEF step, Goal
  <2> QED BY <1>1, <1>4, <2>1, WaitMoves
<1>7. CASE DeleteVmStop
  <2> DEFINE allowed == Status(i) = "Running"
             effect == SetVm(i, "Stopping")
  <2>0. "dStopped" \in VmDelete
    BY DEF VmDelete
  <2>1. CASE Proceed("vm", "dStopped") /\ UNCHANGED cloud
    <3> HIDE DEF Goal
    <3> QED BY <1>1, <1>4, <2>0, <2>1, ProceedMoves
  <2>2. CASE Call("vm", allowed, effect, "dStopped")
    <3>1. Moves("vm", "dStopped") /\ ((allowed /\ effect) \/ UNCHANGED cloud)
      <4> HIDE DEF allowed, effect
      <4> QED BY <1>1, <2>0, <2>2, CallMoves
    <3>2. CASE allowed /\ effect
      <4>1. Machines /\ UNCHANGED disk /\ \A j \in Vm : Live(vm[j]) => Live(vm'[j])
        BY <3>2, SetVmType DEF VmStatus, Status, Live
      <4>2. VmMoves
        BY <1>1, <1>2, <2>0, <3>1 DEF VmMoves
      <4> QED BY <1>2, <4>1, <4>2 DEF Loose, TypeOK
    <3> HIDE DEF Goal, allowed, effect
    <3> QED BY <1>4, <2>0, <3>1, <3>2
  <2> QED BY <1>7, <2>1, <2>2 DEF DeleteVmStop
<1>8. CASE DeleteVmStopped
  <2>1. "dDelete" \in VmDelete /\ Wait("vm", ~Live(vm[i]) \/ Status(i) = "Stopped", VmBusy(i), "dDelete")
    BY <1>8 DEF DeleteVmStopped, VmDelete
  <2> HIDE DEF Goal
  <2> QED BY <1>1, <1>4, <2>1, WaitMoves
<1>9. CASE DeleteInstance
  <2> DEFINE allowed == Status(i) = "Stopped" /\ ~vm[i].protected
             effect == Release(i)
  <2>0. "dAbsent" \in VmDelete /\ pc.vm = "dDelete"
    BY <1>9 DEF VmDelete, DeleteInstance
  <2>1. CASE Proceed("vm", "dAbsent") /\ UNCHANGED cloud
    <3> HIDE DEF Goal
    <3> QED BY <1>1, <1>4, <2>0, <2>1, ProceedMoves
  <2>2. CASE Call("vm", allowed, effect, "dAbsent")
    <3>1. Moves("vm", "dAbsent") /\ ((allowed /\ effect) \/ UNCHANGED cloud)
      <4> HIDE DEF allowed, effect
      <4> QED BY <1>1, <2>0, <2>2, CallMoves
    <3>2. CASE effect
      <4>1. VmMoves
        BY <1>1, <1>2, <2>0, <3>1 DEF VmMoves
      <4> QED BY <1>2, <1>3, <2>0, <3>2, <4>1, ReleaseType
    <3> HIDE DEF Goal, allowed, effect
    <3> QED BY <1>4, <2>0, <3>1, <3>2
  <2> QED BY <1>9, <2>1, <2>2 DEF DeleteInstance
<1> QED BY <1>5, <1>6, <1>7, <1>8, <1>9 DEF Deleting

-----------------------------------------------------------------------------
(* Type correctness: it needs the bounds on the generations. *)

StateInv == TypeOK /\ GenInv /\ HoldInv

LEMMA KnownSteps ==
    /\ VmDelete \subseteq VmKnown /\ VmKnown \subseteq Step /\ "vm" \in Res
    /\ VmKnown \cap (Rest \cup {"observe", "run", "created"}) = {}
    /\ Rest \cup {"observe", "run", "created"} \subseteq Step
BY DEF VmDelete, VmKnown, VmStep, Step, Res, Rest

LEMMA VmMovesState ==
    ASSUME StateInv, VmMoves, Machines, disk' \in [Disk -> Volume],
           \A i \in Vm : Live(vm[i]) => Live(vm'[i]) \/ pc.vm \in VmDelete
    PROVE  StateInv'
<1>1. PICK step \in VmKnown : Moves("vm", step) /\ (step \in VmDelete => pc.vm \in VmDelete)
  BY DEF VmMoves
<1>2. UNCHANGED <<want, gen, retire, saved, outgoing, destroying, touched, meddled>>
  BY DEF VmMoves, engine, history
<1>3. /\ pc' \in [Res -> Step] /\ cur' \in Held /\ upsets' \in 0..MaxUpsets /\ upsets <= upsets'
      /\ pc'.vm \in {step, pc.vm, "failed"} /\ (UNCHANGED cur \/ pc'.vm = "failed")
  BY <1>1, KnownSteps DEF Moves
<1>4. TypeOK'
  BY <1>2, <1>3 DEF StateInv, TypeOK, Machines, Held
<1>5. GenInv'
  <2>1. gen.vm \in Nat /\ gen.disk \in Nat /\ upsets \in Nat /\ upsets' \in Nat
    BY <1>3, BoundAssumption DEF StateInv, TypeOK, Generation
  <2>2. gen'.disk <= upsets' /\ ("disk" \in retire' => gen'.disk < upsets') /\ gen'.vm <= upsets'
    BY <1>2, <1>3, <2>1 DEF StateInv, GenInv
  <2>3. ASSUME ~destroying', "vm" \in retire' \/ (saved'.vm # None /\ saved'.vm \notin LiveVm')
        PROVE  gen'.vm < upsets'
    <3>1. "vm" \in retire \/ (saved.vm # None /\ saved.vm \notin LiveVm)
      <4> SUFFICES ASSUME "vm" \notin retire, saved.vm \in LiveVm, saved.vm \notin LiveVm'
                   PROVE  FALSE
        BY <1>2, <2>3
      <4>1. saved.vm \in Vm /\ Live(vm[saved.vm]) /\ ~Live(vm'[saved.vm])
        BY DEF LiveVm
      <4> QED BY <1>2, <2>3, <4>1 DEF StateInv, GenInv
    <3> QED BY <1>2, <1>3, <2>1, <2>3, <3>1 DEF StateInv, GenInv
  <2>4. ASSUME ~destroying', pc'.vm \in VmDelete
        PROVE  "vm" \in retire'
    BY <1>1, <1>2, <1>3, <2>4, KnownSteps DEF StateInv, GenInv, Rest
  <2> QED BY <2>2, <2>3, <2>4 DEF GenInv
<1>6. HoldInv'
  BY <1>2, <1>3, KnownSteps DEF StateInv, HoldInv, VmMoves, Rest
<1> QED BY <1>4, <1>5, <1>6 DEF StateInv

\* Bounds that only grow.
LEMMA GenKept ==
    ASSUME TypeOK, GenInv, upsets' \in 0..MaxUpsets, upsets <= upsets', UNCHANGED gen,
           "disk" \in retire' => "disk" \in retire,
           ~destroying' =>
              /\ ~destroying
              /\ "vm" \in retire' \/ (saved'.vm # None /\ saved'.vm \notin LiveVm')
                   => "vm" \in retire \/ (saved.vm # None /\ saved.vm \notin LiveVm)
              /\ pc'.vm \in VmDelete => "vm" \in retire'
    PROVE  GenInv'
<1>1. gen.vm \in Nat /\ gen.disk \in Nat /\ upsets \in Nat /\ upsets' \in Nat
  BY BoundAssumption DEF TypeOK, Generation
<1> QED BY <1>1 DEF GenInv

LEMMA PlanVmState ==
    ASSUME StateInv, PlanVm
    PROVE  StateInv'
<1>1. /\ TypeOK /\ GenInv /\ HoldInv
      /\ UNCHANGED <<vm, disk, want, gen, saved, outgoing, destroying, touched, meddled, upsets>>
      /\ ~destroying
  BY DEF StateInv, PlanVm, cloud, history
<1>2. CASE saved.vm # None /\ ("vm" \in retire \/ saved.vm \notin LiveVm)
  <2>1. /\ retire' = retire \cup {"vm"}
        /\ cur' = [cur EXCEPT !.vm = saved.vm] /\ Goto("vm", "dRead")
    BY <1>2 DEF PlanVm
  <2>2. cur' \in Held /\ cur'.vm = saved.vm
    BY <1>1, <2>1 DEF TypeOK, Held
  <2>3. pc' \in [Res -> Step]
    BY <1>1, <2>1, GotoType, KnownSteps DEF VmDelete
  <2>4. TypeOK'
    BY <1>1, <2>1, <2>2, <2>3 DEF TypeOK, Held
  <2>5. GenInv'
    BY <1>1, <1>2, <2>1, GenKept DEF TypeOK, LiveVm
  <2>6. HoldInv'
    BY <1>1, <1>2, <2>2 DEF HoldInv
  <2> QED BY <2>4, <2>5, <2>6 DEF StateInv
<1>3. CASE ~(saved.vm # None /\ ("vm" \in retire \/ saved.vm \notin LiveVm))
  <2> DEFINE step == IF pc.vm = "planned" /\ VmFits(saved.vm) THEN "done" ELSE "observe"
  <2>1. Goto("vm", step) /\ UNCHANGED <<retire, cur>> /\ step \in {"done", "observe"}
    BY <1>3 DEF PlanVm
  <2> HIDE DEF step
  <2>2. pc' \in [Res -> Step] /\ pc'.vm \in {"done", "observe"}
    BY <1>1, <2>1, GotoType, KnownSteps DEF Rest
  <2>3. pc'.vm \notin VmKnown /\ pc'.vm \notin VmDelete
    BY <2>2, KnownSteps DEF Rest
  <2>4. TypeOK'
    BY <1>1, <2>1, <2>2 DEF TypeOK
  <2>5. GenInv'
    BY <1>1, <2>1, <2>3, GenKept DEF TypeOK, LiveVm
  <2>6. HoldInv'
    BY <1>1, <2>1, <2>3 DEF HoldInv
  <2> QED BY <2>4, <2>5, <2>6 DEF StateInv
<1> QED BY <1>2, <1>3

\* What the handler finds, made or already there.
LEMMA FoundState ==
    ASSUME StateInv, UNCHANGED <<disk, engine, history>>,
           vm' \in [Vm -> Machine], \A i \in Vm : Live(vm[i]) => Live(vm'[i]),
           upsets' \in 0..MaxUpsets, upsets <= upsets',
           pc' \in [Res -> Step], cur' \in Held, pc'.vm \notin VmDelete,
           pc'.vm \in VmKnown => cur'.vm # None
    PROVE  StateInv'
<1>1. /\ TypeOK /\ GenInv /\ HoldInv
      /\ UNCHANGED <<want, gen, retire, saved, outgoing, destroying, touched, meddled>>
  BY DEF StateInv, engine, history
<1>2. TypeOK'
  BY <1>1 DEF TypeOK, Held
<1>3. LiveVm \subseteq LiveVm'
  BY DEF LiveVm
<1>4. GenInv'
  BY <1>1, <1>3, GenKept
<1>5. HoldInv'
  BY <1>1 DEF HoldInv
<1> QED BY <1>2, <1>4, <1>5 DEF StateInv

\* A purchase is repeated without effect, or makes one machine, with groups.
LEMMA RunType ==
    ASSUME TypeOK, NEW i \in Vm, Run(i)
    PROVE  /\ UNCHANGED disk /\ vm' \in [Vm -> Machine]
           /\ \/ UNCHANGED vm
              \/ /\ \A j \in LiveVm : vm[j].gen # gen.vm
                 /\ \A j \in Vm : j # i => vm'[j] = vm[j]
                 /\ ~Live(vm[i]) /\ vm'[i].gen = gen.vm /\ vm'[i].groups # {}
<1> DEFINE bought == { j \in LiveVm : vm[j].gen = gen.vm }
           new == [status |-> "Pending", gen |-> gen.vm, type |-> want.type,
                   image |-> want.image, groups |-> groupsOf[want.type], tuned |-> TRUE,
                   protected |-> FALSE]
<1>1. CASE bought # {}
  BY <1>1 DEF Run, TypeOK, cloud
<1>2. CASE bought = {}
  <2>1. vm' = [vm EXCEPT ![i] = new] /\ UNCHANGED disk /\ vm[i].status = "unborn"
    BY <1>2 DEF Run, FreshVm
  <2>2. new \in Machine /\ new.groups # {} /\ new.gen = gen.vm
    BY GroupAssumption DEF TypeOK, Machine, VmStatus
  <2> HIDE DEF new
  <2>3. vm' \in [Vm -> Machine] /\ vm'[i] = new /\ \A j \in Vm : j # i => vm'[j] = vm[j]
    BY <2>1, <2>2 DEF TypeOK
  <2> QED BY <1>2, <2>1, <2>2, <2>3 DEF Live
<1> QED BY <1>1, <1>2

LEMMA ObserveVmState ==
    ASSUME StateInv, ObserveVm
    PROVE  StateInv'
<1>1. TypeOK /\ UNCHANGED <<vm, disk, engine, history, upsets>> /\ cur \in Held
  BY DEF StateInv, TypeOK, ObserveVm, cloud, Held
<1>2. {"run", "start", "running", "failed"} \subseteq Step \ VmDelete
      /\ "run" \notin VmKnown /\ "failed" \notin VmKnown
  BY DEF Step, Rest, VmStep, VmDelete, VmKnown
<1>3. ASSUME pc' \in [Res -> Step], cur' \in Held, pc'.vm \notin VmDelete,
             pc'.vm \in VmKnown => cur'.vm # None
      PROVE  StateInv'
  BY <1>1, <1>3, FoundState DEF TypeOK
<1>4. CASE Goto("vm", "run") /\ UNCHANGED cur
  BY <1>1, <1>2, <1>3, <1>4, GotoType, KnownSteps
<1>5. CASE Fail("vm")
  BY <1>1, <1>2, <1>3, <1>5, EndType, KnownSteps DEF Fail
<1>6. ASSUME NEW i \in FoundVm, NEW step \in {"start", "running"},
             cur' = [cur EXCEPT !.vm = i], Goto("vm", step)
      PROVE  StateInv'
  <2>1. i \in Vm /\ i # None
    BY IdAssumption DEF FoundVm, LiveVm
  <2>2. cur' \in Held /\ cur'.vm = i
    BY <1>1, <1>6, <2>1 DEF Held
  <2> QED BY <1>1, <1>2, <1>3, <1>6, <2>1, <2>2, GotoType, KnownSteps
<1> QED BY <1>4, <1>5, <1>6 DEF ObserveVm

LEMMA RunState ==
    ASSUME StateInv, RunInstances
    PROVE  StateInv'
<1>1. /\ TypeOK /\ cur \in Held /\ UNCHANGED <<engine, history>>
      /\ pc.vm = "run" /\ pc \in [Res -> Step]
  BY DEF StateInv, TypeOK, RunInstances, Held
<1>2. {"run", "created", "failed"} \subseteq Step \ VmDelete
      /\ {"run", "created", "failed"} \cap VmKnown = {}
  BY DEF Step, Rest, VmStep, VmDelete, VmKnown
<1>3. ASSUME vm' \in [Vm -> Machine], \A i \in Vm : Live(vm[i]) => Live(vm'[i]), UNCHANGED disk,
             pc' \in [Res -> Step], pc'.vm \in {"run", "created", "failed"}, cur' \in Held,
             Upset \/ Calm
      PROVE  StateInv'
  BY <1>1, <1>2, <1>3, UpsetType, FoundState
<1>4. ASSUME vm' \in [Vm -> Machine], \A i \in Vm : Live(vm[i]) => Live(vm'[i]), UNCHANGED disk,
             Lost("vm")
      PROVE  StateInv'
  <2>1. CASE Upset /\ UNCHANGED <<pc, cur>>
    BY <1>1, <1>3, <1>4, <2>1
  <2>2. CASE Upset /\ Fail("vm")
    BY <1>1, <1>2, <1>3, <1>4, <2>2, EndType, KnownSteps DEF Fail
  <2> QED BY <1>4, <2>1, <2>2 DEF Lost
<1>5. CASE Lost("vm") /\ UNCHANGED cloud
  BY <1>1, <1>4, <1>5 DEF cloud, TypeOK
<1>6. ASSUME NEW i \in Vm, Run(i),
             \/ cur' = [cur EXCEPT !.vm = i] /\ Goto("vm", "created") /\ Calm
             \/ Upset /\ Goto("vm", "created") /\ UNCHANGED cur
             \/ Lost("vm")
      PROVE  StateInv'
  <2>1. /\ UNCHANGED disk /\ vm' \in [Vm -> Machine]
        /\ \A j \in Vm : Live(vm[j]) => Live(vm'[j])
    BY <1>1, <1>6, RunType
  <2>2. CASE cur' = [cur EXCEPT !.vm = i] /\ Goto("vm", "created") /\ Calm
    <3>1. cur' \in Held
      BY <1>1, <2>2 DEF Held
    <3> QED BY <1>1, <1>2, <1>3, <2>1, <2>2, <3>1, GotoType, KnownSteps
  <2>3. CASE Upset /\ Goto("vm", "created") /\ UNCHANGED cur
    BY <1>1, <1>2, <1>3, <2>1, <2>3, GotoType, KnownSteps
  <2> QED BY <1>4, <1>6, <2>1, <2>2, <2>3
<1> QED BY <1>5, <1>6 DEF RunInstances

LEMMA AwaitCreatedState ==
    ASSUME StateInv, AwaitCreated
    PROVE  StateInv'
<1> DEFINE read == IF cur.vm # None THEN LiveVm \cap {cur.vm} ELSE FoundVm
           good == { i \in read : vm[i].status = "Running" /\ vm[i].type = want.type
                                  /\ vm[i].groups = groupsOf[want.type] }
<1>1. TypeOK /\ UNCHANGED <<vm, disk, engine, history>> /\ cur \in Held
  BY DEF StateInv, TypeOK, AwaitCreated, cloud, Held
<1>2. {"running", "failed"} \subseteq Step \ VmDelete /\ "failed" \notin VmKnown
  BY DEF Step, Rest, VmStep, VmDelete, VmKnown
<1>3. ASSUME pc' \in [Res -> Step], cur' \in Held, pc'.vm \notin VmDelete,
             pc'.vm \in VmKnown => cur'.vm # None, Upset \/ Calm
      PROVE  StateInv'
  <2>1. vm' \in [Vm -> Machine] /\ \A i \in Vm : Live(vm[i]) => Live(vm'[i])
    BY <1>1 DEF TypeOK
  <2> QED BY <1>1, <1>3, <2>1, UpsetType, FoundState
<1>4. ASSUME NEW i \in good, cur' = [cur EXCEPT !.vm = i], Goto("vm", "running"), Calm
      PROVE  StateInv'
  <2>1. i \in Vm /\ i # None
    BY IdAssumption DEF FoundVm, LiveVm
  <2>2. cur' \in Held /\ cur'.vm = i
    BY <1>1, <1>4, <2>1 DEF Held
  <2> QED BY <1>1, <1>2, <1>3, <1>4, <2>1, <2>2, GotoType, KnownSteps
<1>5. CASE Fail("vm") /\ (Upset \/ Calm)
  BY <1>1, <1>2, <1>3, <1>5, EndType, KnownSteps DEF Fail
<1> QED BY <1>4, <1>5 DEF AwaitCreated

LEMMA FinalVmState ==
    ASSUME StateInv, FinalVm
    PROVE  StateInv'
<1>1. /\ TypeOK /\ GenInv /\ HoldInv /\ cur \in Held
      /\ UNCHANGED <<vm, disk, want, gen, retire, outgoing, destroying, touched, meddled>>
      /\ pc.vm = "final"
  BY DEF StateInv, TypeOK, FinalVm, cloud, history, Held
<1>2. cur.vm \in Vm /\ cur.vm # None
  <2>1. "final" \in VmKnown
    BY DEF VmKnown, VmStep
  <2> QED BY <1>1, <2>1 DEF HoldInv, Held
<1>3. ASSUME NEW step \in {"done", "failed"}, End("vm", step), Upset \/ Calm,
             saved' \in [vm : Vm \cup {None}, disk : Disk \cup {None},
                         attDisk : Disk \cup {None}, attVm : Vm \cup {None}],
             saved'.vm = saved.vm \/ (saved'.vm \in LiveVm /\ saved'.vm # None)
      PROVE  StateInv'
  <2>1. step \in Step /\ step \notin VmKnown /\ step \notin VmDelete
    BY KnownSteps DEF Rest
  <2>2. pc' \in [Res -> Step] /\ cur' \in Held /\ pc'.vm = step
        /\ upsets' \in 0..MaxUpsets /\ upsets <= upsets'
    BY <1>1, <1>3, <2>1, EndType, UpsetType, KnownSteps
  <2>3. TypeOK'
    BY <1>1, <1>3, <2>2 DEF TypeOK, Held
  <2>4. LiveVm' = LiveVm
    BY <1>1 DEF LiveVm
  <2>5. GenInv'
    BY <1>1, <1>3, <2>1, <2>2, <2>4, GenKept
  <2>6. HoldInv'
    BY <1>1, <1>3, <2>1, <2>2 DEF HoldInv
  <2> QED BY <2>3, <2>5, <2>6 DEF StateInv
<1>4. CASE VmFits(cur.vm) /\ End("vm", "done") /\ Calm /\ saved' = [saved EXCEPT !.vm = cur.vm]
  <2>1. cur.vm \in LiveVm
    BY <1>2, <1>4 DEF VmFits, LiveVm, Live
  <2> QED BY <1>1, <1>2, <1>3, <1>4, <2>1 DEF TypeOK
<1>5. CASE Fail("vm") /\ (Upset \/ Calm) /\ UNCHANGED saved
  <2>1. End("vm", "failed") /\ (Upset \/ Calm) /\ saved'.vm = saved.vm
    BY <1>5 DEF Fail
  <2>2. saved' \in [vm : Vm \cup {None}, disk : Disk \cup {None},
                    attDisk : Disk \cup {None}, attVm : Vm \cup {None}]
    BY <1>1, <1>5 DEF TypeOK
  <2> QED BY <1>3, <2>1, <2>2
<1> QED BY <1>4, <1>5 DEF FinalVm

LEMMA StartDeleteVmState ==
    ASSUME StateInv, StartDeleteVm
    PROVE  StateInv'
<1>1. /\ TypeOK /\ GenInv /\ HoldInv /\ destroying
      /\ UNCHANGED <<vm, disk, want, gen, retire, saved, outgoing, destroying, touched, meddled,
                     upsets>>
      /\ cur' = [cur EXCEPT !.vm = saved.vm] /\ Goto("vm", "dRead")
  BY DEF StateInv, StartDeleteVm, cloud, engine, history
<1>2. cur' \in Held /\ cur'.vm = saved.vm
  BY <1>1 DEF TypeOK, Held
<1>3. pc' \in [Res -> Step]
  BY <1>1, GotoType, KnownSteps DEF VmDelete
<1>4. TypeOK'
  BY <1>1, <1>2, <1>3 DEF TypeOK, Held
<1>5. GenInv'
  BY <1>1, GenKept DEF TypeOK
<1>6. HoldInv'
  BY <1>1, <1>2 DEF HoldInv
<1> QED BY <1>4, <1>5, <1>6 DEF StateInv

LEMMA DeleteVmAbsentState ==
    ASSUME StateInv, DeleteVmAbsent
    PROVE  StateInv'
<1> DEFINE step == IF destroying THEN "gone" ELSE "observe"
<1>1. /\ TypeOK /\ GenInv /\ HoldInv /\ pc.vm = "dAbsent"
      /\ UNCHANGED <<vm, disk, want, outgoing, destroying, touched, meddled, upsets>>
      /\ End("vm", step) /\ retire' = retire \ {"vm"}
  BY DEF StateInv, DeleteVmAbsent, cloud, history
<1>2. step \in {"gone", "observe"}
  OBVIOUS
<1> HIDE DEF step
<1>3. step \in Step /\ step \notin VmKnown /\ step \notin VmDelete
  BY <1>2, KnownSteps DEF Rest
<1>4. pc' \in [Res -> Step] /\ cur' \in Held /\ pc'.vm = step
  BY <1>1, <1>3, EndType, KnownSteps
<1>5. CASE destroying
  <2>1. UNCHANGED <<saved, gen>>
    BY <1>5 DEF DeleteVmAbsent
  <2>2. TypeOK'
    BY <1>1, <1>4, <2>1 DEF TypeOK, Held
  <2>3. GenInv'
    BY <1>1, <1>5, <2>1, GenKept DEF TypeOK
  <2>4. HoldInv'
    BY <1>1, <1>3, <1>4, <2>1 DEF HoldInv
  <2> QED BY <2>2, <2>3, <2>4 DEF StateInv
<1>6. CASE ~destroying
  <2>1. saved' = [saved EXCEPT !.vm = None] /\ gen' = [gen EXCEPT !.vm = @ + 1]
    BY <1>6 DEF DeleteVmAbsent
  <2>2. gen.vm \in Nat /\ gen.disk \in Nat /\ upsets \in 0..MaxUpsets
    BY <1>1, BoundAssumption DEF TypeOK, Generation
  <2>3. gen.vm < upsets
    BY <1>1, <1>6 DEF GenInv, VmDelete
  <2>4. gen'.vm = gen.vm + 1 /\ gen'.disk = gen.disk /\ saved'.vm = None
        /\ gen' \in [{"vm", "disk"} -> Generation]
    BY <1>1, <2>1, <2>2, <2>3, BoundAssumption DEF TypeOK, Generation
  <2>5. saved' \in [vm : Vm \cup {None}, disk : Disk \cup {None},
                    attDisk : Disk \cup {None}, attVm : Vm \cup {None}]
    BY <1>1, <2>1 DEF TypeOK
  <2>6. TypeOK'
    BY <1>1, <1>4, <2>4, <2>5 DEF TypeOK, Held
  <2>7. GenInv'
    BY <1>1, <1>3, <1>4, <2>2, <2>3, <2>4, BoundAssumption DEF GenInv
  <2>8. HoldInv'
    BY <1>1, <1>3, <1>4, <1>6 DEF HoldInv
  <2> QED BY <2>6, <2>7, <2>8 DEF StateInv
<1> QED BY <1>5, <1>6

-----------------------------------------------------------------------------
(* The handlers of the disk and of the attachment. *)

Saved == [vm : Vm \cup {None}, disk : Disk \cup {None},
          attDisk : Disk \cup {None}, attVm : Vm \cup {None}]

\* They leave the machine and its handler alone; no disk comes to go with its
\* machine, and one goes away only by its own deletion.
Aside ==
    /\ UNCHANGED <<vm, want, destroying>>
    /\ pc'.vm = pc.vm /\ cur'.vm = cur.vm /\ saved'.vm = saved.vm /\ gen'.vm = gen.vm
    /\ "vm" \in retire' <=> "vm" \in retire
    /\ disk' \in [Disk -> Volume]
    /\ \A d \in Disk : /\ Loose(d)' => Loose(d)
                       /\ Live(disk[d]) => Live(disk'[d]) \/ pc.disk = "dDelete"
                       /\ d \in meddled => d \in meddled' \/ ~Loose(d)

LEMMA AsideState ==
    ASSUME StateInv, Aside, pc' \in [Res -> Step], cur' \in Held,
           upsets' \in 0..MaxUpsets, upsets <= upsets',
           saved' \in Saved, outgoing' \in Disk \cup {None}, retire' \in SUBSET {"vm", "disk"},
           gen' \in [{"vm", "disk"} -> Nat], gen'.disk <= upsets',
           "disk" \in retire' => gen'.disk < upsets',
           touched' = touched, meddled' \subseteq meddled
    PROVE  StateInv'
<1>1. TypeOK /\ GenInv /\ HoldInv
  BY DEF StateInv
<1>2. upsets \in Nat /\ upsets' \in Nat /\ gen.vm \in Nat
  BY <1>1, BoundAssumption DEF TypeOK, Generation
<1>3. gen'.vm <= upsets'
  BY <1>1, <1>2 DEF GenInv, Aside
<1>4. gen' \in [{"vm", "disk"} -> Generation]
  BY <1>2, <1>3, BoundAssumption DEF Generation
<1>5. TypeOK'
  BY <1>1, <1>4 DEF TypeOK, Aside, Held, Saved
<1>6. GenInv'
  <2>1. LiveVm' = LiveVm
    BY DEF Aside, LiveVm
  <2> QED BY <1>1, <1>2, <1>3, <2>1 DEF GenInv, Aside
<1>7. HoldInv'
  BY <1>1 DEF HoldInv, Aside
<1> QED BY <1>5, <1>6, <1>7 DEF StateInv

\* A step with nothing to write in the engine.
LEMMA MovesAside ==
    ASSUME StateInv, NEW r \in {"disk", "att"}, UNCHANGED <<vm, engine, history>>,
           pc' \in [Res -> Step], cur' \in Held, cur'.vm = cur.vm,
           \A q \in Res : q # r => pc'[q] = pc[q],
           upsets' \in 0..MaxUpsets, upsets <= upsets', disk' \in [Disk -> Volume],
           \A d \in Disk : /\ Loose(d)' => Loose(d)
                           /\ Live(disk[d]) => Live(disk'[d]) \/ pc.disk = "dDelete"
    PROVE  Aside /\ StateInv'
<1>1. UNCHANGED <<want, gen, retire, saved, outgoing, destroying, touched, meddled>>
  BY DEF engine, history
<1>2. Aside
  BY <1>1 DEF Aside, Res
<1>3. /\ gen' \in [{"vm", "disk"} -> Nat] /\ gen'.disk <= upsets'
      /\ "disk" \in retire' => gen'.disk < upsets'
  <2>1. upsets \in Nat /\ upsets' \in Nat /\ gen \in [{"vm", "disk"} -> Nat]
    BY BoundAssumption DEF StateInv, TypeOK, Generation
  <2> QED BY <1>1, <2>1 DEF StateInv, GenInv
<1>4. StateInv'
  BY <1>1, <1>2, <1>3, AsideState DEF StateInv, TypeOK, Saved
<1> QED BY <1>2, <1>4

\* A step of theirs that asks the cloud for nothing.
LEMMA QuietAside ==
    ASSUME StateInv, NEW r \in {"disk", "att"}, NEW step, Moves(r, step),
           UNCHANGED <<cloud, engine, history>>
    PROVE  Aside /\ StateInv'
<1>1. UNCHANGED <<vm, disk>> /\ disk \in [Disk -> Volume]
  BY DEF cloud, StateInv, TypeOK
<1> QED BY <1>1, MovesAside DEF Moves, Loose

\* One that does with a disk what keeps it up.
LEMMA DiskAside ==
    ASSUME StateInv, NEW r \in {"disk", "att"}, NEW step, Moves(r, step),
           UNCHANGED <<engine, history>>, NEW d, NEW volume, SetDisk(d, volume),
           d \in Disk => /\ volume \in Volume
                         /\ Live(disk[d]) => Live(volume) \/ pc.disk = "dDelete"
                         /\ volume.on # None /\ ~volume.keep => Loose(d)
    PROVE  Aside /\ StateInv'
<1>1. /\ UNCHANGED vm /\ disk' \in [Disk -> Volume]
      /\ \A e \in Disk : disk'[e] = IF e = d THEN volume ELSE disk[e]
  BY SetDiskType DEF StateInv
<1>2. \A e \in Disk : /\ Loose(e)' => Loose(e)
                      /\ Live(disk[e]) => Live(disk'[e]) \/ pc.disk = "dDelete"
  BY <1>1 DEF Loose
<1> QED BY <1>1, <1>2, MovesAside DEF Moves

LEMMA DiskSteps ==
    /\ "disk" \in Res /\ "att" \in Res /\ DiskStep \subseteq Step /\ AttStep \subseteq Step
    /\ Rest \subseteq Step
BY DEF Step, Res

LEMMA PlanDiskState ==
    ASSUME StateInv, PlanDisk
    PROVE  Aside /\ StateInv'
<1>1. /\ TypeOK /\ GenInv /\ HoldInv
      /\ UNCHANGED <<vm, disk, want, destroying, cur, touched, meddled, upsets>>
  BY DEF StateInv, PlanDisk, cloud, history
<1>2. gen.vm \in Nat /\ gen.disk \in Nat /\ upsets \in 0..MaxUpsets /\ upsets \in Nat
  BY <1>1, BoundAssumption DEF TypeOK, Generation
<1>3. ASSUME NEW step \in {"done", "observe"}, Goto("disk", step),
             saved' \in Saved, saved'.vm = saved.vm, outgoing' \in Disk \cup {None},
             retire' \in SUBSET {"vm", "disk"}, "vm" \in retire' <=> "vm" \in retire,
             gen' \in [{"vm", "disk"} -> Nat], gen'.vm = gen.vm, gen'.disk <= upsets,
             "disk" \in retire' => gen'.disk < upsets
      PROVE  Aside /\ StateInv'
  <2>1. step \in Step
    BY DiskSteps DEF Rest, DiskStep
  <2>2. pc' \in [Res -> Step] /\ pc'.vm = pc.vm
    BY <1>1, <1>3, <2>1, GotoType, DiskSteps, KnownSteps
  <2>3. Aside
    BY <1>1, <1>3, <2>2 DEF Aside, Loose, TypeOK
  <2> QED BY <1>1, <1>2, <1>3, <2>2, <2>3, AsideState DEF TypeOK, Held
<1>4. CASE "disk" \in retire /\ saved.disk # None
  <2>1. /\ retire' = retire \ {"disk"} /\ outgoing' = saved.disk
        /\ saved' = [saved EXCEPT !.disk = None] /\ gen' = [gen EXCEPT !.disk = @ + 1]
        /\ Goto("disk", "observe")
    BY <1>4 DEF PlanDisk
  <2>2. saved' \in Saved /\ saved'.vm = saved.vm /\ outgoing' \in Disk \cup {None}
    BY <1>1, <2>1 DEF TypeOK, Saved
  <2>3. gen.disk < upsets
    BY <1>1, <1>4 DEF GenInv
  <2>4. /\ gen' \in [{"vm", "disk"} -> Nat] /\ gen'.vm = gen.vm /\ gen'.disk <= upsets
    BY <1>1, <1>2, <2>1, <2>3 DEF TypeOK
  <2> QED BY <1>1, <1>3, <2>1, <2>2, <2>4 DEF TypeOK
<1>5. CASE ~("disk" \in retire /\ saved.disk # None)
  <2> DEFINE step == IF /\ pc.disk = "planned" /\ saved.disk \in LiveDisk
                        /\ disk[saved.disk].size = want.size
                     THEN "done" ELSE "observe"
  <2>1. Goto("disk", step) /\ UNCHANGED <<retire, outgoing, saved, gen>> /\ step \in {"done", "observe"}
    BY <1>5 DEF PlanDisk
  <2> HIDE DEF step
  <2>2. gen \in [{"vm", "disk"} -> Nat]
    BY <1>1, BoundAssumption DEF TypeOK, Generation
  <2>3. saved' \in Saved /\ outgoing' \in Disk \cup {None} /\ retire' \in SUBSET {"vm", "disk"}
    BY <1>1, <2>1 DEF TypeOK, Saved
  <2>4. gen'.disk <= upsets /\ ("disk" \in retire' => gen'.disk < upsets)
    BY <1>1, <2>1 DEF GenInv
  <2> QED BY <1>3, <2>1, <2>2, <2>3, <2>4
<1> QED BY <1>4, <1>5

\* What the handler of the disk finds.
LEMMA FoundAside ==
    ASSUME StateInv, UNCHANGED <<cloud, engine, history>>, NEW step \in Step, Goto("disk", step),
           upsets' \in 0..MaxUpsets, upsets <= upsets',
           NEW d \in Disk \cup {None}, cur' = [cur EXCEPT !.disk = d]
    PROVE  Aside /\ StateInv'
<1>1. cur' \in Held /\ cur'.vm = cur.vm
  BY DEF StateInv, TypeOK, Held
<1>2. pc' \in [Res -> Step] /\ \A q \in Res : q # "disk" => pc'[q] = pc[q]
  BY GotoType, DiskSteps DEF StateInv
<1>3. UNCHANGED <<vm, disk>> /\ disk \in [Disk -> Volume]
  BY DEF cloud, StateInv, TypeOK
<1> QED BY <1>1, <1>2, <1>3, MovesAside DEF Loose

LEMMA ObserveDiskState ==
    ASSUME StateInv, ObserveDisk
    PROVE  Aside /\ StateInv'
<1>1. /\ TypeOK /\ UNCHANGED <<cloud, engine, history, upsets>>
      /\ upsets \in 0..MaxUpsets /\ upsets <= upsets
  BY BoundAssumption DEF StateInv, TypeOK, ObserveDisk
<1>2. CASE Goto("disk", "create") /\ UNCHANGED cur
  <2>1. cur.disk \in Disk \cup {None} /\ cur' = [cur EXCEPT !.disk = cur.disk]
    BY <1>1, <1>2 DEF TypeOK
  <2>2. "create" \in Step
    BY DiskSteps DEF DiskStep
  <2> QED BY <1>1, <1>2, <2>1, <2>2, FoundAside
<1>3. CASE Fail("disk")
  <2>1. Goto("disk", "failed") /\ cur' = [cur EXCEPT !.disk = None] /\ "failed" \in Step
    BY <1>3, DiskSteps DEF Fail, End, Rest
  <2> QED BY <1>1, <2>1, FoundAside
<1>4. ASSUME NEW d \in FoundDisk, cur' = [cur EXCEPT !.disk = d], Goto("disk", Sized(d))
      PROVE  Aside /\ StateInv'
  <2>1. d \in Disk
    BY DEF FoundDisk, LiveDisk
  <2>2. Sized(d) \in Step
    BY DiskSteps DEF DiskStep, Sized
  <2> QED BY <1>1, <1>4, <2>1, <2>2, FoundAside
<1> QED BY <1>2, <1>3, <1>4 DEF ObserveDisk

LEMMA CreateDiskState ==
    ASSUME StateInv, CreateDiskCall
    PROVE  Aside /\ StateInv'
<1>1. TypeOK /\ UNCHANGED <<engine, history>> /\ cur \in Held
  BY DEF StateInv, TypeOK, CreateDiskCall, Held
<1>2. CASE Lost("disk") /\ UNCHANGED cloud
  BY <1>1, <1>2, LostMoves, QuietAside, DiskSteps
<1>3. ASSUME NEW d \in Disk, CreateDisk(d),
             \/ cur' = [cur EXCEPT !.disk = d] /\ Goto("disk", "created") /\ Calm
             \/ Lost("disk")
      PROVE  Aside /\ StateInv'
  <2> DEFINE new == [status |-> "Available", gen |-> gen.disk,
                     size |-> want.size, on |-> None, keep |-> TRUE]
  <2>1. \/ UNCHANGED cloud
        \/ SetDisk(d, new) /\ disk[d].status = "unborn"
    BY <1>3 DEF CreateDisk, FreshDisk
  <2>2. new \in Volume /\ new.on = None
    BY <1>1 DEF TypeOK, Volume, DiskStatus
  <2> HIDE DEF new
  <2>3. /\ UNCHANGED vm /\ disk' \in [Disk -> Volume]
        /\ \A e \in Disk : (Loose(e)' => Loose(e)) /\ (Live(disk[e]) => Live(disk'[e]))
    <3>1. CASE UNCHANGED cloud
      BY <1>1, <3>1 DEF cloud, TypeOK, Loose
    <3>2. CASE SetDisk(d, new) /\ disk[d].status = "unborn"
      BY <1>1, <2>2, <3>2, SetDiskType DEF Loose, Live
    <3> QED BY <2>1, <3>1, <3>2
  <2>4. CASE cur' = [cur EXCEPT !.disk = d] /\ Goto("disk", "created") /\ Calm
    <3>1. cur' \in Held /\ cur'.vm = cur.vm
      BY <1>1, <2>4 DEF Held
    <3>2. "created" \in Step
      BY DiskSteps DEF DiskStep
    <3>3. pc' \in [Res -> Step] /\ \A q \in Res : q # "disk" => pc'[q] = pc[q]
      BY <1>1, <2>4, <3>2, GotoType, DiskSteps
    <3>4. upsets' \in 0..MaxUpsets /\ upsets <= upsets'
      BY <1>1, <2>4, UpsetType
    <3> QED BY <1>1, <2>3, <3>1, <3>3, <3>4, MovesAside
  <2>5. CASE Lost("disk")
    <3>1. Moves("disk", "created")
      BY <1>1, <2>5, LostMoves, DiskSteps
    <3> QED BY <1>1, <2>3, <3>1, MovesAside DEF Moves
  <2> QED BY <1>3, <2>4, <2>5
<1> QED BY <1>2, <1>3 DEF CreateDiskCall

\* A request of a handler about a disk, if it is granted, keeps the disk up.
LEMMA CallAside ==
    ASSUME StateInv, NEW r \in {"disk", "att"}, NEW STATE allowed, NEW d, NEW volume,
           NEW step \in Step, Call(r, allowed, SetDisk(d, volume), step),
           UNCHANGED <<engine, history>>,
           allowed /\ d \in Disk => /\ volume \in Volume
                                    /\ Live(disk[d]) => Live(volume) \/ pc.disk = "dDelete"
                                    /\ volume.on # None /\ ~volume.keep => Loose(d)
    PROVE  Aside /\ StateInv'
<1> DEFINE effect == SetDisk(d, volume)
<1>1. Moves(r, step) /\ ((allowed /\ effect) \/ UNCHANGED cloud)
  <2>1. Call(r, allowed, effect, step) /\ r \in Res
    BY DiskSteps
  <2> HIDE DEF effect
  <2> QED BY <2>1, CallMoves DEF StateInv
<1>2. CASE allowed /\ effect
  BY <1>1, <1>2, DiskAside
<1>3. CASE UNCHANGED cloud
  BY <1>1, <1>3, QuietAside
<1> QED BY <1>1, <1>2, <1>3

LEMMA ResizeDiskState ==
    ASSUME StateInv, ResizeDisk \/ AwaitDisk
    PROVE  Aside /\ StateInv'
<1> DEFINE d == cur.disk
<1>1. /\ TypeOK /\ UNCHANGED <<engine, history>>
      /\ d \in Disk => disk[d] \in Volume
  BY DEF StateInv, TypeOK, ResizeDisk, AwaitDisk
<1>2. CASE AwaitDisk
  <2>1. Sized(d) \in Step
    BY DiskSteps DEF DiskStep, Sized
  <2>2. Wait("disk", disk[d].status = "Available", DiskBusy(d), Sized(d))
    BY <1>2 DEF AwaitDisk
  <2> HIDE DEF d
  <2> QED BY <1>1, <2>1, <2>2, WaitMoves, QuietAside, DiskSteps
<1>3. CASE ResizeDisk
  <2> DEFINE volume == [disk[d] EXCEPT !.size = want.size]
  <2>1. CASE Fail("disk") /\ (Upset \/ Calm) /\ UNCHANGED cloud
    BY <1>1, <2>1, FailMoves, QuietAside, DiskSteps
  <2>2. CASE Call("disk", Grow(d), SetDisk(d, volume), "final")
    <3>1. d \in Disk => /\ volume \in Volume /\ volume.status = disk[d].status
                        /\ volume.on = disk[d].on /\ volume.keep = disk[d].keep
      BY <1>1 DEF Volume, TypeOK
    <3>2. "final" \in Step
      BY DiskSteps DEF DiskStep
    <3> HIDE DEF volume
    <3> QED BY <1>1, <2>2, <3>1, <3>2, CallAside DEF Live, Loose
  <2> QED BY <1>3, <2>1, <2>2 DEF ResizeDisk
<1> QED BY <1>2, <1>3

LEMMA FinalDiskState ==
    ASSUME StateInv, FinalDisk
    PROVE  Aside /\ StateInv'
<1>1. /\ TypeOK /\ GenInv
      /\ UNCHANGED <<vm, disk, want, gen, retire, outgoing, destroying, touched, meddled, upsets>>
  BY DEF StateInv, FinalDisk, cloud, history
<1>2. PICK step \in {"done", "failed"} : End("disk", step)
  BY DEF FinalDisk, Fail
<1>3. step \in Step
  BY DiskSteps DEF Rest
<1>4. /\ pc' \in [Res -> Step] /\ pc'.vm = pc.vm /\ cur' \in Held /\ cur'.vm = cur.vm
  BY <1>1, <1>2, <1>3, EndType, DiskSteps, KnownSteps
<1>5. saved' \in Saved /\ saved'.vm = saved.vm
  <2>1. saved \in Saved /\ cur.disk \in Disk \cup {None}
    BY <1>1 DEF TypeOK, Saved
  <2>2. UNCHANGED saved \/ saved' = [saved EXCEPT !.disk = cur.disk]
    BY DEF FinalDisk
  <2> QED BY <2>1, <2>2 DEF Saved
<1>6. Aside
  BY <1>1, <1>4, <1>5 DEF Aside, Loose, TypeOK
<1>7. upsets \in Nat /\ gen \in [{"vm", "disk"} -> Nat]
  BY <1>1, BoundAssumption DEF TypeOK, Generation
<1> QED BY <1>1, <1>4, <1>5, <1>6, <1>7, AsideState DEF TypeOK, GenInv

LEMMA DeleteDiskState ==
    ASSUME StateInv, StartDeleteDisk \/ DeleteDisk \/ DeleteDiskAbsent
    PROVE  Aside /\ StateInv'
<1>1. TypeOK /\ GenInv
  BY DEF StateInv
<1>2. CASE StartDeleteDisk
  <2>1. UNCHANGED <<cloud, engine, history, upsets>> /\ upsets \in 0..MaxUpsets /\ upsets <= upsets
    BY <1>1, <1>2, BoundAssumption DEF StartDeleteDisk, TypeOK
  <2>2. "dDelete" \in Step
    BY DiskSteps DEF DiskStep
  <2>3. PICK d \in Disk \cup {None} : cur' = [cur EXCEPT !.disk = d]
    BY <1>1, <1>2 DEF StartDeleteDisk, TypeOK
  <2> QED BY <1>2, <2>1, <2>2, <2>3, FoundAside DEF StartDeleteDisk
<1>3. CASE DeleteDisk
  <2> DEFINE d == cur.disk
             volume == [disk[d] EXCEPT !.status = "gone"]
  <2>1. UNCHANGED <<engine, history>> /\ pc.disk = "dDelete" /\ "dAbsent" \in Step
    BY <1>3, DiskSteps DEF DeleteDisk, DiskStep
  <2>2. CASE Proceed("disk", "dAbsent") /\ UNCHANGED cloud
    BY <1>1, <2>1, <2>2, ProceedMoves, QuietAside, DiskSteps
  <2>3. CASE Call("disk", disk[d].status = "Available", SetDisk(d, volume), "dAbsent")
    <3>1. d \in Disk => disk[d] \in Volume
      BY <1>1 DEF TypeOK
    <3>2. d \in Disk => volume \in Volume /\ volume.on = disk[d].on /\ volume.keep = disk[d].keep
      BY <3>1 DEF Volume, DiskStatus
    <3> HIDE DEF volume
    <3> QED BY <1>1, <2>1, <2>3, <3>2, CallAside DEF Loose
  <2> QED BY <1>3, <2>2, <2>3 DEF DeleteDisk
<1>4. CASE DeleteDiskAbsent
  <2> DEFINE step == IF ~destroying THEN "done" ELSE IF outgoing # None THEN "idle" ELSE "gone"
  <2>1. /\ End("disk", step) /\ outgoing' = None
        /\ UNCHANGED <<vm, disk, want, gen, retire, saved, destroying, touched, meddled, upsets>>
    BY <1>4 DEF DeleteDiskAbsent, cloud, history
  <2>2. step \in Step
    BY DiskSteps DEF Rest
  <2> HIDE DEF step
  <2>3. /\ pc' \in [Res -> Step] /\ pc'.vm = pc.vm /\ cur' \in Held /\ cur'.vm = cur.vm
    BY <1>1, <2>1, <2>2, EndType, DiskSteps, KnownSteps
  <2>4. Aside
    BY <1>1, <2>1, <2>3 DEF Aside, Loose, TypeOK
  <2>5. upsets \in Nat /\ gen \in [{"vm", "disk"} -> Nat] /\ saved \in Saved
    BY <1>1, BoundAssumption DEF TypeOK, Generation, Saved
  <2> QED BY <1>1, <2>1, <2>3, <2>4, <2>5, AsideState DEF TypeOK, GenInv
<1> QED BY <1>2, <1>3, <1>4

LEMMA ReconcileDiskState ==
    ASSUME StateInv, ReconcileDisk
    PROVE  Aside /\ StateInv'
BY PlanDiskState, ObserveDiskState, CreateDiskState, ResizeDiskState, FinalDiskState,
   DeleteDiskState DEF ReconcileDisk

LEMMA AttachState ==
    ASSUME StateInv, \/ PlanAtt \/ DetachPrevious \/ AwaitDetached \/ LookAtDisk \/ Attach
                     \/ KeepDisk \/ StartDeleteAtt \/ DetachDiskCall
    PROVE  Aside /\ StateInv'
<1>1. TypeOK /\ UNCHANGED <<engine, history>> /\ \A d \in Disk : disk[d] \in Volume
  BY DEF StateInv, TypeOK, PlanAtt, DetachPrevious, AwaitDetached, LookAtDisk, Attach,
     KeepDisk, StartDeleteAtt, DetachDiskCall, engine, history
<1>2. {"dDetach", "done", "previous", "detached", "look", "attach", "attached", "keep",
       "dDetached"} \subseteq Step /\ "att" \in Res
  BY DiskSteps DEF AttStep, Rest
<1>3. ASSUME NEW step \in Step, Moves("att", step), UNCHANGED cloud
      PROVE  Aside /\ StateInv'
  BY <1>1, <1>3, QuietAside
<1>4. CASE PlanAtt \/ StartDeleteAtt
  <2>1. PICK step \in {"dDetach", "done", "previous"} : Goto("att", step)
    BY <1>4 DEF PlanAtt, StartDeleteAtt
  <2>2. UNCHANGED <<cloud, cur, upsets>>
    BY <1>4 DEF PlanAtt, StartDeleteAtt
  <2>3. Proceed("att", step) /\ step \in Step
    BY <1>2, <2>1, <2>2 DEF Proceed, Calm
  <2> QED BY <1>1, <1>2, <1>3, <2>2, <2>3, ProceedMoves
<1>5. ASSUME NEW d, NEW step \in {"detached", "dDetached"},
             Call("att", disk[d].status = "In_use", DetachDisk(d), step)
      PROVE  Aside /\ StateInv'
  <2> DEFINE volume == [disk[d] EXCEPT !.status = "Detaching"]
  <2>1. Call("att", disk[d].status = "In_use", SetDisk(d, volume), step)
    BY <1>5 DEF DetachDisk
  <2>2. d \in Disk => /\ volume \in Volume /\ volume.on = disk[d].on
                      /\ volume.keep = disk[d].keep /\ Live(volume)
    BY <1>1 DEF Volume, DiskStatus, Live
  <2> HIDE DEF volume
  <2> QED BY <1>1, <1>2, <2>1, <2>2, CallAside DEF Loose
<1>6. CASE DetachPrevious
  <2>1. CASE Proceed("att", "look") /\ UNCHANGED cloud
    BY <1>1, <1>2, <1>3, <2>1, ProceedMoves
  <2> QED BY <1>5, <1>6, <2>1 DEF DetachPrevious
<1>7. CASE AwaitDetached
  <2>1. PICK d : Wait("att", disk[d].status = "Available" \/ ~Live(disk[d]), DiskBusy(d), "look")
    BY <1>7 DEF AwaitDetached
  <2> QED BY <1>1, <1>2, <1>3, <2>1, WaitMoves
<1>8. CASE LookAtDisk
  <2>1. \/ Fail("att") /\ Calm
        \/ \E step \in {"attach", "attached", "keep"} : Proceed("att", step)
    BY <1>8 DEF LookAtDisk
  <2>2. UNCHANGED cloud
    BY <1>8 DEF LookAtDisk
  <2> QED BY <1>1, <1>2, <1>3, <2>1, <2>2, ProceedMoves, FailMoves
<1>9. CASE Attach
  <2> DEFINE d == saved.disk
             volume == [disk[d] EXCEPT !.status = "Attaching", !.on = saved.vm, !.keep = TRUE]
  <2>1. Call("att", Accepts(d, saved.vm), SetDisk(d, volume), "attached")
    BY <1>9 DEF Attach, AttachDisk
  <2>2. saved.vm \in Vm \cup {None}
    BY <1>1 DEF TypeOK
  <2>3. d \in Disk => volume \in Volume /\ volume.keep /\ Live(volume)
    <3> HIDE DEF d
    <3> QED BY <1>1, <2>2 DEF Volume, DiskStatus, Live
  <2> HIDE DEF volume, d
  <2> QED BY <1>1, <1>2, <2>1, <2>3, CallAside
<1>10. CASE KeepDisk
  <2> DEFINE d == saved.disk
             volume == [disk[d] EXCEPT !.keep = TRUE]
  <2>1. Call("att", Live(disk[d]), SetDisk(d, volume), "attached")
    BY <1>10 DEF KeepDisk
  <2>2. d \in Disk => volume \in Volume /\ volume.keep /\ volume.status = disk[d].status
    BY <1>1 DEF Volume
  <2> HIDE DEF volume
  <2> QED BY <1>1, <1>2, <2>1, <2>2, CallAside DEF Live
<1>11. CASE DetachDiskCall
  BY <1>5, <1>11 DEF DetachDiskCall
<1> QED BY <1>4, <1>6, <1>7, <1>8, <1>9, <1>10, <1>11

LEMMA FinalAttState ==
    ASSUME StateInv, FinalAtt \/ AwaitDetachedDisk
    PROVE  Aside /\ StateInv'
<1>1. /\ TypeOK /\ GenInv
      /\ UNCHANGED <<vm, disk, want, gen, retire, outgoing, destroying, touched>>
  BY DEF StateInv, FinalAtt, AwaitDetachedDisk, cloud, history
<1>2. ASSUME NEW step \in Step, Moves("att", step) \/ (End("att", step) /\ Calm),
             saved' \in Saved, saved'.vm = saved.vm,
             meddled' \subseteq meddled,
             \A d \in Disk : d \in meddled => d \in meddled' \/ ~Loose(d)
      PROVE  Aside /\ StateInv'
  <2>1. /\ pc' \in [Res -> Step] /\ pc'.vm = pc.vm /\ pc'.disk = pc.disk
        /\ cur' \in Held /\ cur'.vm = cur.vm
        /\ upsets' \in 0..MaxUpsets /\ upsets <= upsets'
    <3>1. CASE Moves("att", step)
      BY <3>1 DEF Moves, Res
    <3>2. CASE End("att", step) /\ Calm
      BY <1>1, <1>2, <3>2, EndType, UpsetType DEF Res
    <3> QED BY <1>2, <3>1, <3>2
  <2>2. Aside
    BY <1>1, <1>2, <2>1 DEF Aside, Loose, TypeOK
  <2>3. /\ gen' \in [{"vm", "disk"} -> Nat] /\ gen'.disk <= upsets'
        /\ "disk" \in retire' => gen'.disk < upsets'
    <3>1. upsets \in Nat /\ upsets' \in Nat /\ gen \in [{"vm", "disk"} -> Nat]
      BY <1>1, <2>1, BoundAssumption DEF TypeOK, Generation
    <3> QED BY <1>1, <2>1, <3>1 DEF GenInv
  <2> QED BY <1>1, <1>2, <2>1, <2>2, <2>3, AsideState DEF TypeOK
<1>3. {"done", "gone", "look"} \subseteq Step /\ "att" \in Res /\ saved \in Saved
  BY <1>1, DiskSteps DEF Rest, AttStep, TypeOK, Saved
<1>4. CASE Fail("att") /\ (Upset \/ Calm) /\ UNCHANGED <<saved, meddled>>
  BY <1>1, <1>2, <1>3, <1>4, FailMoves
<1>5. CASE FinalAtt
  <2> DEFINE d == saved.disk
  <2>1. CASE /\ disk[d].keep /\ End("att", "done") /\ Calm
             /\ saved' = [saved EXCEPT !.attDisk = d, !.attVm = saved.vm]
             /\ meddled' = meddled \ {d}
    <3>1. saved' \in Saved /\ saved'.vm = saved.vm
      BY <1>3, <2>1 DEF Saved
    <3> QED BY <1>2, <1>3, <2>1, <3>1 DEF Loose
  <2> QED BY <1>4, <1>5, <2>1 DEF FinalAtt
<1>6. CASE AwaitDetachedDisk
  <2> DEFINE step == IF destroying THEN "gone" ELSE "look"
  <2>1. UNCHANGED meddled
    BY <1>6 DEF AwaitDetachedDisk, history
  <2>2. CASE /\ Proceed("att", step)
             /\ saved' = IF destroying THEN saved
                         ELSE [saved EXCEPT !.attDisk = None, !.attVm = None]
    <3>1. saved' \in Saved /\ saved'.vm = saved.vm
      BY <1>3, <2>2 DEF Saved
    <3>2. step \in Step
      BY <1>3
    <3> HIDE DEF step
    <3> QED BY <1>1, <1>2, <1>3, <2>1, <2>2, <3>1, <3>2, ProceedMoves
  <2> QED BY <1>4, <1>6, <2>1, <2>2 DEF AwaitDetachedDisk
<1> QED BY <1>5, <1>6

LEMMA ReconcileAttState ==
    ASSUME StateInv, ReconcileAtt
    PROVE  Aside /\ StateInv'
BY AttachState, FinalAttState DEF ReconcileAtt

-----------------------------------------------------------------------------
(* The engine and the operators. *)

LEMMA EngineState ==
    ASSUME StateInv, Rerun \/ (\E changes \in Edits : Edit(changes)) \/ Destroy \/ ProcessDies
    PROVE  /\ StateInv' /\ pc'.vm \in Rest
           /\ UNCHANGED <<vm, disk, gen, saved, meddled>>
<1>1. TypeOK /\ GenInv /\ HoldInv /\ pc \in [Res -> Step]
  BY DEF StateInv, TypeOK
<1>2. upsets \in Nat /\ MaxUpsets \in Nat /\ upsets \in 0..MaxUpsets /\ upsets <= upsets
      /\ gen.vm \in Nat /\ gen.disk \in Nat
  BY <1>1, BoundAssumption DEF TypeOK, Generation
<1>3. "vm" \in Res /\ Rest \subseteq Step /\ Rest \cap VmKnown = {} /\ Rest \cap VmDelete = {}
  BY KnownSteps
<1>4. {"idle", "planned", "failed"} \subseteq Rest
  BY DEF Rest
<1>5. ASSUME pc' \in [Res -> Step], pc'.vm \in Rest, cur' \in Held, upsets' \in 0..MaxUpsets,
             upsets <= upsets', touched' \in BOOLEAN,
             UNCHANGED <<vm, disk, want, gen, retire, saved, outgoing, destroying, meddled>>
      PROVE  StateInv'
  <2>1. TypeOK'
    BY <1>1, <1>5 DEF TypeOK, Held
  <2>2. LiveVm' = LiveVm
    BY <1>5 DEF LiveVm
  <2>3. GenInv'
    BY <1>1, <1>3, <1>5, <2>2, GenKept
  <2>4. HoldInv'
    BY <1>1, <1>3, <1>5 DEF HoldInv
  <2> QED BY <2>1, <2>3, <2>4 DEF StateInv
<1>6. CASE Rerun
  <2>1. /\ AtRest /\ touched' \in BOOLEAN
        /\ UNCHANGED <<vm, disk, want, gen, retire, saved, outgoing, destroying, meddled, cur,
                       upsets>>
    BY <1>1, <1>6 DEF Rerun, Plan, TypeOK, cloud, engine
  <2>2. pc' \in [Res -> Step] /\ pc'.vm \in Rest
    <3>1. \A r \in Res : pc[r] \in Rest
      BY <2>1 DEF AtRest
    <3> QED BY <1>3, <1>4, <1>6, <3>1 DEF Rerun, Plan
  <2> QED BY <1>1, <1>2, <1>5, <2>1, <2>2 DEF TypeOK, Held
<1>7. ASSUME NEW changes \in Edits, Edit(changes)
      PROVE  StateInv' /\ pc'.vm \in Rest /\ UNCHANGED <<vm, disk, gen, saved, meddled>>
  <2>1. /\ AtRest /\ ~destroying /\ Plan /\ upsets' = upsets + 1 /\ upsets' \in 0..MaxUpsets
        /\ UNCHANGED <<vm, disk, gen, saved, outgoing, destroying, meddled, cur>>
    BY <1>2, <1>7 DEF Edit, Upset, cloud
  <2>2. want' \in [type : Type, image : Image, size : Type]
    <3>1. want.type \in Type /\ want.image \in Image /\ want.size \in Type
      BY <1>1 DEF TypeOK
    <3>2. 3 - want.type \in Type /\ 2 \in Type /\ 2 \in Image
      BY <3>1 DEF Type, Image
    <3> QED BY <1>7, <3>1, <3>2 DEF Edit
  <2>3. retire' \in SUBSET {"vm", "disk"}
    BY <1>1, <1>7 DEF Edit, TypeOK
  <2>4. pc' \in [Res -> Step] /\ pc'.vm \in Rest /\ touched' \in BOOLEAN
    <3>1. \A r \in Res : pc[r] \in Rest
      BY <2>1 DEF AtRest
    <3> QED BY <1>1, <1>3, <1>4, <2>1, <3>1 DEF Plan, TypeOK
  <2>5. TypeOK'
    BY <1>1, <2>1, <2>2, <2>3, <2>4 DEF TypeOK
  <2>6. GenInv'
    BY <1>1, <1>2, <1>3, <2>1, <2>4 DEF GenInv
  <2>7. HoldInv'
    BY <1>1, <1>3, <2>1, <2>4 DEF HoldInv
  <2> QED BY <2>1, <2>4, <2>5, <2>6, <2>7 DEF StateInv
<1>8. CASE Destroy
  <2>1. /\ saved.vm # None /\ destroying' = TRUE /\ pc' = [r \in Res |-> "idle"]
        /\ UNCHANGED <<vm, disk, want, gen, retire, saved, outgoing, cur, touched, meddled, upsets>>
    BY <1>8 DEF Destroy, cloud, history
  <2>2. pc' \in [Res -> Step] /\ pc'.vm \in Rest
    BY <1>3, <1>4, <2>1
  <2>3. TypeOK'
    BY <1>1, <2>1, <2>2 DEF TypeOK
  <2>4. GenInv'
    BY <1>1, <1>2, <2>1, GenKept
  <2>5. HoldInv'
    BY <1>3, <2>1, <2>2 DEF HoldInv
  <2> QED BY <2>1, <2>2, <2>3, <2>4, <2>5 DEF StateInv
<1>9. CASE ProcessDies
  <2>1. /\ Upset /\ cur' \in Held /\ touched' \in BOOLEAN
        /\ UNCHANGED <<vm, disk, want, gen, retire, saved, outgoing, destroying, meddled>>
    BY <1>1, <1>9 DEF ProcessDies, TypeOK, cloud, engine, history, Held
  <2>2. pc' \in [Res -> Step] /\ pc'.vm \in Rest
    BY <1>1, <1>3, <1>4, <1>9 DEF ProcessDies
  <2> QED BY <1>1, <1>5, <2>1, <2>2, UpsetType
<1> QED BY <1>6, <1>7, <1>8, <1>9, <1>1 DEF Rerun, Destroy, ProcessDies, cloud, engine, history


\* What disks have to fear from a step, and what a step may make of them: one
\* goes by its own deletion or because it was to go with its machine, which
\* only an operator arranges, and only a deployment that ended forgives.
Keeps ==
    \A d \in Disk :
      /\ Live(disk[d]) => Live(disk'[d]) \/ pc.disk = "dDelete" \/ Loose(d)
      /\ Loose(d)' /\ d \notin meddled' => Loose(d) /\ d \notin meddled

\* A step of the cloud or of the console.
LEMMA CloudState ==
    ASSUME StateInv, UNCHANGED <<engine, pc, cur>>, Machines, disk' \in [Disk -> Volume],
           upsets' \in 0..MaxUpsets, upsets <= upsets', touched' \in BOOLEAN,
           meddled' \subseteq Vm \cup Disk,
           \/ \A i \in Vm : Live(vm[i]) => Live(vm'[i])
           \/ upsets < upsets'
    PROVE  StateInv'
<1>1. /\ TypeOK /\ GenInv /\ HoldInv
      /\ UNCHANGED <<want, gen, retire, saved, outgoing, destroying, pc, cur>>
  BY DEF StateInv, engine
<1>2. upsets \in Nat /\ upsets' \in Nat /\ gen.vm \in Nat /\ gen.disk \in Nat
  BY <1>1, BoundAssumption DEF TypeOK, Generation
<1>3. TypeOK'
  BY <1>1 DEF TypeOK, Machines
<1>4. GenInv'
  <2>1. CASE \A i \in Vm : Live(vm[i]) => Live(vm'[i])
    <3>1. LiveVm \subseteq LiveVm'
      BY <2>1 DEF LiveVm
    <3>2. ~destroying' =>
            /\ ~destroying
            /\ "vm" \in retire' \/ (saved'.vm # None /\ saved'.vm \notin LiveVm')
                 => "vm" \in retire \/ (saved.vm # None /\ saved.vm \notin LiveVm)
            /\ pc'.vm \in VmDelete => "vm" \in retire'
      BY <1>1, <3>1 DEF GenInv
    <3>3. UNCHANGED gen /\ ("disk" \in retire' => "disk" \in retire)
      BY <1>1
    <3> QED BY <1>1, <3>2, <3>3, GenKept
  <2>2. CASE upsets < upsets'
    <3>1. gen.vm <= upsets /\ gen.disk <= upsets
      BY <1>1 DEF GenInv
    <3>2. gen'.vm < upsets' /\ gen'.disk < upsets'
      BY <1>1, <1>2, <2>2, <3>1
    <3>3. gen'.vm <= upsets' /\ gen'.disk <= upsets'
      BY <1>1, <1>2, <3>2
    <3> QED BY <1>1, <3>2, <3>3 DEF GenInv
  <2> QED BY <2>1, <2>2
<1>5. HoldInv'
  BY <1>1 DEF HoldInv
<1> QED BY <1>3, <1>4, <1>5 DEF StateInv

LEMMA TaskState ==
    ASSUME StateInv, TaskEnds
    PROVE  StateInv' /\ Machines /\ Keeps /\ UNCHANGED <<engine, pc>>
<1>1. TypeOK /\ upsets \in 0..MaxUpsets /\ upsets <= upsets
      /\ vm \in [Vm -> Machine] /\ disk \in [Disk -> Volume]
  BY BoundAssumption DEF StateInv, TypeOK
<1>2. ASSUME NEW i \in Vm, VmTaskEnds(i)
      PROVE  StateInv' /\ Machines /\ Keeps /\ UNCHANGED <<engine, pc>>
  <2>1. /\ UNCHANGED <<engine, pc, cur, history, upsets>> /\ SetVm(i, VmTask[vm[i].status])
        /\ vm[i].status \in {"Pending", "Starting", "Stopping"}
    BY <1>2 DEF VmTaskEnds, VmBusy, VmTask
  <2>2. VmTask[vm[i].status] \in VmStatus \ {"unborn", "gone"} /\ Live(vm[i])
    BY <2>1 DEF VmTask, VmStatus, Live
  <2>3. Machines /\ UNCHANGED disk /\ \A j \in Vm : Live(vm[j]) => Live(vm'[j])
    BY <1>1, <2>1, <2>2, SetVmType
  <2>4. touched' \in BOOLEAN /\ meddled' \subseteq Vm \cup Disk /\ UNCHANGED meddled
    BY <1>1, <2>1 DEF history, TypeOK
  <2>5. Keeps
    BY <2>3, <2>4 DEF Keeps, Loose
  <2> QED BY <1>1, <2>1, <2>3, <2>4, <2>5, CloudState
<1>3. ASSUME NEW d \in Disk, DiskTaskEnds(d)
      PROVE  StateInv' /\ Machines /\ Keeps /\ UNCHANGED <<engine, pc>>
  <2> DEFINE status == IF disk[d].status = "Attaching" THEN "In_use" ELSE "Available"
             on == IF disk[d].status = "Attaching" THEN disk[d].on ELSE None
             volume == [disk[d] EXCEPT !.status = status, !.on = on]
  <2>1. /\ UNCHANGED <<vm, engine, pc, cur, history, upsets>>
        /\ disk' = [disk EXCEPT ![d] = volume]
    BY <1>3 DEF DiskTaskEnds
  <2>2. status \in DiskStatus \ {"unborn", "gone"} /\ on \in {None, disk[d].on}
    BY DEF DiskStatus
  <2>3. disk[d] \in Volume
    BY <1>1
  <2> HIDE DEF status, on
  <2>4. /\ volume \in Volume /\ Live(volume) /\ volume.keep = disk[d].keep
        /\ volume.on \in {None, disk[d].on}
    BY <2>2, <2>3 DEF Volume, Live
  <2> HIDE DEF volume
  <2>5. disk' \in [Disk -> Volume] /\ \A e \in Disk : disk'[e] = IF e = d THEN volume ELSE disk[e]
    BY <1>1, <2>1, <2>4
  <2>6. /\ touched' \in BOOLEAN /\ meddled' \subseteq Vm \cup Disk /\ UNCHANGED meddled
        /\ Machines
    BY <1>1, <2>1 DEF history, TypeOK, Machines
  <2>7. Keeps
    BY <2>4, <2>5, <2>6 DEF Keeps, Loose
  <2> QED BY <1>1, <2>1, <2>5, <2>6, <2>7, CloudState
<1> QED BY <1>2, <1>3 DEF TaskEnds

LEMMA ConsoleVmState ==
    ASSUME StateInv, NEW i \in Vm, ConsoleVm(i)
    PROVE  StateInv' /\ Machines /\ Keeps /\ UNCHANGED <<engine, pc>>
<1>1. /\ TypeOK /\ vm \in [Vm -> Machine] /\ disk \in [Disk -> Volume]
      /\ upsets' \in 0..MaxUpsets /\ upsets < upsets' /\ upsets <= upsets'
      /\ UNCHANGED <<engine, pc, cur>> /\ touched' \in BOOLEAN
      /\ meddled \subseteq Vm \cup Disk
  BY BoundAssumption DEF StateInv, TypeOK, ConsoleVm, Upset
<1>2. ASSUME Machines, UNCHANGED <<disk, meddled>>
      PROVE  StateInv' /\ Machines /\ Keeps /\ UNCHANGED <<engine, pc>>
  <2>1. Keeps
    BY <1>2 DEF Keeps, Loose
  <2> QED BY <1>1, <1>2, <2>1, CloudState
<1>3. CASE vm[i].status \in {"Running", "Stopped"} /\ Release(i) /\ meddled' = meddled \cup {i}
  <2>1. /\ Machines /\ disk' \in [Disk -> Volume]
        /\ \A d \in Disk : /\ Loose(d)' => Loose(d)
                           /\ Live(disk[d]) => Live(disk'[d]) \/ Loose(d)
    BY <1>1, <1>3, ReleaseType
  <2>2. Keeps
    BY <1>3, <2>1 DEF Keeps
  <2>3. meddled' \subseteq Vm \cup Disk
    BY <1>1, <1>3
  <2> QED BY <1>1, <2>1, <2>2, <2>3, CloudState
<1>4. ASSUME NEW from \in {"Running", "Stopped"}, vm[i].status = from,
             NEW status \in {"Stopping", "Starting"}, SetVm(i, status), UNCHANGED meddled
      PROVE  StateInv' /\ Machines /\ Keeps /\ UNCHANGED <<engine, pc>>
  <2>1. Live(vm[i]) /\ status \in VmStatus \ {"unborn", "gone"}
    BY <1>4 DEF Live, VmStatus
  <2> QED BY <1>1, <1>2, <1>4, <2>1, SetVmType
<1>5. ASSUME NEW machine, vm' = [vm EXCEPT ![i] = machine], UNCHANGED <<disk, meddled>>,
             machine \in Machine, machine.status = vm[i].status,
             machine.gen = vm[i].gen, machine.groups = vm[i].groups
      PROVE  StateInv' /\ Machines /\ Keeps /\ UNCHANGED <<engine, pc>>
  BY <1>1, <1>2, <1>5, SetMachineType
<1>6. vm[i] \in Machine
  BY <1>1
<1>7. CASE vm' = [vm EXCEPT ![i].tuned = FALSE] /\ UNCHANGED <<disk, meddled>>
  <2> DEFINE machine == [vm[i] EXCEPT !.tuned = FALSE]
  <2>1. /\ machine \in Machine /\ machine.status = vm[i].status
        /\ machine.gen = vm[i].gen /\ machine.groups = vm[i].groups
    BY <1>6 DEF Machine
  <2>2. vm' = [vm EXCEPT ![i] = machine]
    BY <1>7
  <2> HIDE DEF machine
  <2> QED BY <1>5, <1>7, <2>1, <2>2
<1>8. CASE vm' = [vm EXCEPT ![i].protected = ~@] /\ UNCHANGED <<disk, meddled>>
  <2> DEFINE machine == [vm[i] EXCEPT !.protected = ~@]
  <2>1. /\ machine \in Machine /\ machine.status = vm[i].status
        /\ machine.gen = vm[i].gen /\ machine.groups = vm[i].groups
    BY <1>6 DEF Machine
  <2>2. vm' = [vm EXCEPT ![i] = machine]
    BY <1>8
  <2> HIDE DEF machine
  <2> QED BY <1>5, <1>8, <2>1, <2>2
<1> QED BY <1>3, <1>4, <1>7, <1>8 DEF ConsoleVm

LEMMA ConsoleDiskState ==
    ASSUME StateInv, NEW d \in Disk, ConsoleDisk(d)
    PROVE  StateInv' /\ Machines /\ Keeps /\ UNCHANGED <<engine, pc>>
<1>1. /\ TypeOK /\ vm \in [Vm -> Machine] /\ disk[d] \in Volume
      /\ upsets' \in 0..MaxUpsets /\ upsets < upsets' /\ upsets <= upsets'
      /\ UNCHANGED <<engine, pc, cur>> /\ touched' \in BOOLEAN
      /\ meddled' = meddled \cup {d} /\ meddled' \subseteq Vm \cup Disk
  BY BoundAssumption DEF StateInv, TypeOK, ConsoleDisk, Upset
<1>2. ASSUME NEW volume \in Volume, SetDisk(d, volume), Live(disk[d]) => Live(volume)
      PROVE  StateInv' /\ Machines /\ Keeps /\ UNCHANGED <<engine, pc>>
  <2>1. /\ UNCHANGED vm /\ disk' \in [Disk -> Volume]
        /\ \A e \in Disk : disk'[e] = IF e = d THEN volume ELSE disk[e]
    BY <1>1, <1>2, SetDiskType
  <2>2. Machines
    BY <1>1, <2>1 DEF Machines
  <2>3. Keeps
    BY <1>1, <1>2, <2>1 DEF Keeps, Loose
  <2> QED BY <1>1, <2>1, <2>2, <2>3, CloudState
<1>3. ASSUME NEW i \in Vm, AttachDisk(d, i, FALSE)
      PROVE  StateInv' /\ Machines /\ Keeps /\ UNCHANGED <<engine, pc>>
  <2> DEFINE volume == [disk[d] EXCEPT !.status = "Attaching", !.on = i, !.keep = FALSE]
  <2>1. volume \in Volume /\ Live(volume)
    BY <1>1 DEF Volume, DiskStatus, Live
  <2>2. SetDisk(d, volume)
    BY <1>3 DEF AttachDisk
  <2> HIDE DEF volume
  <2> QED BY <1>2, <2>1, <2>2
<1>4. CASE DetachDisk(d)
  <2> DEFINE volume == [disk[d] EXCEPT !.status = "Detaching"]
  <2>1. volume \in Volume /\ Live(volume)
    BY <1>1 DEF Volume, DiskStatus, Live
  <2>2. SetDisk(d, volume)
    BY <1>4 DEF DetachDisk
  <2> HIDE DEF volume
  <2> QED BY <1>2, <2>1, <2>2
<1>5. CASE SetDisk(d, [disk[d] EXCEPT !.keep = FALSE])
  <2> DEFINE volume == [disk[d] EXCEPT !.keep = FALSE]
  <2>1. volume \in Volume /\ volume.status = disk[d].status
    BY <1>1 DEF Volume
  <2> HIDE DEF volume
  <2> QED BY <1>2, <1>5, <2>1 DEF Live, volume
<1> QED BY <1>3, <1>4, <1>5 DEF ConsoleDisk


-----------------------------------------------------------------------------
(* Every step. *)

\* The steps of the machine's handler that look, or write in the engine only.
Looking == PlanVm \/ ObserveVm \/ AwaitCreated \/ FinalVm \/ StartDeleteVm \/ DeleteVmAbsent

LEMMA LookingState ==
    ASSUME StateInv, Looking
    PROVE  StateInv' /\ Machines /\ Keeps /\ UNCHANGED <<vm, disk, meddled>>
<1>1. StateInv'
  BY PlanVmState, ObserveVmState, AwaitCreatedState, FinalVmState, StartDeleteVmState,
     DeleteVmAbsentState DEF Looking
<1>2. UNCHANGED <<vm, disk, meddled>> /\ vm \in [Vm -> Machine]
  BY DEF Looking, PlanVm, ObserveVm, AwaitCreated, FinalVm, StartDeleteVm, DeleteVmAbsent,
         cloud, history, StateInv, TypeOK
<1>3. Machines /\ Keeps
  BY <1>2 DEF Machines, Keeps, Loose
<1> QED BY <1>1, <1>2, <1>3

LEMMA WorkingState ==
    ASSUME StateInv, Working \/ Deleting
    PROVE  StateInv' /\ VmMoves /\ Machines /\ Keeps
<1>1. TypeOK /\ HoldInv /\ disk \in [Disk -> Volume]
  BY DEF StateInv, TypeOK
<1>2. CASE Working
  <2>1. VmMoves /\ Machines /\ UNCHANGED disk /\ \A i \in Vm : Live(vm[i]) => Live(vm'[i])
    BY <1>1, <1>2, StartMoves, ResizeMoves, SyncMoves DEF Working
  <2>2. Keeps
    BY <2>1 DEF VmMoves, history, Keeps, Loose
  <2> QED BY <1>1, <2>1, <2>2, VmMovesState
<1>3. CASE Deleting
  <2>1. /\ VmMoves /\ pc.vm \in VmDelete /\ Machines
        /\ \A i \in Vm : Live(vm[i]) => Live(vm'[i]) \/ pc.vm = "dDelete"
        /\ disk' \in [Disk -> Volume]
        /\ \A d \in Disk : /\ Loose(d)' => Loose(d)
                           /\ Live(disk[d]) => Live(disk'[d]) \/ Loose(d)
    BY <1>1, <1>3, DeletingMoves
  <2>2. UNCHANGED meddled
    BY <2>1 DEF VmMoves, history
  <2>3. Keeps
    BY <2>1, <2>2 DEF Keeps
  <2> QED BY <2>1, <2>3, VmMovesState
<1> QED BY <1>2, <1>3

\* A purchase that was made: there was nothing its token could have bought.
Bought(i) ==
    /\ \A j \in LiveVm : vm[j].gen # gen.vm
    /\ \A j \in Vm : j # i => vm'[j] = vm[j]
    /\ vm'[i].gen = gen.vm /\ vm'[i].groups # {}

LEMMA BuyingState ==
    ASSUME StateInv, RunInstances
    PROVE  /\ StateInv' /\ Keeps
           /\ UNCHANGED <<engine, history>>
           /\ pc.vm = "run" /\ pc'.vm \in {"run", "created", "failed"}
           /\ UNCHANGED vm \/ \E i \in Vm : Bought(i)
<1>1. StateInv' /\ TypeOK /\ UNCHANGED <<engine, history>> /\ pc.vm = "run"
  BY RunState DEF RunInstances, StateInv
<1>2. UNCHANGED disk
  BY <1>1, RunType DEF RunInstances, cloud
<1>3. pc'.vm \in {"run", "created", "failed"}
  BY <1>1 DEF RunInstances, Lost, Fail, End, Goto, TypeOK, Res
<1>4. Keeps
  BY <1>1, <1>2 DEF Keeps, Loose, history
<1>5. UNCHANGED vm \/ \E i \in Vm : Bought(i)
  <2>1. CASE UNCHANGED cloud
    BY <2>1 DEF cloud
  <2>2. ASSUME NEW i \in Vm, Run(i)
        PROVE  UNCHANGED vm \/ Bought(i)
    BY <1>1, <2>2, RunType DEF Bought
  <2> QED BY <2>1, <2>2 DEF RunInstances
<1> QED BY <1>1, <1>3, <1>4, <1>5

LEMMA AsideKeeps ==
    ASSUME StateInv, ReconcileDisk \/ ReconcileAtt
    PROVE  StateInv' /\ Aside /\ Machines /\ Keeps
<1>1. StateInv' /\ Aside
  BY ReconcileDiskState, ReconcileAttState
<1>2. Machines
  BY <1>1 DEF Aside, Machines, StateInv, TypeOK
<1>3. Keeps
  BY <1>1 DEF Aside, Keeps
<1> QED BY <1>1, <1>2, <1>3

LEMMA WorldState ==
    ASSUME StateInv,
           TaskEnds \/ (\E i \in Vm : ConsoleVm(i)) \/ (\E d \in Disk : ConsoleDisk(d))
    PROVE  StateInv' /\ Machines /\ Keeps /\ UNCHANGED <<engine, pc>>
BY TaskState, ConsoleVmState, ConsoleDiskState

LEMMA RestState ==
    ASSUME StateInv,
           Rerun \/ (\E changes \in Edits : Edit(changes)) \/ Destroy \/ ProcessDies
    PROVE  /\ StateInv' /\ Machines /\ Keeps /\ pc'.vm \in Rest
           /\ UNCHANGED <<vm, disk, gen, saved, meddled>>
<1>1. StateInv' /\ pc'.vm \in Rest /\ UNCHANGED <<vm, disk, gen, saved, meddled>>
  BY EngineState
<1>2. Machines /\ Keeps
  BY <1>1 DEF Machines, Keeps, Loose, StateInv, TypeOK
<1> QED BY <1>1, <1>2

\* The actions, by the lemma that is about them.
LEMMA NextCases ==
    ASSUME Next
    PROVE  \/ Looking \/ Working \/ Deleting \/ RunInstances
           \/ ReconcileDisk \/ ReconcileAtt
           \/ TaskEnds \/ (\E i \in Vm : ConsoleVm(i)) \/ (\E d \in Disk : ConsoleDisk(d))
           \/ Rerun \/ (\E changes \in Edits : Edit(changes)) \/ Destroy \/ ProcessDies
BY DEF Next, ReconcileVm, DeleteVm, Disturbance, Looking, Working, Resizing, Deleting

LEMMA StepState ==
    ASSUME StateInv, [Next]_vars
    PROVE  StateInv' /\ Keeps /\ (Machines \/ RunInstances)
<1>1. CASE Next
  BY <1>1, NextCases, LookingState, WorkingState, BuyingState, AsideKeeps, WorldState, RestState
<1>2. CASE UNCHANGED vars
  <2>1. UNCHANGED <<vm, disk, want, gen, retire, saved, outgoing, destroying, pc, cur, touched,
                    meddled, upsets>>
    BY <1>2 DEF vars, cloud, engine, history
  <2>2. Machines /\ Keeps
    BY <2>1 DEF Machines, Keeps, Loose, StateInv, TypeOK
  <2>3. StateInv'
    BY <2>1 DEF StateInv, TypeOK, GenInv, HoldInv, LiveVm, Live
  <2> QED BY <2>2, <2>3
<1> QED BY <1>1, <1>2

LEMMA InitState == Init => StateInv
<1> SUFFICES ASSUME Init PROVE StateInv
  OBVIOUS
<1>1. TypeOK
  <2>1. vm \in [Vm -> Machine] /\ disk \in [Disk -> Volume]
    BY BoundAssumption DEF Init, Machine, Volume, VmStatus, DiskStatus, Generation, Type, Image
  <2>2. pc \in [Res -> Step]
    BY DEF Init, Step, Rest
  <2>3. gen \in [{"vm", "disk"} -> Generation] /\ upsets \in 0..MaxUpsets
    <3>1. 0 \in Generation /\ 0 \in 0..MaxUpsets
      BY BoundAssumption DEF Generation
    <3>2. gen = [x \in {"vm", "disk"} |-> 0] /\ upsets = 0
      BY DEF Init
    <3> QED BY <3>1, <3>2
  <2> QED BY <2>1, <2>2, <2>3 DEF Init, TypeOK, Type, Image
<1>2. GenInv /\ HoldInv
  <2>1. "idle" \notin VmDelete /\ "idle" \notin VmKnown
    BY KnownSteps DEF Rest
  <2>2. pc.vm = "idle" /\ gen.vm = 0 /\ gen.disk = 0 /\ upsets = 0 /\ retire = {}
        /\ saved.vm = None /\ ~destroying
    BY DEF Init, Res
  <2> QED BY <2>1, <2>2 DEF GenInv, HoldInv
<1> QED BY <1>1, <1>2 DEF StateInv

LEMMA StateAlways == Spec => []StateInv
<1> QED BY InitState, StepState, PTL DEF Spec

\* The state of the stack and of the cloud is well typed whatever the three
\* handlers, the operators and a crash do; a generation, too, is one that a
\* disturbance accounts for.
THEOREM TypeCorrect == Spec => []TypeOK
<1>1. StateInv => TypeOK
  BY DEF StateInv
<1> QED BY <1>1, StateAlways, PTL


-----------------------------------------------------------------------------
(* One machine. *)

\* Where no machine comes up, the handler is as careful as before if it stays
\* where it was, or goes where nothing is bought.
LEMMA PurchaseKept ==
    ASSUME OneMachine, PurchaseInv, Machines,
           \/ pc'.vm \notin {"observe", "run"}
           \/ pc'.vm = pc.vm /\ saved'.vm = saved.vm /\ gen'.vm = gen.vm
    PROVE  OneMachine' /\ PurchaseInv'
<1>1. LiveVm' \subseteq LiveVm /\ \A i \in LiveVm' : vm'[i].gen = vm[i].gen
  BY DEF Machines, LiveVm
<1>2. OneMachine'
  BY <1>1 DEF OneMachine
<1>3. PurchaseInv'
  BY <1>1 DEF PurchaseInv
<1> QED BY <1>2, <1>3

LEMMA LookingBuysNone ==
    ASSUME StateInv, OneMachine, PurchaseInv, Looking
    PROVE  OneMachine' /\ PurchaseInv'
<1>1. Machines /\ UNCHANGED vm /\ LiveVm' = LiveVm /\ pc \in [Res -> Step] /\ "vm" \in Res
  BY LookingState DEF LiveVm, StateInv, TypeOK, Res
<1>2. OneMachine'
  BY <1>1 DEF OneMachine
<1>3. ASSUME PurchaseInv' \/ pc'.vm \notin {"observe", "run"}
      PROVE  OneMachine' /\ PurchaseInv'
  BY <1>2, <1>3 DEF PurchaseInv
<1>4. CASE PlanVm
  <2>1. CASE saved.vm # None /\ ("vm" \in retire \/ saved.vm \notin LiveVm)
    BY <1>1, <1>3, <1>4, <2>1 DEF PlanVm, Goto
  <2>2. CASE saved.vm = None \/ ("vm" \notin retire /\ saved.vm \in LiveVm)
    <3>1. pc'.vm \in {"done", "observe"} /\ saved' = saved
      BY <1>1, <1>4, <2>2 DEF PlanVm, Goto
    <3>2. saved.vm # None => LiveVm \subseteq {saved.vm}
      BY <2>2 DEF OneMachine
    <3> QED BY <1>1, <1>2, <3>1, <3>2 DEF PurchaseInv
  <2> QED BY <2>1, <2>2
<1>5. CASE ObserveVm
  <2>1. CASE FoundVm = {} /\ pc.vm = "observe"
    <3>1. LiveVm = {}
      BY <2>1 DEF FoundVm, PurchaseInv
    <3> QED BY <1>1, <1>2, <3>1 DEF PurchaseInv
  <2>2. CASE FoundVm # {}
    BY <1>1, <1>3, <1>5, <2>2 DEF ObserveVm, Fail, End, Goto
  <2> QED BY <1>5, <2>1, <2>2 DEF ObserveVm
<1>6. CASE AwaitCreated
  BY <1>1, <1>3, <1>6 DEF AwaitCreated, Fail, End, Goto
<1>7. CASE FinalVm
  BY <1>1, <1>3, <1>7 DEF FinalVm, Fail, End, Goto
<1>8. CASE StartDeleteVm
  BY <1>1, <1>3, <1>8 DEF StartDeleteVm, Goto
<1>9. CASE DeleteVmAbsent
  <2>1. CASE destroying
    BY <1>1, <1>3, <1>9, <2>1 DEF DeleteVmAbsent, End, Goto
  <2>2. CASE ~destroying
    <3>1. pc'.vm = "observe" /\ saved'.vm = None
      BY <1>1, <1>9, <2>2 DEF DeleteVmAbsent, End, Goto, StateInv, TypeOK
    <3> QED BY <1>2, <3>1 DEF PurchaseInv
  <2> QED BY <2>1, <2>2
<1> QED BY <1>4, <1>5, <1>6, <1>7, <1>8, <1>9 DEF Looking

LEMMA PurchaseStep ==
    ASSUME StateInv, OneMachine, PurchaseInv, [Next]_vars
    PROVE  OneMachine' /\ PurchaseInv'
<1>1. CASE Looking
  BY <1>1, LookingBuysNone
<1>2. CASE Working \/ Deleting
  <2>1. VmMoves /\ Machines
    BY <1>2, WorkingState
  <2>2. pc'.vm \notin {"observe", "run"}
    BY <2>1, KnownSteps DEF VmMoves, Moves, Rest
  <2> QED BY <2>1, <2>2, PurchaseKept
<1>3. CASE RunInstances
  <2>1. /\ UNCHANGED gen /\ pc.vm = "run" /\ pc'.vm \in {"run", "created", "failed"}
        /\ \A i \in LiveVm : vm[i].gen = gen.vm
    BY <1>3, BuyingState DEF engine, PurchaseInv
  <2>2. CASE UNCHANGED vm
    <3>1. LiveVm' = LiveVm
      BY <2>2 DEF LiveVm
    <3> QED BY <2>1, <2>2, <3>1 DEF OneMachine, PurchaseInv
  <2>3. ASSUME NEW i \in Vm, Bought(i)
        PROVE  OneMachine' /\ PurchaseInv'
    <3>1. LiveVm = {}
      BY <2>1, <2>3 DEF Bought
    <3>2. LiveVm' \subseteq {i}
      BY <2>3, <3>1 DEF LiveVm, Bought
    <3> QED BY <2>1, <2>3, <3>2 DEF OneMachine, PurchaseInv, Bought
  <2> QED BY <1>3, <2>2, <2>3, BuyingState
<1>4. CASE ReconcileDisk \/ ReconcileAtt
  BY <1>4, AsideKeeps, PurchaseKept DEF Aside
<1>5. CASE TaskEnds \/ (\E i \in Vm : ConsoleVm(i)) \/ (\E d \in Disk : ConsoleDisk(d))
  BY <1>5, WorldState, PurchaseKept DEF engine
<1>6. CASE Rerun \/ (\E changes \in Edits : Edit(changes)) \/ Destroy \/ ProcessDies
  <2>1. pc'.vm \notin {"observe", "run"} /\ Machines
    BY <1>6, RestState, KnownSteps DEF Rest
  <2> QED BY <2>1, PurchaseKept
<1>7. CASE UNCHANGED vars
  <2>1. UNCHANGED <<vm, pc, saved, gen>>
    BY <1>7 DEF vars, cloud, engine
  <2> QED BY <2>1 DEF OneMachine, PurchaseInv, LiveVm
<1> QED BY <1>1, <1>2, <1>3, <1>4, <1>5, <1>6, <1>7, NextCases

\* However often the handler dies after the purchase, loses its answer or is
\* started again, and although a replacement follows a deletion it may not
\* have seen the end of, no second machine is ever bought: RunInstances is
\* reached only with no machine but the one its own lost request bought.
THEOREM OnePurchase == Spec => []OneMachine
<1>1. Init => OneMachine /\ PurchaseInv
  BY DEF Init, OneMachine, PurchaseInv, LiveVm, Live, Res
<1>2. (OneMachine /\ PurchaseInv) /\ StateInv /\ [Next]_vars => (OneMachine /\ PurchaseInv)'
  BY PurchaseStep
<1> QED BY <1>1, <1>2, StateAlways, PTL DEF Spec

-----------------------------------------------------------------------------
(* Groups. *)

LEMMA GroupedStep ==
    ASSUME StateInv, NeverWithoutGroup, [Next]_vars
    PROVE  NeverWithoutGroup'
<1>1. CASE Machines
  BY <1>1 DEF Machines, NeverWithoutGroup, LiveVm
<1>2. CASE RunInstances
  <2>1. CASE UNCHANGED vm
    <3>1. LiveVm' = LiveVm
      BY <2>1 DEF LiveVm
    <3> QED BY <2>1, <3>1 DEF NeverWithoutGroup
  <2>2. ASSUME NEW i \in Vm, Bought(i)
        PROVE  NeverWithoutGroup'
    <3>1. \A j \in LiveVm' : j = i \/ (j \in LiveVm /\ vm'[j] = vm[j])
      BY <2>2 DEF LiveVm, Bought
    <3> QED BY <2>2, <3>1 DEF NeverWithoutGroup, Bought
  <2> QED BY <1>2, <2>1, <2>2, BuyingState
<1> QED BY <1>1, <1>2, StepState

\* Whatever request of a change of groups is lost or never made, and whatever
\* the machine had to be in before and has to be in now: there is a group it
\* is in, since what is missing is joined before anything is left.
THEOREM AlwaysGrouped == Spec => []NeverWithoutGroup
<1>1. Init => NeverWithoutGroup
  <2>1. Init => LiveVm = {}
    BY DEF Init, LiveVm, Live
  <2> QED BY <2>1 DEF NeverWithoutGroup
<1>2. NeverWithoutGroup /\ StateInv /\ [Next]_vars => NeverWithoutGroup'
  BY GroupedStep
<1> QED BY <1>1, <1>2, StateAlways, PTL DEF Spec

-----------------------------------------------------------------------------
(* Data disks. *)

LEMMA KeepStep ==
    ASSUME StateInv, KeepInv, [Next]_vars
    PROVE  /\ KeepInv'
           /\ \A d \in LiveDisk \ LiveDisk' : pc.disk = "dDelete" \/ d \in meddled
<1>1. Keeps
  BY StepState
<1>2. KeepInv'
  BY <1>1 DEF Keeps, KeepInv
<1>3. ASSUME NEW d \in LiveDisk \ LiveDisk'
      PROVE  pc.disk = "dDelete" \/ d \in meddled
  <2>1. d \in Disk /\ Live(disk[d]) /\ ~Live(disk'[d])
    BY DEF LiveDisk
  <2> QED BY <1>1, <2>1 DEF Keeps, KeepInv
<1> QED BY <1>2, <1>3

\* A replacement of the machine, its release by an operator and the end of a
\* stack all take what is attached to the machine with it unless it is to be
\* kept: no step of the three handlers leaves a disk attached that is not, so
\* a disk goes by its own deletion or by what an operator did to it.
THEOREM DisksOutlive == Spec => DiskOutlivesMachine
<1>1. Init => KeepInv
  BY DEF Init, KeepInv, Loose
<1>2. KeepInv /\ StateInv /\ [Next]_vars => KeepInv'
  BY KeepStep
<1>3. KeepInv /\ StateInv /\ [Next]_vars
        => [\A d \in LiveDisk \ LiveDisk' : pc.disk = "dDelete" \/ d \in meddled]_vars
  BY KeepStep
<1> QED BY <1>1, <1>2, <1>3, StateAlways, PTL DEF Spec, DiskOutlivesMachine

-----------------------------------------------------------------------------
(* Success. *)

\* In a destroy the attachment goes first, and nothing is reconciled; in a
\* deployment the attachment waits for the two it joins, and a disk is deleted
\* only when another one replaced it.
PhaseInv ==
    /\ destroying =>
         /\ pc.vm \in {"idle", "failed", "gone"} \cup VmDelete
         /\ pc.disk \in {"idle", "failed", "gone", "dDelete", "dAbsent"}
         /\ pc.att \in {"idle", "failed", "gone", "dDetach", "dDetached"}
         /\ saved.disk # None
         /\ pc.disk = "gone" => outgoing = None
    /\ ~destroying =>
         /\ \A r \in Res : pc[r] # "gone"
         /\ pc.att \in AttStep => pc.vm = "done" /\ pc.disk = "done"
         /\ pc.att = "done" => pc.vm = "done" /\ pc.disk \in {"done", "dDelete", "dAbsent", "failed"}
         /\ pc.disk \in {"dDelete", "dAbsent"} => outgoing # None

\* There is no machine but the saved one, unless an operator released that.
VmInv ==
    /\ pc.vm \in {"planned", "done"} => saved.vm # None
    /\ saved.vm # None => LiveVm \subseteq {saved.vm} \/ saved.vm \in meddled
    /\ pc.vm \in {"observe", "run"} /\ saved.vm # None => saved.vm \in LiveVm \cup meddled
    /\ pc.vm \in VmDelete => cur.vm = saved.vm /\ saved.vm # None
    /\ pc.vm \in {"dAbsent", "gone"} => saved.vm \notin LiveVm

\* A machine that was made to fit fits until somebody touches it.
FitInv == pc.vm = "done" /\ ~touched => VmFits(saved.vm)

\* The disks of the engine are of its generation and of the one before, and of
\* each generation there is one.
GenerationInv ==
    /\ saved.disk # None => disk[saved.disk].status # "unborn" /\ disk[saved.disk].gen = gen.disk
    /\ outgoing # None => disk[outgoing].status # "unborn" /\ disk[outgoing].gen < gen.disk
    /\ "disk" \in retire => outgoing = None /\ saved.disk # None
    /\ \A d, e \in LiveDisk : disk[d].gen = disk[e].gen => d = e

\* A saved disk is there, or went because of an operator; what is there is
\* saved, about to go, the successor of such a one, or about to be saved.
LeftInv ==
    /\ ~destroying /\ saved.disk # None => saved.disk \in LiveDisk \cup meddled
    /\ \A d \in LiveDisk : \/ d \in {saved.disk, outgoing} \/ Successor(d)
                           \/ saved.disk = None /\ disk[d].gen = gen.disk

\* What the disk's handler knows at each of its steps.
DiskHold ==
    /\ pc.disk \in {"planned", "done"} => saved.disk # None
    /\ pc.disk = "create" => saved.disk \notin LiveDisk
    /\ pc.disk \in {"created", "resize", "final"} =>
         /\ cur.disk # None /\ disk[cur.disk].status # "unborn" /\ disk[cur.disk].gen = gen.disk
         /\ saved.disk \notin LiveDisk \ {cur.disk}
    /\ pc.disk \in {"dDelete", "dAbsent"} =>
         cur.disk = IF outgoing # None THEN outgoing ELSE saved.disk
    /\ pc.disk = "dAbsent" => cur.disk \notin LiveDisk
    /\ pc.disk = "gone" => saved.disk \notin LiveDisk
    /\ ~destroying /\ pc.disk \in {"done", "dDelete", "dAbsent"} =>
         saved.disk # None /\ disk[saved.disk].size = want.size

\* A disk is somewhere as long as it is being attached, attached or detached.
Tied == {"Attaching", "In_use", "Detaching"}
TiedInv == \A d \in Disk : (disk[d].on # None) <=> (disk[d].status \in Tied)

\* What the attachment's handler reported holds until somebody touches it.
AttInv ==
    /\ saved.attDisk # None => saved.attVm # None
    /\ pc.att \in {"planned", "done"} /\ ~touched /\ Attached(saved.attDisk, saved.attVm)
         => disk[saved.attDisk].status = "In_use"
    /\ pc.att = "done" /\ ~touched => ~Moved /\ Attached(saved.disk, saved.vm)

-----------------------------------------------------------------------------
(* What leaves the facts about machines, disks and attachment alone. *)

\* No disk is bought, or grown.
Mild ==
    \A d \in Disk : /\ disk'[d].gen = disk[d].gen
                    /\ disk'[d].status = "unborn" <=> disk[d].status = "unborn"
                    /\ Live(disk'[d]) => Live(disk[d])

Ungrown == \A d \in Disk : disk'[d].size = disk[d].size

\* No disk is attached or begins to be detached, and no attachment ends early.
Slack ==
    \A d \in Disk : \/ disk'[d].on = None
                    \/ /\ disk'[d].on = disk[d].on
                       /\ disk'[d].status \in {disk[d].status, "In_use"}
Outlived == \A d \in Disk : Live(disk[d]) => Live(disk'[d]) \/ Loose(d)
Firm == \A d \in Disk : disk[d].status = "In_use" => disk'[d].on = disk[d].on

\* Operators are forgiven only what is there after all.
Remembers == \A d \in Disk : d \in meddled \ meddled' => Live(disk[d])

\* The engine's entries for the disk.
DiskSide == <<saved.disk, gen.disk, outgoing, pc.disk, cur.disk>>
AttSide == <<saved.attDisk, saved.attVm, pc.att>>

LEMMA MildFacts ==
    ASSUME Mild
    PROVE  /\ LiveDisk' \subseteq LiveDisk
           /\ \A d \in Disk : disk[d].status = "gone" => disk'[d].status = "gone"
BY DEF Mild, LiveDisk, Live

LEMMA SuccessorKept ==
    ASSUME Mild, Remembers, NEW d \in Disk, Successor(d)
    PROVE  Successor(d)'
<1>1. PICK e \in Disk \cap meddled : disk[e].status = "gone" /\ disk[e].gen = disk[d].gen
  BY DEF Successor
<1>2. e \in meddled'
  BY <1>1 DEF Remembers, Live
<1>3. disk'[e].status = "gone" /\ disk'[e].gen = disk'[d].gen
  BY <1>1, MildFacts DEF Mild
<1> QED BY <1>2, <1>3 DEF Successor

LEMMA LeftKept ==
    ASSUME StateInv, GenerationInv, LeftInv, Mild, Remembers,
           saved'.disk = saved.disk, gen'.disk = gen.disk, UNCHANGED outgoing,
           "disk" \in retire' => "disk" \in retire,
           ~destroying' => /\ ~destroying
                           /\ saved.disk \in LiveDisk => saved.disk \in LiveDisk' \cup meddled'
    PROVE  GenerationInv' /\ LeftInv'
<1>1. saved.disk \in Disk \cup {None} /\ outgoing \in Disk \cup {None}
  BY DEF StateInv, TypeOK
<1>2. LiveDisk' \subseteq LiveDisk /\ LiveDisk \subseteq Disk
  BY MildFacts DEF LiveDisk
<1>3. GenerationInv'
  <2>1. \A d \in Disk : /\ disk'[d].gen = disk[d].gen
                        /\ disk[d].status # "unborn" => disk'[d].status # "unborn"
    BY DEF Mild
  <2> QED BY <1>1, <1>2, <2>1 DEF GenerationInv
<1>4. ~destroying' /\ saved'.disk # None => saved'.disk \in LiveDisk' \cup meddled'
  <2> SUFFICES ASSUME ~destroying, ~destroying', saved.disk # None
               PROVE  saved.disk \in LiveDisk' \cup meddled'
    OBVIOUS
  <2>1. CASE saved.disk \in LiveDisk
    BY <2>1
  <2>2. CASE saved.disk \notin LiveDisk
    <3>1. saved.disk \in meddled /\ ~Live(disk[saved.disk]) /\ saved.disk \in Disk
      BY <1>1, <2>2 DEF LeftInv, LiveDisk
    <3> QED BY <3>1 DEF Remembers
  <2> QED BY <2>1, <2>2
<1>5. ASSUME NEW d \in LiveDisk'
      PROVE  \/ d \in {saved'.disk, outgoing'} \/ Successor(d)'
             \/ saved'.disk = None /\ disk'[d].gen = gen'.disk
  <2>1. d \in LiveDisk /\ d \in Disk
    BY <1>2
  <2>2. CASE Successor(d)
    BY <2>1, <2>2, SuccessorKept
  <2>3. CASE ~Successor(d)
    BY <2>1, <2>3 DEF LeftInv, Mild
  <2> QED BY <2>2, <2>3
<1> QED BY <1>3, <1>4, <1>5 DEF LeftInv

LEMMA HoldKept ==
    ASSUME StateInv, DiskHold, Mild, Ungrown, UNCHANGED DiskSide, want'.size = want.size,
           UNCHANGED destroying
    PROVE  DiskHold'
<1>1. saved.disk \in Disk \cup {None} /\ cur.disk \in Disk \cup {None}
  BY DEF StateInv, TypeOK
<1>2. LiveDisk' \subseteq LiveDisk
  BY MildFacts
<1>3. \A d \in Disk : /\ disk'[d].gen = disk[d].gen /\ disk'[d].size = disk[d].size
                      /\ disk[d].status # "unborn" => disk'[d].status # "unborn"
  BY DEF Mild, Ungrown
<1> QED BY <1>1, <1>2, <1>3 DEF DiskHold, DiskSide

LEMMA AttKept ==
    ASSUME StateInv, AttInv, TiedInv', UNCHANGED AttSide,
           ~touched' => ~touched /\ Slack,
           pc.att = "done" /\ ~touched' =>
              saved'.disk = saved.disk /\ saved'.vm = saved.vm /\ saved.vm # None /\ Firm
    PROVE  AttInv'
<1>1. /\ saved.attDisk \in Disk \cup {None} /\ saved.attVm \in Vm \cup {None}
      /\ saved.disk \in Disk \cup {None}
  BY DEF StateInv, TypeOK
<1>2. saved'.attDisk = saved.attDisk /\ saved'.attVm = saved.attVm /\ pc'.att = pc.att
  BY DEF AttSide
<1>3. CASE touched'
  BY <1>2, <1>3 DEF AttInv
<1>4. CASE ~touched'
  <2>1. ASSUME pc.att \in {"planned", "done"}, Attached(saved.attDisk, saved.attVm)'
        PROVE  disk'[saved.attDisk].status = "In_use"
    <3>1. /\ saved.attDisk \in Disk /\ saved.attDisk # None /\ saved.attVm # None
          /\ disk'[saved.attDisk].on = saved.attVm
      BY <1>1, <1>2, <2>1 DEF Attached, AttInv
    <3>2. /\ disk'[saved.attDisk].on = disk[saved.attDisk].on
          /\ disk'[saved.attDisk].status \in {disk[saved.attDisk].status, "In_use"}
      BY <1>4, <3>1 DEF Slack
    <3>3. Attached(saved.attDisk, saved.attVm) => disk[saved.attDisk].status = "In_use"
      BY <1>4, <2>1 DEF AttInv
    <3> QED BY <3>1, <3>2, <3>3 DEF Attached
  <2>2. ASSUME pc.att = "done"
        PROVE  ~Moved' /\ Attached(saved.disk, saved.vm)'
    <3>1. /\ saved.attDisk = saved.disk /\ saved.attVm = saved.vm
          /\ Attached(saved.disk, saved.vm)
      BY <1>4, <2>2 DEF AttInv, Moved
    <3>2. saved.disk \in Disk /\ saved.disk # None /\ disk[saved.disk].on = saved.vm /\ disk[saved.disk].status = "In_use"
      BY <1>1, <1>4, <2>2, <3>1 DEF AttInv, Attached
    <3>3. disk'[saved.disk].on = saved.vm
      BY <1>4, <2>2, <3>2 DEF Firm
    <3>4. saved'.disk = saved.disk /\ saved'.vm = saved.vm
      BY <1>4, <2>2
    <3> QED BY <1>2, <3>1, <3>2, <3>3, <3>4 DEF Moved, Attached
  <2> QED BY <1>2, <1>4, <2>1, <2>2 DEF AttInv
<1> QED BY <1>3, <1>4

\* A step that leaves the machine's handler alone: machines go away by the
\* hand of an operator only.
LEMMA VmKept ==
    ASSUME StateInv, VmInv, LiveVm' \subseteq LiveVm,
           saved'.vm = saved.vm, pc'.vm = pc.vm, cur'.vm = cur.vm,
           \A i \in Vm : i \in LiveVm \/ i \in meddled => i \in LiveVm' \/ i \in meddled',
           \A i \in Vm : i \in meddled => i \in meddled'
    PROVE  VmInv'
<1>1. saved.vm \in Vm \cup {None}
  BY DEF StateInv, TypeOK
<1> QED BY <1>1 DEF VmInv

LEMMA NoDisk ==
    ASSUME UNCHANGED disk, TiedInv
    PROVE  Mild /\ Ungrown /\ Slack /\ Firm /\ TiedInv' /\ Outlived
BY DEF Ungrown, Outlived, Mild, Slack, Firm, TiedInv

LEMMA ReleaseMild ==
    ASSUME TypeOK, TiedInv, NEW i \in Vm, Release(i)
    PROVE  Mild /\ Ungrown /\ Slack /\ TiedInv' /\ Outlived
<1>1. ASSUME NEW d \in Disk
      PROVE  /\ disk'[d].gen = disk[d].gen /\ disk'[d].size = disk[d].size
             /\ disk'[d].status = "unborn" <=> disk[d].status = "unborn"
             /\ Live(disk'[d]) => Live(disk[d])
             /\ disk'[d].on = None \/ disk'[d] = disk[d]
             /\ (disk'[d].on # None) <=> (disk'[d].status \in Tied)
  <2>1. disk[d] \in Volume /\ i # None
    BY IdAssumption DEF TypeOK
  <2>2. CASE disk[d].on # i
    <3>1. disk'[d] = disk[d]
      BY <2>2 DEF Release
    <3> QED BY <3>1 DEF TiedInv
  <2>3. CASE disk[d].on = i
    <3> DEFINE status == IF disk[d].keep THEN "Available" ELSE "gone"
    <3>1. disk'[d] = [disk[d] EXCEPT !.status = status, !.on = None]
      BY <2>3 DEF Release
    <3>2. status \in {"Available", "gone"}
      OBVIOUS
    <3> HIDE DEF status
    <3>3. /\ disk'[d].on = None /\ disk'[d].status = status
          /\ disk'[d].gen = disk[d].gen /\ disk'[d].size = disk[d].size
      BY <2>1, <3>1 DEF Volume
    <3>4. disk[d].status \in Tied
      BY <2>1, <2>3 DEF TiedInv
    <3> QED BY <3>2, <3>3, <3>4 DEF Tied, Live
  <2> QED BY <2>2, <2>3
<1> QED BY <1>1, ReleaseType DEF Mild, Ungrown, Slack, TiedInv, Outlived

\* A disk that is given another state, and nothing else of which is new.
LEMMA VolumeMild ==
    ASSUME TypeOK, TiedInv, NEW d, NEW volume, SetDisk(d, volume),
           d \in Disk => /\ volume \in Volume
                         /\ volume.gen = disk[d].gen
                         /\ disk[d].status # "unborn" /\ volume.status # "unborn"
                         /\ Live(volume) => Live(disk[d])
                         /\ (volume.on # None) <=> (volume.status \in Tied)
    PROVE  /\ Mild /\ TiedInv' /\ UNCHANGED vm
           /\ (d \in Disk => volume.size = disk[d].size) => Ungrown
<1>1. /\ UNCHANGED vm
      /\ \A e \in Disk : disk'[e] = IF e = d THEN volume ELSE disk[e]
  BY SetDiskType
<1>2. Mild
  BY <1>1 DEF Mild
<1>3. TiedInv'
  BY <1>1 DEF TiedInv
<1> QED BY <1>1, <1>2, <1>3 DEF Ungrown

-----------------------------------------------------------------------------
(* The machine's handler. *)

\* It takes no part in what the others do but for the release of its machine.
VmApart ==
    /\ pc'.disk = pc.disk /\ pc'.att = pc.att /\ cur'.disk = cur.disk
    /\ UNCHANGED <<want, outgoing, destroying, touched, meddled>>
    /\ saved'.disk = saved.disk /\ saved'.attDisk = saved.attDisk /\ saved'.attVm = saved.attVm
    /\ gen'.disk = gen.disk /\ ("disk" \in retire' => "disk" \in retire)
    /\ pc.vm # "done" /\ Mild /\ Ungrown /\ Slack /\ TiedInv' /\ Outlived

LEMMA LookingApart ==
    ASSUME StateInv, TiedInv, Looking
    PROVE  VmApart
<1>1. /\ UNCHANGED <<vm, disk, want, outgoing, destroying, touched, meddled>>
      /\ TypeOK /\ cur \in Held /\ "vm" \in Res /\ "disk" \in Res /\ "att" \in Res
  BY DEF Looking, PlanVm, ObserveVm, AwaitCreated, FinalVm, StartDeleteVm, DeleteVmAbsent,
         cloud, engine, history, StateInv, TypeOK, Held, Res
<1>2. Mild /\ Ungrown /\ Slack /\ TiedInv' /\ Outlived
  BY <1>1, NoDisk
<1>3. pc.vm # "done" /\ \E step : Goto("vm", step)
  BY DEF Looking, PlanVm, ObserveVm, AwaitCreated, FinalVm, StartDeleteVm, DeleteVmAbsent, End, Fail
<1>4. pc'.disk = pc.disk /\ pc'.att = pc.att
  BY <1>1, <1>3 DEF Goto, TypeOK
<1>5. UNCHANGED cur \/ \E i : cur' = [cur EXCEPT !.vm = i]
  BY DEF Looking, PlanVm, ObserveVm, AwaitCreated, FinalVm, StartDeleteVm, DeleteVmAbsent, End, Fail
<1>6. cur'.disk = cur.disk
  BY <1>1, <1>5 DEF Held
<1>7. UNCHANGED saved \/ \E i : saved' = [saved EXCEPT !.vm = i]
  BY DEF Looking, PlanVm, ObserveVm, AwaitCreated, FinalVm, StartDeleteVm, DeleteVmAbsent, engine
<1>8. saved'.disk = saved.disk /\ saved'.attDisk = saved.attDisk /\ saved'.attVm = saved.attVm
  <2>1. saved \in Saved
    BY <1>1 DEF TypeOK, Saved
  <2> QED BY <1>7, <2>1 DEF Saved
<1>9. UNCHANGED gen \/ gen' = [gen EXCEPT !.vm = @ + 1]
  BY DEF Looking, PlanVm, ObserveVm, AwaitCreated, FinalVm, StartDeleteVm, DeleteVmAbsent, engine
<1>10. gen'.disk = gen.disk
  BY <1>1, <1>9 DEF TypeOK
<1>11. "disk" \in retire' => "disk" \in retire
  BY DEF Looking, PlanVm, ObserveVm, AwaitCreated, FinalVm, StartDeleteVm, DeleteVmAbsent, engine
<1> QED BY <1>1, <1>2, <1>3, <1>4, <1>6, <1>8, <1>10, <1>11 DEF VmApart

LEMMA MovesApart ==
    ASSUME VmMoves, Mild, Ungrown, Slack, TiedInv', Outlived
    PROVE  VmApart
<1>1. PICK step \in VmKnown : Moves("vm", step)
  BY DEF VmMoves
<1>2. pc'.disk = pc.disk /\ pc'.att = pc.att /\ cur'.disk = cur.disk
  BY <1>1 DEF Moves, Res
<1>3. pc.vm # "done"
  BY KnownSteps DEF VmMoves, Rest
<1> QED BY <1>2, <1>3 DEF VmMoves, VmApart, engine, history

\* What a deletion does to the machines: nothing, or it stops or releases its
\* own.
LEMMA DeletingCloud ==
    ASSUME TypeOK, Deleting
    PROVE  UNCHANGED disk \/ Release(cur.vm)
BY DEF Deleting, DeleteVmRead, DeleteVmSettle, DeleteVmStop, DeleteVmStopped, DeleteInstance,
       Call, Wait, SetVm, cloud

LEMMA VmStepApart ==
    ASSUME StateInv, TiedInv, Looking \/ Working \/ Deleting \/ RunInstances
    PROVE  VmApart
<1>1. TypeOK /\ HoldInv
  BY DEF StateInv
<1>2. CASE Looking
  BY <1>2, LookingApart
<1>3. CASE Working
  <2>1. VmMoves /\ UNCHANGED disk
    BY <1>1, <1>3, StartMoves, ResizeMoves, SyncMoves DEF Working
  <2> QED BY <2>1, NoDisk, MovesApart
<1>4. CASE Deleting
  <2>1. VmMoves /\ cur.vm \in Vm
    <3>1. VmMoves /\ pc.vm \in VmDelete
      BY <1>1, <1>4, DeletingMoves
    <3> QED BY <1>1, <3>1, KnownSteps DEF HoldInv, TypeOK
  <2> QED BY <1>1, <1>4, <2>1, DeletingCloud, NoDisk, ReleaseMild, MovesApart
<1>5. CASE RunInstances
  <2>1. UNCHANGED <<engine, history>> /\ pc.vm = "run"
    BY <1>5 DEF RunInstances
  <2>2. UNCHANGED disk
    BY <1>1, <1>5, RunType DEF RunInstances, cloud
  <2>3. (\E step : Goto("vm", step)) \/ UNCHANGED pc
    BY <1>5 DEF RunInstances, Lost, Fail, End
  <2>4. UNCHANGED cur \/ \E i : cur' = [cur EXCEPT !.vm = i]
    BY <1>5 DEF RunInstances, Lost, Fail, End
  <2>5. pc'.disk = pc.disk /\ pc'.att = pc.att
    BY <1>1, <2>3 DEF Goto, TypeOK, Res
  <2>6. cur'.disk = cur.disk
    BY <1>1, <2>4 DEF TypeOK
  <2> QED BY <2>1, <2>2, <2>5, <2>6, NoDisk DEF VmApart, engine, history
<1> QED BY <1>2, <1>3, <1>4, <1>5

LEMMA VmStepOthers ==
    ASSUME StateInv, KeepInv, PhaseInv, TiedInv, GenerationInv, LeftInv, DiskHold, AttInv,
           Looking \/ Working \/ Deleting \/ RunInstances
    PROVE  TiedInv' /\ GenerationInv' /\ LeftInv' /\ DiskHold' /\ AttInv' /\ UNCHANGED touched
<1>1. VmApart
  BY VmStepApart
<1>2. ASSUME saved.disk \in LiveDisk
      PROVE  saved.disk \in LiveDisk' \cup meddled'
  <2>1. saved.disk \in Disk /\ (Live(disk'[saved.disk]) \/ Loose(saved.disk)) /\ UNCHANGED meddled
    BY <1>1, <1>2 DEF VmApart, Outlived, LiveDisk
  <2> QED BY <2>1 DEF KeepInv, LiveDisk
<1>3. GenerationInv' /\ LeftInv'
  <2>1. Remembers
    BY <1>1 DEF Remembers, VmApart
  <2> QED BY <1>1, <1>2, <2>1, LeftKept DEF VmApart
<1>4. DiskHold'
  BY <1>1, HoldKept DEF VmApart, DiskSide
<1>5. AttInv'
  <2>1. pc.att # "done"
    BY <1>1 DEF VmApart, PhaseInv
  <2>2. UNCHANGED AttSide /\ UNCHANGED touched /\ Slack /\ TiedInv'
    BY <1>1 DEF VmApart, AttSide
  <2> QED BY <2>1, <2>2, AttKept
<1> QED BY <1>1, <1>3, <1>4, <1>5 DEF VmApart

\* A deletion goes on to its end, and ends with the machine absent.
LEMMA DeletingEnds ==
    ASSUME StateInv, Deleting
    PROVE  /\ pc'.vm \in VmDelete \cup {"failed"}
           /\ pc'.vm = "dAbsent" => cur.vm \notin LiveVm'
<1>1. /\ TypeOK /\ pc \in [Res -> Step] /\ "vm" \in Res /\ vm \in [Vm -> Machine]
      /\ pc.vm \in VmDelete \ {"dAbsent"} /\ "failed" \notin VmDelete
  BY KnownSteps DEF StateInv, TypeOK, Deleting, DeleteVmRead, DeleteVmSettle, DeleteVmStop,
     DeleteVmStopped, DeleteInstance, VmDelete
<1>2. pc'.vm \in VmDelete \cup {"failed"}
  BY <1>1 DEF Deleting, DeleteVmRead, DeleteVmSettle, DeleteVmStop, DeleteVmStopped,
     DeleteInstance, Call, Wait, Lost, Fail, End, Proceed, Goto, VmDelete
<1>3. ASSUME pc'.vm = "dAbsent"
      PROVE  cur.vm \notin LiveVm'
  <2>1. CASE DeleteVmRead
    BY <1>1, <1>3, <2>1 DEF DeleteVmRead, Fail, End, Proceed, Goto, LiveVm, cloud
  <2>2. CASE DeleteVmSettle
    BY <1>1, <1>3, <2>2 DEF DeleteVmSettle, Wait, Fail, End, Proceed, Goto, LiveVm, cloud, Status, Live
  <2>3. CASE DeleteVmStop \/ DeleteVmStopped
    BY <1>1, <1>3, <2>3 DEF DeleteVmStop, DeleteVmStopped, Call, Wait, Lost, Fail, End, Proceed, Goto
  <2>4. CASE DeleteInstance
    <3>1. (UNCHANGED vm /\ ~Live(vm[cur.vm])) \/ vm' = [vm EXCEPT ![cur.vm].status = "gone"]
      BY <1>1, <1>3, <2>4 DEF DeleteInstance, Call, Lost, Fail, End, Proceed, Goto, cloud, Release
    <3>2. ASSUME cur.vm \in Vm
          PROVE  ~Live(vm'[cur.vm])
      BY <1>1, <3>1, <3>2 DEF Live, Machine
    <3> QED BY <3>2 DEF LiveVm
  <2> QED BY <2>1, <2>2, <2>3, <2>4 DEF Deleting
<1> QED BY <1>2, <1>3

LEMMA LookingVm ==
    ASSUME StateInv, PhaseInv, OneMachine, VmInv, FitInv, Looking
    PROVE  VmInv' /\ FitInv'
<1>1. /\ UNCHANGED <<vm, want, touched, meddled, destroying>> /\ TypeOK /\ HoldInv /\ cur \in Held
      /\ pc \in [Res -> Step] /\ "vm" \in Res /\ saved \in Saved /\ LiveVm' = LiveVm
  BY DEF Looking, PlanVm, ObserveVm, AwaitCreated, FinalVm, StartDeleteVm, DeleteVmAbsent,
         cloud, engine, history, StateInv, TypeOK, Held, Res, Saved, LiveVm
<1> DEFINE Goal == VmInv' /\ FitInv'
<1> SUFFICES Goal
  OBVIOUS
<1>2. ASSUME UNCHANGED saved, pc'.vm \in {"run", "start", "running", "failed", "created"},
             pc'.vm = "run" => pc.vm = "observe"
      PROVE  Goal
  BY <1>1, <1>2 DEF VmInv, FitInv, VmDelete
<1>3. CASE PlanVm
  <2>1. UNCHANGED saved
    BY <1>3 DEF PlanVm
  <2>2. CASE saved.vm # None /\ ("vm" \in retire \/ saved.vm \notin LiveVm)
    <3>1. pc'.vm = "dRead" /\ cur'.vm = saved.vm
      BY <1>1, <1>3, <2>2 DEF PlanVm, Goto, Held
    <3> QED BY <1>1, <2>1, <2>2, <3>1 DEF VmInv, FitInv
  <2>3. CASE ~(saved.vm # None /\ ("vm" \in retire \/ saved.vm \notin LiveVm))
    <3>1. /\ pc'.vm \in {"done", "observe"}
          /\ pc'.vm = "done" => pc.vm = "planned" /\ VmFits(saved.vm)
          /\ saved.vm # None => saved.vm \in LiveVm
      BY <1>1, <1>3, <2>3 DEF PlanVm, Goto
    <3>2. VmFits(saved.vm)' <=> VmFits(saved.vm)
      BY <1>1, <2>1 DEF VmFits
    <3> QED BY <1>1, <2>1, <3>1, <3>2 DEF VmInv, FitInv, VmDelete
  <2> QED BY <2>2, <2>3
<1>4. CASE ObserveVm
  <2>1. UNCHANGED saved /\ pc.vm = "observe" /\ pc'.vm \in {"run", "start", "running", "failed"}
    BY <1>1, <1>4 DEF ObserveVm, Fail, End, Goto, engine
  <2> QED BY <1>2, <2>1
<1>5. CASE AwaitCreated
  <2>1. UNCHANGED saved /\ pc'.vm \in {"running", "failed"}
    BY <1>1, <1>5 DEF AwaitCreated, Fail, End, Goto, engine
  <2> QED BY <1>2, <2>1
<1>6. CASE FinalVm
  <2>1. CASE VmFits(cur.vm) /\ End("vm", "done") /\ saved' = [saved EXCEPT !.vm = cur.vm]
    <3>1. cur.vm # None /\ cur.vm \in Vm
      BY <1>1, <1>6, KnownSteps DEF FinalVm, HoldInv, VmKnown, VmStep, Held
    <3>2. LiveVm \subseteq {cur.vm}
      BY <2>1, <3>1 DEF OneMachine, VmFits, LiveVm, Live
    <3>3. saved'.vm = cur.vm /\ pc'.vm = "done"
      BY <1>1, <2>1 DEF Saved, End, Goto
    <3>4. VmFits(saved.vm)'
      BY <1>1, <2>1, <3>3 DEF VmFits
    <3> QED BY <1>1, <3>1, <3>2, <3>3, <3>4 DEF VmInv, FitInv, VmDelete
  <2>2. CASE Fail("vm") /\ UNCHANGED saved
    <3>1. pc'.vm = "failed"
      BY <1>1, <2>2 DEF Fail, End, Goto
    <3> QED BY <1>2, <2>2, <3>1
  <2> QED BY <1>6, <2>1, <2>2 DEF FinalVm
<1>7. CASE StartDeleteVm
  <2>1. UNCHANGED saved /\ pc'.vm = "dRead" /\ cur'.vm = saved.vm /\ saved.vm # None
    BY <1>1, <1>7 DEF StartDeleteVm, Goto, engine, Held, HoldInv
  <2> QED BY <1>1, <2>1 DEF VmInv, FitInv
<1>8. CASE DeleteVmAbsent
  <2>1. CASE destroying
    <3>1. UNCHANGED saved /\ pc'.vm = "gone" /\ pc.vm = "dAbsent"
      BY <1>1, <1>8, <2>1 DEF DeleteVmAbsent, End, Goto
    <3> QED BY <1>1, <3>1 DEF VmInv, FitInv, VmDelete
  <2>2. CASE ~destroying
    <3>1. pc'.vm = "observe" /\ saved'.vm = None
      BY <1>1, <1>8, <2>2 DEF DeleteVmAbsent, End, Goto, Saved
    <3> QED BY <1>1, <3>1 DEF VmInv, FitInv, VmDelete
  <2> QED BY <2>1, <2>2
<1> QED BY <1>3, <1>4, <1>5, <1>6, <1>7, <1>8 DEF Looking

LEMMA WorkingVm ==
    ASSUME StateInv, VmInv, FitInv, Working \/ Deleting
    PROVE  VmInv' /\ FitInv'
<1>1. VmMoves /\ Machines /\ saved' = saved /\ UNCHANGED meddled
  BY WorkingState DEF VmMoves, engine, history
<1>2. PICK step \in VmKnown : Moves("vm", step) /\ (step \in VmDelete => pc.vm \in VmDelete)
  BY <1>1 DEF VmMoves
<1>3. /\ pc'.vm \in VmKnown \cup {"failed"}
      /\ pc'.vm \in VmDelete => pc.vm \in VmDelete /\ cur' = cur
      /\ pc'.vm \notin {"planned", "done", "observe", "run", "gone"}
      /\ "failed" \notin VmDelete /\ "dAbsent" \in VmDelete
  BY <1>1, <1>2, KnownSteps DEF Moves, VmMoves, Rest, VmDelete
<1>4. LiveVm' \subseteq LiveVm
  BY <1>1 DEF Machines, LiveVm
<1>5. ASSUME pc'.vm = "dAbsent"
      PROVE  saved.vm \notin LiveVm'
  <2>1. CASE Deleting
    <3>1. pc.vm \in VmDelete
      BY <1>3, <1>5
    <3>2. cur.vm = saved.vm
      BY <3>1 DEF VmInv
    <3> QED BY <1>5, <2>1, <3>2, DeletingEnds
  <2>2. CASE Working
    BY <1>3, <1>5, <2>2 DEF Working, Resizing, StartInstance, AwaitRunning, StopInstance, AwaitStopped,
       ModifyInstanceSpec, RestartInstance, AwaitResized, SyncGroups, TuneVm, VmDelete
  <2> QED BY <2>1, <2>2
<1>6. VmInv'
  BY <1>1, <1>3, <1>4, <1>5 DEF VmInv
<1>7. FitInv'
  BY <1>3 DEF FitInv
<1> QED BY <1>6, <1>7

LEMMA BuyingVm ==
    ASSUME StateInv, PurchaseInv, OneMachine', VmInv, RunInstances
    PROVE  VmInv' /\ FitInv'
<1>1. /\ UNCHANGED <<engine, history>> /\ pc.vm = "run"
      /\ pc'.vm \in {"run", "created", "failed"}
      /\ UNCHANGED vm \/ \E i \in Vm : Bought(i)
  BY BuyingState
<1>2. UNCHANGED <<saved, meddled>>
  BY <1>1 DEF engine, history
<1>3. FitInv' /\ pc'.vm \notin VmDelete /\ pc'.vm \notin {"planned", "done", "observe", "gone"}
  BY <1>1 DEF FitInv, VmDelete
<1>4. CASE UNCHANGED vm
  <2>1. LiveVm' = LiveVm
    BY <1>4 DEF LiveVm
  <2> QED BY <1>1, <1>2, <1>3, <2>1 DEF VmInv, VmDelete
<1>5. ASSUME NEW i \in Vm, Bought(i)
      PROVE  VmInv'
  <2>1. LiveVm = {}
    BY <1>1, <1>5 DEF Bought, PurchaseInv
  <2>2. saved.vm # None => saved.vm \in meddled
    BY <1>1, <2>1 DEF VmInv
  <2> QED BY <1>1, <1>2, <1>3, <2>2 DEF VmInv, VmDelete
<1> QED BY <1>1, <1>3, <1>4, <1>5

LEMMA VmStepPhase ==
    ASSUME StateInv, PhaseInv, TiedInv, Looking \/ Working \/ Deleting \/ RunInstances
    PROVE  PhaseInv'
<1>1. VmApart /\ pc \in [Res -> Step] /\ "vm" \in Res
  BY VmStepApart DEF StateInv, TypeOK, Res
<1>2. ASSUME destroying
      PROVE  pc'.vm \in {"idle", "failed", "gone"} \cup VmDelete
  <2>1. pc.vm \in {"idle", "failed", "gone"} \cup VmDelete
    BY <1>2 DEF PhaseInv
  <2>2. CASE Looking
    BY <1>1, <1>2, <2>1, <2>2 DEF Looking, PlanVm, ObserveVm, AwaitCreated, FinalVm, StartDeleteVm,
       DeleteVmAbsent, VmDelete, End, Goto
  <2>3. CASE Deleting
    BY <2>3, DeletingEnds
  <2>4. ~Working /\ ~RunInstances
    BY <2>1 DEF Working, Resizing, StartInstance, AwaitRunning, StopInstance, AwaitStopped,
       ModifyInstanceSpec, RestartInstance, AwaitResized, SyncGroups, TuneVm, VmDelete, RunInstances
  <2> QED BY <2>2, <2>3, <2>4
<1>3. ASSUME ~destroying
      PROVE  pc'.vm # "gone"
  <2>1. CASE Looking
    BY <1>1, <1>3, <2>1 DEF PhaseInv, Looking, PlanVm, ObserveVm, AwaitCreated, FinalVm, StartDeleteVm,
       DeleteVmAbsent, End, Fail, Goto
  <2>2. CASE Working \/ Deleting
    <3>1. VmMoves
      BY <2>2, WorkingState
    <3> QED BY <3>1, KnownSteps DEF VmMoves, Moves, Rest
  <2>3. CASE RunInstances
    BY <2>3, BuyingState
  <2> QED BY <2>1, <2>2, <2>3
<1>4. ~destroying => pc.att \notin AttStep \cup {"done"}
  BY <1>1 DEF VmApart, PhaseInv
<1> QED BY <1>1, <1>2, <1>3, <1>4 DEF PhaseInv, VmApart, Res

-----------------------------------------------------------------------------
(* The disk's handler. *)

DiskApart ==
    /\ pc'.vm = pc.vm /\ pc'.att = pc.att /\ cur'.vm = cur.vm
    /\ UNCHANGED <<vm, want, destroying, touched, meddled>>
    /\ saved'.vm = saved.vm /\ saved'.attDisk = saved.attDisk /\ saved'.attVm = saved.attVm
    /\ Slack /\ TiedInv'
    /\ pc.att = "done" => saved'.disk = saved.disk /\ Firm

\* Its steps that ask the cloud for nothing.
QuietDisk == PlanDisk \/ ObserveDisk \/ AwaitDisk \/ FinalDisk \/ StartDeleteDisk \/ DeleteDiskAbsent

\* The last three of its steps are all that may follow the attachment's end.
LEMMA AttDone ==
    ASSUME PhaseInv, pc.att = "done"
    PROVE  ~PlanDisk /\ ~ObserveDisk /\ ~CreateDiskCall /\ ~AwaitDisk /\ ~ResizeDisk /\ ~FinalDisk
BY DEF PhaseInv, PlanDisk, ObserveDisk, CreateDiskCall, AwaitDisk, ResizeDisk, FinalDisk, AttStep

\* Whatever the handler does, the steps and the engine's entries of the others
\* stay.
LEMMA DiskOthers ==
    ASSUME StateInv, ReconcileDisk
    PROVE  /\ pc'.att = pc.att /\ UNCHANGED <<touched, meddled>>
           /\ saved'.attDisk = saved.attDisk /\ saved'.attVm = saved.attVm
           /\ UNCHANGED saved \/ PlanDisk \/ FinalDisk
<1>1. pc \in [Res -> Step] /\ saved \in Saved /\ "disk" \in Res /\ "att" \in Res
  BY DiskSteps DEF StateInv, TypeOK, Saved
<1>2. (\E step : Goto("disk", step)) \/ UNCHANGED pc
  BY DEF ReconcileDisk, PlanDisk, ObserveDisk, CreateDiskCall, AwaitDisk, ResizeDisk, FinalDisk,
     StartDeleteDisk, DeleteDisk, DeleteDiskAbsent, Call, Wait, Lost, Proceed, Fail, End
<1>3. pc'.att = pc.att
  BY <1>1, <1>2 DEF Goto
<1>4. UNCHANGED <<touched, meddled>>
  BY DEF ReconcileDisk, PlanDisk, ObserveDisk, CreateDiskCall, AwaitDisk, ResizeDisk, FinalDisk,
     StartDeleteDisk, DeleteDisk, DeleteDiskAbsent, history
<1>5. UNCHANGED saved \/ ((PlanDisk \/ FinalDisk) /\ \E d : saved' = [saved EXCEPT !.disk = d])
  BY DEF ReconcileDisk, PlanDisk, ObserveDisk, CreateDiskCall, AwaitDisk, ResizeDisk, FinalDisk,
     StartDeleteDisk, DeleteDisk, DeleteDiskAbsent, engine
<1>6. saved'.attDisk = saved.attDisk /\ saved'.attVm = saved.attVm
  BY <1>1, <1>5 DEF Saved
<1> QED BY <1>3, <1>4, <1>5, <1>6

LEMMA QuietDiskCloud ==
    ASSUME QuietDisk
    PROVE  UNCHANGED disk
BY DEF QuietDisk, PlanDisk, ObserveDisk, AwaitDisk, FinalDisk, StartDeleteDisk, DeleteDiskAbsent,
   Wait, cloud

\* A purchase that was made: a disk of this generation, the only one.
BoughtDisk(d) ==
    /\ \A e \in Disk : e # d => disk'[e] = disk[e]
    /\ \A e \in LiveDisk : disk[e].gen # gen.disk
    /\ disk[d].status = "unborn" /\ disk'[d].status = "Available"
    /\ disk'[d].gen = gen.disk /\ disk'[d].on = None

LEMMA CreateDiskType ==
    ASSUME TypeOK, NEW d \in Disk, CreateDisk(d)
    PROVE  \/ UNCHANGED disk /\ d \in LiveDisk /\ disk[d].gen = gen.disk
           \/ BoughtDisk(d)
<1> DEFINE bought == { e \in LiveDisk : disk[e].gen = gen.disk }
           new == [status |-> "Available", gen |-> gen.disk, size |-> want.size, on |-> None,
                   keep |-> TRUE]
<1>1. CASE bought # {}
  BY <1>1 DEF CreateDisk, cloud
<1>2. CASE bought = {}
  <2>1. disk' = [disk EXCEPT ![d] = new] /\ disk[d].status = "unborn"
    BY <1>2 DEF CreateDisk, FreshDisk, SetDisk
  <2>2. disk'[d] = new /\ \A e \in Disk : e # d => disk'[e] = disk[e]
    BY <2>1 DEF TypeOK
  <2> QED BY <1>2, <2>1, <2>2 DEF BoughtDisk
<1> QED BY <1>1, <1>2

LEMMA BoughtFacts ==
    ASSUME StateInv, TiedInv, NEW d \in Disk, BoughtDisk(d)
    PROVE  /\ Slack /\ TiedInv' /\ LiveDisk' = LiveDisk \cup {d} /\ d \notin LiveDisk
           /\ \A e \in LiveDisk : disk[e].gen # gen.disk
<1>1. \A e \in Disk : e # d => disk'[e] = disk[e]
  BY DEF BoughtDisk
<1>2. Slack
  BY <1>1 DEF Slack, BoughtDisk
<1>3. TiedInv'
  BY <1>1 DEF TiedInv, BoughtDisk, Tied
<1> QED BY <1>1, <1>2, <1>3 DEF BoughtDisk, LiveDisk, Live

\* A disk that grows, and one that is deleted.
LEMMA ResizeCloud ==
    ASSUME StateInv, TiedInv, ResizeDisk
    PROVE  Mild /\ Slack /\ TiedInv' /\ LiveDisk' = LiveDisk
<1> DEFINE d == cur.disk
           volume == [disk[d] EXCEPT !.size = want.size]
<1>1. CASE UNCHANGED disk
  BY <1>1, NoDisk DEF LiveDisk
<1>2. CASE Grow(d) /\ SetDisk(d, volume)
  <2>1. TypeOK /\ d \in Disk \cup {None}
    BY DEF StateInv, TypeOK
  <2>2. d \in Disk => /\ volume \in Volume /\ volume.status = disk[d].status
                      /\ volume.on = disk[d].on /\ volume.gen = disk[d].gen
    BY <2>1 DEF Volume, TypeOK
  <2>3. disk[d].status \in {"Available", "In_use"}
    BY <1>2 DEF Grow, Growable
  <2>4. SetDisk(d, volume)
    BY <1>2
  <2> HIDE DEF volume, d
  <2>5. d \in Disk => (volume.on # None) <=> (volume.status \in Tied)
    BY <2>2 DEF TiedInv
  <2>6. Mild /\ TiedInv'
    BY <2>1, <2>2, <2>3, <2>4, <2>5, VolumeMild DEF Live
  <2>7. \A e \in Disk : disk'[e] = IF e = d THEN volume ELSE disk[e]
    BY <2>1, <2>2, <2>4, SetDiskType
  <2>8. Slack
    BY <2>2, <2>7 DEF Slack
  <2>9. LiveDisk' = LiveDisk
    BY <2>2, <2>7 DEF LiveDisk, Live
  <2> QED BY <2>6, <2>8, <2>9
<1> QED BY <1>1, <1>2 DEF ResizeDisk, Call, cloud

LEMMA DeleteCloud ==
    ASSUME StateInv, TiedInv, DeleteDisk
    PROVE  /\ Mild /\ Ungrown /\ Slack /\ Firm /\ TiedInv'
           /\ \A e \in Disk : e # cur.disk => disk'[e] = disk[e]
           /\ pc'.disk = "dAbsent" => cur.disk \notin LiveDisk'
<1> DEFINE d == cur.disk
           volume == [disk[d] EXCEPT !.status = "gone"]
           Goal == /\ Mild /\ Ungrown /\ Slack /\ Firm /\ TiedInv'
                   /\ \A e \in Disk : e # d => disk'[e] = disk[e]
<1>1. ASSUME UNCHANGED disk
      PROVE  Goal
  BY <1>1, NoDisk
<1>2. ASSUME disk[d].status = "Available", SetDisk(d, volume)
      PROVE  Goal
  <2>1. TypeOK /\ d \in Disk \cup {None}
    BY DEF StateInv, TypeOK
  <2>2. d \in Disk => /\ volume \in Volume /\ volume.status = "gone" /\ volume.size = disk[d].size
                      /\ volume.on = disk[d].on /\ volume.gen = disk[d].gen
    BY <2>1 DEF Volume, TypeOK, DiskStatus
  <2>3. SetDisk(d, volume) /\ (d \in Disk => disk[d].on = None)
    BY <1>2 DEF TiedInv, Tied
  <2> HIDE DEF volume, d
  <2>4. Mild /\ TiedInv' /\ Ungrown
    BY <1>2, <2>1, <2>2, <2>3, VolumeMild DEF Live, Tied
  <2>5. \A e \in Disk : disk'[e] = IF e = d THEN volume ELSE disk[e]
    BY <2>1, <2>2, <2>3, SetDiskType
  <2>6. Slack /\ Firm
    BY <2>2, <2>3, <2>5 DEF Slack, Firm
  <2> QED BY <2>4, <2>5, <2>6
<1>3. Goal
  <2>1. UNCHANGED disk \/ (disk[d].status = "Available" /\ SetDisk(d, volume))
    BY DEF DeleteDisk, Call, cloud
  <2> HIDE DEF Goal
  <2> QED BY <1>1, <1>2, <2>1 DEF Goal
<1>4. ASSUME pc'.disk = "dAbsent"
      PROVE  d \notin LiveDisk'
  <2>1. pc \in [Res -> Step] /\ pc.disk = "dDelete" /\ "disk" \in Res /\ disk \in [Disk -> Volume]
    BY DiskSteps DEF StateInv, TypeOK, DeleteDisk
  <2>2. (UNCHANGED disk /\ ~Live(disk[d])) \/ disk' = [disk EXCEPT ![d] = volume]
    BY <1>4, <2>1 DEF DeleteDisk, Call, Lost, Fail, End, Proceed, Goto, cloud, SetDisk
  <2>3. ASSUME d \in Disk
        PROVE  ~Live(disk'[d])
    BY <2>1, <2>2, <2>3 DEF Live, Volume
  <2> QED BY <2>3 DEF LiveDisk
<1> QED BY <1>3, <1>4

LEMMA DiskStepApart ==
    ASSUME StateInv, PhaseInv, TiedInv, ReconcileDisk
    PROVE  DiskApart
<1>1. Aside
  BY ReconcileDiskState
<1>2. Slack /\ TiedInv'
  <2>1. CASE QuietDisk
    BY <2>1, QuietDiskCloud, NoDisk
  <2>2. CASE CreateDiskCall
    <3>1. UNCHANGED disk \/ \E d \in Disk : CreateDisk(d)
      BY <2>2 DEF CreateDiskCall, cloud
    <3> QED BY <3>1, CreateDiskType, BoughtFacts, NoDisk DEF StateInv
  <2>3. CASE ResizeDisk \/ DeleteDisk
    BY <2>3, ResizeCloud, DeleteCloud
  <2> QED BY <2>1, <2>2, <2>3 DEF ReconcileDisk, QuietDisk
<1>3. ASSUME pc.att = "done"
      PROVE  saved'.disk = saved.disk /\ Firm
  <2>1. StartDeleteDisk \/ DeleteDisk \/ DeleteDiskAbsent
    BY <1>3, AttDone DEF ReconcileDisk
  <2>2. UNCHANGED saved
    BY <2>1 DEF StartDeleteDisk, DeleteDisk, DeleteDiskAbsent, engine
  <2>3. Firm
    BY <2>1, QuietDiskCloud, NoDisk, DeleteCloud DEF QuietDisk
  <2> QED BY <2>2, <2>3
<1> QED BY <1>1, <1>2, <1>3, DiskOthers DEF DiskApart, Aside

\* The facts that speak of the disk.
DiskInv == GenerationInv /\ LeftInv /\ DiskHold

LEMMA PlanDiskInv ==
    ASSUME StateInv, PhaseInv, DiskInv, PlanDisk
    PROVE  DiskInv'
<1>1. /\ UNCHANGED <<disk, want, destroying, cur, touched, meddled>> /\ ~destroying
      /\ pc.disk \in {"idle", "planned"}
      /\ pc \in [Res -> Step] /\ saved \in Saved /\ gen.disk \in Nat /\ outgoing \in Disk \cup {None}
      /\ gen \in [{"vm", "disk"} -> Generation] /\ "disk" \in Res
  BY DiskSteps, BoundAssumption DEF PlanDisk, StateInv, TypeOK, cloud, history, Saved, Generation
<1>2. LiveDisk' = LiveDisk /\ \A d : Successor(d)' <=> Successor(d)
  BY <1>1 DEF LiveDisk, Successor
<1>3. CASE "disk" \in retire /\ saved.disk # None
  <2>1. /\ "disk" \notin retire' /\ outgoing' = saved.disk /\ saved'.disk = None
        /\ gen'.disk = gen.disk + 1 /\ pc'.disk = "observe" /\ outgoing = None
    BY <1>1, <1>3 DEF PlanDisk, Goto, Saved, DiskInv, GenerationInv
  <2>2. GenerationInv'
    BY <1>1, <1>2, <1>3, <2>1 DEF DiskInv, GenerationInv
  <2>3. LeftInv'
    BY <1>1, <1>2, <1>3, <2>1 DEF DiskInv, LeftInv
  <2>4. DiskHold'
    BY <2>1 DEF DiskHold
  <2> QED BY <2>2, <2>3, <2>4 DEF DiskInv
<1>4. CASE ~("disk" \in retire /\ saved.disk # None)
  <2>1. UNCHANGED <<retire, outgoing, saved, gen>>
    BY <1>4 DEF PlanDisk
  <2>2. /\ pc'.disk \in {"done", "observe"}
        /\ pc'.disk = "done" => /\ pc.disk = "planned" /\ saved.disk \in LiveDisk
                                /\ disk[saved.disk].size = want.size
    BY <1>1, <1>4 DEF PlanDisk, Goto
  <2>3. GenerationInv' /\ LeftInv'
    BY <1>1, <1>2, <2>1 DEF DiskInv, GenerationInv, LeftInv
  <2>4. DiskHold'
    BY <1>1, <2>1, <2>2 DEF DiskInv, DiskHold
  <2> QED BY <2>3, <2>4 DEF DiskInv
<1> QED BY <1>3, <1>4

LEMMA ObserveDiskInv ==
    ASSUME StateInv, PhaseInv, DiskInv, ObserveDisk \/ AwaitDisk \/ StartDeleteDisk
    PROVE  DiskInv'
<1>1. /\ UNCHANGED <<disk, engine, history>> /\ TypeOK
      /\ pc \in [Res -> Step] /\ cur \in Held /\ "disk" \in Res /\ saved.disk \in Disk \cup {None}
  BY DiskSteps, QuietDiskCloud DEF QuietDisk, ObserveDisk, AwaitDisk, StartDeleteDisk, StateInv, TypeOK, Held
<1>2. UNCHANGED <<saved, gen, retire, outgoing, destroying, want, meddled>>
  BY <1>1 DEF engine, history
<1>3. LiveDisk' = LiveDisk /\ \A d : Successor(d)' <=> Successor(d)
  BY <1>1, <1>2 DEF LiveDisk, Successor
<1>4. GenerationInv' /\ LeftInv'
  BY <1>1, <1>2, <1>3 DEF DiskInv, GenerationInv, LeftInv
<1>5. CASE ObserveDisk
  <2>1. CASE FoundDisk = {}
    <3>1. pc'.disk = "create"
      BY <1>1, <1>5, <2>1 DEF ObserveDisk, Goto
    <3>2. saved.disk \notin LiveDisk
      BY <2>1, IdAssumption DEF FoundDisk, LiveDisk
    <3> QED BY <1>2, <1>3, <1>4, <3>1, <3>2 DEF DiskInv, DiskHold
  <2>2. CASE Fail("disk")
    <3>1. pc'.disk = "failed"
      BY <1>1, <2>2 DEF Fail, End, Goto
    <3> QED BY <1>4, <3>1 DEF DiskInv, DiskHold
  <2>3. ASSUME NEW d \in FoundDisk, cur' = [cur EXCEPT !.disk = d], Goto("disk", Sized(d))
        PROVE  DiskInv'
    <3>1. pc'.disk \in {"resize", "final"} /\ cur'.disk = d
      BY <1>1, <2>3 DEF Goto, Sized, Held
    <3>2. /\ d \in Disk /\ d # None /\ disk[d].status # "unborn" /\ disk[d].gen = gen.disk
          /\ saved.disk \notin LiveDisk \ {d}
      BY <2>3, IdAssumption DEF FoundDisk, LiveDisk, Live, DiskInv, GenerationInv
    <3> QED BY <1>1, <1>2, <1>3, <1>4, <3>1, <3>2 DEF DiskInv, DiskHold
  <2> QED BY <1>5, <2>1, <2>2, <2>3 DEF ObserveDisk
<1>6. CASE AwaitDisk
  <2>1. pc.disk = "created" /\ (UNCHANGED cur \/ pc'.disk = "failed")
        /\ pc'.disk \in {"resize", "final", "failed"}
    BY <1>1, <1>6 DEF AwaitDisk, Wait, Proceed, Fail, End, Goto, Sized
  <2> QED BY <1>1, <1>2, <1>3, <1>4, <2>1 DEF DiskInv, DiskHold
<1>7. CASE StartDeleteDisk
  <2>1. /\ pc'.disk = "dDelete" /\ cur'.disk = (IF outgoing # None THEN outgoing ELSE saved.disk)
        /\ ~destroying => pc.disk = "done"
    BY <1>1, <1>7 DEF StartDeleteDisk, Goto, Held
  <2> QED BY <1>1, <1>2, <1>3, <1>4, <2>1 DEF DiskInv, DiskHold
<1> QED BY <1>5, <1>6, <1>7

LEMMA FinalDiskInv ==
    ASSUME StateInv, PhaseInv, DiskInv, FinalDisk
    PROVE  DiskInv'
<1>1. /\ UNCHANGED <<disk, want, gen, retire, outgoing, destroying, meddled>>
      /\ pc.disk = "final" /\ pc \in [Res -> Step] /\ saved \in Saved /\ "disk" \in Res
      /\ cur \in Held
  BY DiskSteps DEF FinalDisk, StateInv, TypeOK, Saved, cloud, history, Held
<1>2. LiveDisk' = LiveDisk /\ \A d : Successor(d)' <=> Successor(d)
  BY <1>1 DEF LiveDisk, Successor
<1>3. CASE Fail("disk") /\ UNCHANGED saved
  <2>1. pc'.disk = "failed"
    BY <1>1, <1>3 DEF Fail, End, Goto
  <2> QED BY <1>1, <1>2, <1>3, <2>1 DEF DiskInv, GenerationInv, LeftInv, DiskHold
<1>4. CASE /\ Live(disk[cur.disk]) /\ disk[cur.disk].size = want.size
           /\ End("disk", "done") /\ saved' = [saved EXCEPT !.disk = cur.disk]
  <2>1. pc'.disk = "done" /\ saved'.disk = cur.disk
    BY <1>1, <1>4 DEF End, Goto, Saved
  <2>2. /\ cur.disk # None /\ disk[cur.disk].gen = gen.disk
        /\ saved.disk \notin LiveDisk \ {cur.disk}
    BY <1>1 DEF DiskInv, DiskHold
  <2>3. cur.disk \in LiveDisk /\ disk[cur.disk].status # "unborn"
    BY <1>1, <1>4, <2>2 DEF LiveDisk, Held, Live
  <2>4. GenerationInv'
    BY <1>1, <1>2, <2>1, <2>2, <2>3 DEF DiskInv, GenerationInv
  <2>5. ASSUME NEW d \in LiveDisk
        PROVE  d \in {cur.disk, outgoing} \/ Successor(d)
    <3>1. CASE saved.disk = None /\ disk[d].gen = gen.disk
      BY <2>2, <2>3, <3>1 DEF DiskInv, GenerationInv
    <3>2. CASE d = saved.disk
      BY <2>2, <3>2
    <3> QED BY <3>1, <3>2 DEF DiskInv, LeftInv
  <2>6. LeftInv'
    BY <1>1, <1>2, <2>1, <2>3, <2>5 DEF LeftInv
  <2>7. DiskHold'
    BY <1>1, <1>4, <2>1, <2>2 DEF DiskHold
  <2> QED BY <2>4, <2>6, <2>7 DEF DiskInv
<1> QED BY <1>3, <1>4 DEF FinalDisk

\* A purchase on top of a saved disk: that one went because of an operator.
LEMMA CreateDiskInv ==
    ASSUME StateInv, PhaseInv, TiedInv, DiskInv, CreateDiskCall
    PROVE  DiskInv'
<1>1. /\ UNCHANGED <<want, gen, retire, saved, outgoing, destroying, meddled>> /\ TypeOK
      /\ pc.disk = "create" /\ pc \in [Res -> Step] /\ "disk" \in Res /\ cur \in Held
      /\ saved.disk \in Disk \cup {None} /\ outgoing \in Disk \cup {None}
  BY DiskSteps DEF CreateDiskCall, StateInv, TypeOK, engine, history, Held
<1>2. ~destroying /\ saved.disk \notin LiveDisk
  BY <1>1 DEF PhaseInv, DiskInv, DiskHold
<1>3. ASSUME UNCHANGED disk
      PROVE  GenerationInv' /\ LeftInv' /\ LiveDisk' = LiveDisk
  <2>1. LiveDisk' = LiveDisk /\ \A e : Successor(e)' <=> Successor(e)
    BY <1>1, <1>3 DEF LiveDisk, Successor
  <2> QED BY <1>1, <1>3, <2>1 DEF DiskInv, GenerationInv, LeftInv
<1>4. ASSUME NEW d \in Disk, BoughtDisk(d)
      PROVE  /\ GenerationInv' /\ LeftInv' /\ saved'.disk \notin LiveDisk'
             /\ disk'[d].status # "unborn" /\ disk'[d].gen = gen.disk
  <2>1. /\ LiveDisk' = LiveDisk \cup {d} /\ d \notin LiveDisk
        /\ \A e \in LiveDisk : disk[e].gen # gen.disk
        /\ \A e \in Disk : e # d => disk'[e] = disk[e]
        /\ disk[d].status = "unborn" /\ disk'[d].status # "unborn" /\ disk'[d].gen = gen.disk
    BY <1>4, BoughtFacts DEF BoughtDisk
  <2>2. saved.disk # d /\ outgoing # d
    BY <2>1, IdAssumption DEF DiskInv, GenerationInv
  <2>3. saved.disk # None => saved.disk \in Disk /\ disk'[saved.disk] = disk[saved.disk]
    BY <1>1, <2>1, <2>2
  <2>4. outgoing # None => outgoing \in Disk /\ disk'[outgoing] = disk[outgoing]
    BY <1>1, <2>1, <2>2
  <2>5. \A e \in LiveDisk : e \in Disk /\ disk'[e] = disk[e]
    BY <2>1 DEF LiveDisk
  <2>6. GenerationInv'
    BY <1>1, <2>1, <2>3, <2>4, <2>5 DEF DiskInv, GenerationInv
  <2>7. ASSUME NEW e \in LiveDisk, Successor(e)
        PROVE  Successor(e)'
    <3>1. PICK f \in Disk \cap meddled : disk[f].status = "gone" /\ disk[f].gen = disk[e].gen
      BY <2>7 DEF Successor
    <3>2. disk'[f] = disk[f]
      BY <2>1, <3>1
    <3> QED BY <1>1, <2>5, <3>1, <3>2 DEF Successor
  <2>8. Successor(d)' \/ saved.disk = None
    <3> SUFFICES ASSUME saved.disk # None PROVE Successor(d)'
      OBVIOUS
    <3>1. saved.disk \in meddled
      BY <1>2 DEF DiskInv, LeftInv
    <3>2. disk[saved.disk].status = "gone" /\ disk[saved.disk].gen = gen.disk
      BY <1>2, <2>3 DEF DiskInv, GenerationInv, LiveDisk, Live
    <3> QED BY <1>1, <2>1, <2>3, <3>1, <3>2 DEF Successor
  <2>9. LeftInv'
    <3>1. ASSUME NEW e \in LiveDisk'
          PROVE  \/ e \in {saved'.disk, outgoing'} \/ Successor(e)'
                 \/ saved'.disk = None /\ disk'[e].gen = gen'.disk
      BY <1>1, <2>1, <2>5, <2>7, <2>8 DEF DiskInv, LeftInv
    <3>2. ~destroying' /\ saved'.disk # None => saved'.disk \in LiveDisk' \cup meddled'
      BY <1>1, <2>1 DEF DiskInv, LeftInv
    <3> QED BY <3>1, <3>2 DEF LeftInv
  <2> QED BY <1>1, <1>2, <2>1, <2>2, <2>6, <2>9
<1>5. CASE UNCHANGED disk /\ Lost("disk")
  <2>1. pc'.disk \in {"create", "failed"}
    BY <1>1, <1>5 DEF Lost, Fail, End, Goto
  <2> QED BY <1>1, <1>2, <1>3, <1>5, <2>1 DEF DiskInv, DiskHold
<1>6. ASSUME NEW d \in Disk, CreateDisk(d),
             (cur' = [cur EXCEPT !.disk = d] /\ Goto("disk", "created")) \/ Lost("disk")
      PROVE  DiskInv'
  <2>1. \/ UNCHANGED disk /\ d \in LiveDisk /\ disk[d].gen = gen.disk
        \/ BoughtDisk(d)
    BY <1>1, <1>6, CreateDiskType
  <2>2. /\ GenerationInv' /\ LeftInv' /\ saved'.disk \notin LiveDisk'
        /\ disk'[d].status # "unborn" /\ disk'[d].gen = gen.disk
    BY <1>1, <1>2, <1>3, <1>4, <2>1 DEF LiveDisk, Live
  <2>3. \/ pc'.disk = "created" /\ cur'.disk = d
        \/ pc'.disk \in {"create", "failed"}
    BY <1>1, <1>6 DEF Lost, Fail, End, Goto, Held
  <2>4. DiskHold'
    BY <1>1, <2>2, <2>3, IdAssumption DEF DiskHold
  <2> QED BY <2>2, <2>4 DEF DiskInv
<1> QED BY <1>5, <1>6 DEF CreateDiskCall, cloud

LEMMA ResizeDiskInv ==
    ASSUME StateInv, TiedInv, DiskInv, ResizeDisk
    PROVE  DiskInv'
<1>1. /\ UNCHANGED <<gen, retire, saved, outgoing, destroying, meddled>>
      /\ pc.disk = "resize" /\ pc \in [Res -> Step] /\ "disk" \in Res /\ cur.disk \in Disk \cup {None}
  BY DiskSteps DEF ResizeDisk, StateInv, TypeOK, engine, history
<1>2. Mild /\ LiveDisk' = LiveDisk
  BY ResizeCloud
<1>3. GenerationInv' /\ LeftInv'
  BY <1>1, <1>2, LeftKept DEF DiskInv, Remembers
<1>4. pc'.disk \in {"resize", "final", "failed"} /\ (UNCHANGED cur \/ pc'.disk = "failed")
  BY <1>1 DEF ResizeDisk, Call, Lost, Proceed, Fail, End, Goto
<1>5. /\ cur.disk # None /\ disk[cur.disk].status # "unborn" /\ disk[cur.disk].gen = gen.disk
      /\ saved.disk \notin LiveDisk \ {cur.disk}
  BY <1>1 DEF DiskInv, DiskHold
<1>6. disk'[cur.disk].status # "unborn" /\ disk'[cur.disk].gen = gen.disk
  BY <1>1, <1>2, <1>5 DEF Mild
<1>7. DiskHold'
  BY <1>1, <1>2, <1>4, <1>5, <1>6 DEF DiskHold
<1> QED BY <1>3, <1>7 DEF DiskInv

LEMMA DeleteDiskInv ==
    ASSUME StateInv, PhaseInv, TiedInv, DiskInv, DeleteDisk
    PROVE  DiskInv'
<1>1. /\ UNCHANGED <<want, gen, retire, saved, outgoing, destroying, meddled>>
      /\ pc.disk = "dDelete" /\ pc \in [Res -> Step] /\ "disk" \in Res
      /\ saved.disk \in Disk \cup {None}
  BY DiskSteps DEF DeleteDisk, StateInv, TypeOK, engine, history
<1>2. /\ Mild /\ Ungrown /\ \A e \in Disk : e # cur.disk => disk'[e] = disk[e]
      /\ pc'.disk = "dAbsent" => cur.disk \notin LiveDisk'
  BY DeleteCloud
<1>3. cur.disk = IF outgoing # None THEN outgoing ELSE saved.disk
  BY <1>1 DEF DiskInv, DiskHold
<1>4. ASSUME ~destroying
      PROVE  saved.disk # cur.disk /\ saved.disk # None
  <2>1. outgoing # None /\ saved.disk # None
    BY <1>1, <1>4 DEF PhaseInv, DiskInv, DiskHold
  <2>2. disk[outgoing].gen < gen.disk /\ disk[saved.disk].gen = gen.disk /\ gen.disk \in Nat
    BY <2>1, BoundAssumption DEF DiskInv, GenerationInv, StateInv, TypeOK, Generation
  <2> QED BY <1>3, <2>1, <2>2
<1>5. ~destroying => (saved.disk \in LiveDisk => saved.disk \in LiveDisk')
  BY <1>2, <1>4 DEF LiveDisk
<1>6. GenerationInv' /\ LeftInv'
  BY <1>1, <1>2, <1>5, LeftKept DEF DiskInv, Remembers
<1>7. pc'.disk \in {"dDelete", "dAbsent", "failed"} /\ (UNCHANGED cur \/ pc'.disk = "failed")
  BY <1>1 DEF DeleteDisk, Call, Lost, Proceed, Fail, End, Goto
<1>8. ~destroying => saved.disk # None /\ disk'[saved.disk].size = want.size
  <2>1. ~destroying => saved.disk # None /\ disk[saved.disk].size = want.size
    BY <1>1 DEF DiskInv, DiskHold
  <2> QED BY <1>1, <1>2, <2>1 DEF Ungrown
<1>9. DiskHold'
  BY <1>1, <1>2, <1>3, <1>7, <1>8 DEF DiskHold
<1> QED BY <1>6, <1>9 DEF DiskInv

LEMMA DeleteDiskAbsentInv ==
    ASSUME StateInv, PhaseInv, DiskInv, DeleteDiskAbsent
    PROVE  DiskInv'
<1>1. /\ UNCHANGED <<disk, want, gen, retire, saved, destroying, meddled>> /\ outgoing' = None
      /\ pc.disk = "dAbsent" /\ pc \in [Res -> Step] /\ "disk" \in Res
  BY DiskSteps DEF DeleteDiskAbsent, StateInv, TypeOK, cloud, history
<1>2. LiveDisk' = LiveDisk /\ \A d : Successor(d)' <=> Successor(d)
  BY <1>1 DEF LiveDisk, Successor
<1>3. /\ cur.disk = (IF outgoing # None THEN outgoing ELSE saved.disk) /\ cur.disk \notin LiveDisk
      /\ ~destroying => saved.disk # None /\ disk[saved.disk].size = want.size
  BY <1>1 DEF DiskInv, DiskHold
<1>4. GenerationInv'
  BY <1>1, <1>2 DEF DiskInv, GenerationInv
<1>5. outgoing \notin LiveDisk
  BY <1>3, IdAssumption DEF LiveDisk
<1>6. LeftInv'
  BY <1>1, <1>2, <1>5 DEF DiskInv, LeftInv
<1>7. pc'.disk = IF ~destroying THEN "done" ELSE IF outgoing # None THEN "idle" ELSE "gone"
  BY <1>1 DEF DeleteDiskAbsent, End, Goto
<1>8. DiskHold'
  BY <1>1, <1>2, <1>3, <1>7 DEF DiskHold
<1> QED BY <1>4, <1>6, <1>8 DEF DiskInv

LEMMA DiskStepPhase ==
    ASSUME StateInv, PhaseInv, TiedInv, ReconcileDisk
    PROVE  PhaseInv'
<1>1. /\ pc \in [Res -> Step] /\ "disk" \in Res /\ pc'.vm = pc.vm /\ pc'.att = pc.att
      /\ UNCHANGED destroying
  BY DiskStepApart, DiskSteps DEF StateInv, TypeOK, DiskApart
<1>2. ASSUME destroying
      PROVE  /\ pc'.disk \in {"idle", "failed", "gone", "dDelete", "dAbsent"}
             /\ UNCHANGED saved /\ (pc'.disk = "gone" => outgoing' = None)
  <2>1. StartDeleteDisk \/ DeleteDisk \/ DeleteDiskAbsent
    BY <1>2 DEF PhaseInv, ReconcileDisk, PlanDisk, ObserveDisk, CreateDiskCall, AwaitDisk,
       ResizeDisk, FinalDisk
  <2> QED BY <1>1, <1>2, <2>1 DEF StartDeleteDisk, DeleteDisk, DeleteDiskAbsent, Call, Lost, Proceed,
             Fail, End, Goto, engine
<1>3. ASSUME ~destroying
      PROVE  /\ pc'.disk # "gone" /\ pc.att \notin AttStep
             /\ pc.att = "done" => pc'.disk \in {"done", "dDelete", "dAbsent", "failed"}
             /\ pc'.disk \in {"dDelete", "dAbsent"} => outgoing' # None
  <2>1. CASE PlanDisk \/ ObserveDisk \/ CreateDiskCall \/ AwaitDisk \/ ResizeDisk \/ FinalDisk
    <3>1. pc'.disk \notin {"gone", "dDelete", "dAbsent"}
      BY <1>1, <2>1 DEF PlanDisk, ObserveDisk, CreateDiskCall, AwaitDisk, ResizeDisk, FinalDisk,
         Call, Wait, Lost, Proceed, Fail, End, Goto, Sized
    <3>2. pc.disk # "done"
      BY <2>1 DEF PlanDisk, ObserveDisk, CreateDiskCall, AwaitDisk, ResizeDisk, FinalDisk
    <3> QED BY <1>3, <2>1, <3>1, <3>2, AttDone DEF PhaseInv
  <2>2. CASE StartDeleteDisk \/ DeleteDisk \/ DeleteDiskAbsent
    <3>1. pc.disk \in {"dDelete", "dAbsent"} \/ pc.att = "done"
      BY <1>3, <2>2 DEF StartDeleteDisk, DeleteDisk, DeleteDiskAbsent
    <3>2. pc.att \notin AttStep
      BY <1>3, <3>1 DEF PhaseInv, AttStep
    <3>3. /\ pc'.disk \in {"done", "dDelete", "dAbsent", "failed"}
          /\ pc'.disk \in {"dDelete", "dAbsent"} => outgoing' # None
      BY <1>1, <1>3, <2>2 DEF StartDeleteDisk, DeleteDisk, DeleteDiskAbsent, Call, Lost, Proceed, Fail,
         End, Goto, PhaseInv, engine
    <3> QED BY <3>2, <3>3
  <2> QED BY <2>1, <2>2 DEF ReconcileDisk
<1> QED BY <1>1, <1>2, <1>3 DEF PhaseInv, Res

LEMMA DiskStepDone ==
    ASSUME StateInv, PhaseInv, TiedInv, DiskInv, VmInv, FitInv, AttInv, ReconcileDisk
    PROVE  PhaseInv' /\ TiedInv' /\ DiskInv' /\ VmInv' /\ FitInv' /\ AttInv'
<1>1. DiskApart
  BY DiskStepApart
<1>2. DiskInv'
  BY PlanDiskInv, ObserveDiskInv, FinalDiskInv, CreateDiskInv, ResizeDiskInv, DeleteDiskInv,
     DeleteDiskAbsentInv DEF ReconcileDisk
<1>3. PhaseInv'
  BY DiskStepPhase
<1>4. VmInv'
  <2>1. LiveVm' = LiveVm
    BY <1>1 DEF DiskApart, LiveVm
  <2> QED BY <1>1, <2>1, VmKept DEF DiskApart
<1>5. FitInv'
  BY <1>1 DEF DiskApart, FitInv, VmFits
<1>6. AttInv'
  <2>1. pc.att = "done" => saved.vm # None
    BY DEF PhaseInv, VmInv
  <2> QED BY <1>1, <2>1, AttKept DEF DiskApart, AttSide
<1> QED BY <1>1, <1>2, <1>3, <1>4, <1>5, <1>6 DEF DiskApart

-----------------------------------------------------------------------------
(* The attachment's handler. *)

AttApart ==
    /\ pc'.vm = pc.vm /\ pc'.disk = pc.disk /\ cur'.vm = cur.vm /\ cur'.disk = cur.disk
    /\ UNCHANGED <<vm, want, gen, retire, outgoing, destroying, touched>>
    /\ saved'.vm = saved.vm /\ saved'.disk = saved.disk
    /\ Mild /\ Ungrown /\ TiedInv' /\ LiveDisk' = LiveDisk
    /\ meddled' = meddled \/ (meddled' = meddled \ {saved.disk} /\ saved.disk \in LiveDisk)

\* An attachment, a detachment, and a change of what becomes of the disk.
LEMMA AttVolume ==
    ASSUME StateInv, TiedInv, NEW d \in Disk, NEW volume, SetDisk(d, volume),
           volume \in Volume, volume.gen = disk[d].gen, volume.size = disk[d].size,
           Live(disk[d]), Live(volume), (volume.on # None) <=> (volume.status \in Tied)
    PROVE  Mild /\ Ungrown /\ TiedInv' /\ LiveDisk' = LiveDisk
<1>1. Mild /\ Ungrown /\ TiedInv'
  BY VolumeMild DEF StateInv, Live
<1>2. \A e \in Disk : disk'[e] = IF e = d THEN volume ELSE disk[e]
  BY SetDiskType DEF StateInv
<1> QED BY <1>1, <1>2 DEF LiveDisk

LEMMA DetachVolume ==
    ASSUME StateInv, TiedInv, NEW d \in Disk, disk[d].status = "In_use", DetachDisk(d)
    PROVE  Mild /\ Ungrown /\ TiedInv' /\ LiveDisk' = LiveDisk
<1> DEFINE volume == [disk[d] EXCEPT !.status = "Detaching"]
<1>1. SetDisk(d, volume) /\ disk[d] \in Volume
  BY DEF DetachDisk, StateInv, TypeOK
<1>2. /\ volume \in Volume /\ volume.gen = disk[d].gen /\ volume.size = disk[d].size
      /\ volume.status = "Detaching" /\ volume.on = disk[d].on
  BY <1>1 DEF Volume, DiskStatus
<1> HIDE DEF volume
<1>3. Live(disk[d]) /\ Live(volume) /\ volume.on # None
  BY <1>2 DEF Live, TiedInv, Tied
<1> QED BY <1>1, <1>2, <1>3, AttVolume DEF Tied

LEMMA AttachVolume ==
    ASSUME StateInv, TiedInv, NEW d \in Disk, NEW i \in Vm, NEW keep \in BOOLEAN,
           Accepts(d, i), AttachDisk(d, i, keep)
    PROVE  Mild /\ Ungrown /\ TiedInv' /\ LiveDisk' = LiveDisk
<1> DEFINE volume == [disk[d] EXCEPT !.status = "Attaching", !.on = i, !.keep = keep]
<1>1. SetDisk(d, volume) /\ disk[d] \in Volume /\ i # None
  BY IdAssumption DEF AttachDisk, StateInv, TypeOK
<1>2. /\ volume \in Volume /\ volume.gen = disk[d].gen /\ volume.size = disk[d].size
      /\ volume.status = "Attaching" /\ volume.on = i
  BY <1>1 DEF Volume, DiskStatus
<1> HIDE DEF volume
<1>3. Live(disk[d]) /\ Live(volume)
  BY <1>2 DEF Live, Accepts
<1> QED BY <1>1, <1>2, <1>3, AttVolume DEF Tied

LEMMA KeepVolume ==
    ASSUME StateInv, TiedInv, NEW d \in Disk, NEW keep \in BOOLEAN, Live(disk[d]),
           SetDisk(d, [disk[d] EXCEPT !.keep = keep])
    PROVE  Mild /\ Ungrown /\ TiedInv' /\ LiveDisk' = LiveDisk
<1> DEFINE volume == [disk[d] EXCEPT !.keep = keep]
<1>1. SetDisk(d, volume) /\ disk[d] \in Volume
  BY DEF StateInv, TypeOK
<1>2. /\ volume \in Volume /\ volume.gen = disk[d].gen /\ volume.size = disk[d].size
      /\ volume.status = disk[d].status /\ volume.on = disk[d].on
  BY <1>1 DEF Volume
<1> HIDE DEF volume
<1>3. Live(volume) /\ ((volume.on # None) <=> (volume.status \in Tied))
  BY <1>2 DEF Live, TiedInv
<1> QED BY <1>1, <1>2, <1>3, AttVolume

LEMMA AttCloud ==
    ASSUME StateInv, PhaseInv, VmInv, DiskInv, TiedInv, ReconcileAtt
    PROVE  Mild /\ Ungrown /\ TiedInv' /\ LiveDisk' = LiveDisk
<1>1. CASE UNCHANGED disk
  BY <1>1, NoDisk DEF LiveDisk
<1>2. /\ saved.disk \in Disk \cup {None} /\ saved.attDisk \in Disk \cup {None}
      /\ saved.vm \in Vm \cup {None}
  BY DEF StateInv, TypeOK
<1>3. CASE DetachPrevious \/ DetachDiskCall
  <2>1. UNCHANGED disk \/ /\ saved.attDisk # None /\ disk[saved.attDisk].status = "In_use"
                          /\ DetachDisk(saved.attDisk)
    BY <1>3 DEF DetachPrevious, DetachDiskCall, Call, cloud, Attached
  <2> QED BY <1>1, <1>2, <2>1, DetachVolume
<1>4. CASE Attach \/ KeepDisk
  <2>1. saved.disk # None /\ saved.vm # None
    BY <1>4 DEF Attach, KeepDisk, PhaseInv, AttStep, VmInv, DiskInv, DiskHold
  <2>2. CASE Attach
    <3>1. UNCHANGED disk \/ (Accepts(saved.disk, saved.vm) /\ AttachDisk(saved.disk, saved.vm, TRUE))
      BY <2>2 DEF Attach, Call, cloud
    <3> QED BY <1>1, <1>2, <2>1, <3>1, AttachVolume
  <2>3. CASE KeepDisk
    <3>1. \/ UNCHANGED disk
          \/ /\ Live(disk[saved.disk])
             /\ SetDisk(saved.disk, [disk[saved.disk] EXCEPT !.keep = TRUE])
      BY <2>3 DEF KeepDisk, Call, cloud
    <3> QED BY <1>1, <1>2, <2>1, <3>1, KeepVolume
  <2> QED BY <1>4, <2>2, <2>3
<1>5. CASE PlanAtt \/ AwaitDetached \/ LookAtDisk \/ FinalAtt \/ StartDeleteAtt \/ AwaitDetachedDisk
  BY <1>1, <1>5 DEF PlanAtt, AwaitDetached, LookAtDisk, FinalAtt, StartDeleteAtt, AwaitDetachedDisk,
     Wait, cloud
<1> QED BY <1>3, <1>4, <1>5 DEF ReconcileAtt

LEMMA AttStepApart ==
    ASSUME StateInv, PhaseInv, VmInv, DiskInv, TiedInv, ReconcileAtt
    PROVE  AttApart
<1>1. /\ TypeOK /\ cur \in Held /\ saved \in Saved /\ "att" \in Res /\ pc \in [Res -> Step]
      /\ "vm" \in Res /\ "disk" \in Res
  BY DEF StateInv, TypeOK, Held, Saved, Res
<1>2. (\E step : Goto("att", step)) \/ UNCHANGED pc
  BY DEF ReconcileAtt, PlanAtt, DetachPrevious, AwaitDetached, LookAtDisk, Attach, KeepDisk, FinalAtt,
     StartDeleteAtt, DetachDiskCall, AwaitDetachedDisk, Call, Wait, Lost, Proceed, Fail, End
<1>3. pc'.vm = pc.vm /\ pc'.disk = pc.disk
  BY <1>1, <1>2 DEF Goto
<1>4. UNCHANGED cur \/ cur' = [cur EXCEPT !["att"] = None]
  BY DEF ReconcileAtt, PlanAtt, DetachPrevious, AwaitDetached, LookAtDisk, Attach, KeepDisk, FinalAtt,
     StartDeleteAtt, DetachDiskCall, AwaitDetachedDisk, Call, Wait, Lost, Proceed, Fail, End
<1>5. cur'.vm = cur.vm /\ cur'.disk = cur.disk
  BY <1>1, <1>4 DEF Held
<1>6. UNCHANGED <<want, gen, retire, outgoing, destroying, touched>>
  BY DEF ReconcileAtt, PlanAtt, DetachPrevious, AwaitDetached, LookAtDisk, Attach, KeepDisk, FinalAtt,
     StartDeleteAtt, DetachDiskCall, AwaitDetachedDisk, engine, history
<1>7. UNCHANGED saved \/ \E d, i : saved' = [saved EXCEPT !.attDisk = d, !.attVm = i]
  BY DEF ReconcileAtt, PlanAtt, DetachPrevious, AwaitDetached, LookAtDisk, Attach, KeepDisk, FinalAtt,
     StartDeleteAtt, DetachDiskCall, AwaitDetachedDisk, engine
<1>8. saved'.vm = saved.vm /\ saved'.disk = saved.disk
  BY <1>1, <1>7 DEF Saved
<1>9. meddled' = meddled \/ (meddled' = meddled \ {saved.disk} /\ saved.disk \in LiveDisk)
  <2>1. CASE FinalAtt
    <3>1. saved.disk \in Disk
      BY <1>1, <2>1 DEF FinalAtt, PhaseInv, AttStep, DiskInv, DiskHold, Saved
    <3> QED BY <2>1, <3>1 DEF FinalAtt, LiveDisk, Live
  <2>2. CASE ~FinalAtt
    BY <2>2 DEF ReconcileAtt, PlanAtt, DetachPrevious, AwaitDetached, LookAtDisk, Attach, KeepDisk,
       StartDeleteAtt, DetachDiskCall, AwaitDetachedDisk, history
  <2> QED BY <2>1, <2>2
<1>10. UNCHANGED vm
  BY ReconcileAttState DEF Aside
<1> QED BY <1>3, <1>5, <1>6, <1>8, <1>9, <1>10, AttCloud DEF AttApart


\* Its steps but the first, the last, and the end of a deletion.
Attaching == DetachPrevious \/ AwaitDetached \/ LookAtDisk \/ Attach \/ KeepDisk
             \/ StartDeleteAtt \/ DetachDiskCall

\* Where the handler is, and where it goes.
LEMMA AttMoves ==
    ASSUME StateInv, PhaseInv, ReconcileAtt
    PROVE  /\ destroying => pc'.att \in {"failed", "gone", "dDetach", "dDetached"}
           /\ ~destroying => /\ pc.vm = "done" /\ pc.disk = "done"
                             /\ pc'.att \in AttStep \cup {"done", "failed"}
           /\ Attaching => pc'.att \in AttStep \cup {"failed"} /\ UNCHANGED saved
<1>1. pc \in [Res -> Step] /\ "att" \in Res
  BY DEF StateInv, TypeOK, Res
<1>2. CASE PlanAtt
  BY <1>1, <1>2 DEF PlanAtt, Goto, AttStep, Attaching, DetachPrevious, AwaitDetached, LookAtDisk, Attach,
     KeepDisk, StartDeleteAtt, DetachDiskCall
<1>3. CASE FinalAtt
  BY <1>1, <1>3 DEF FinalAtt, Fail, End, Goto, AttStep, Attaching, DetachPrevious, AwaitDetached,
     LookAtDisk, Attach, KeepDisk, StartDeleteAtt, DetachDiskCall, PhaseInv
<1>4. CASE StartDeleteAtt
  BY <1>1, <1>4 DEF StartDeleteAtt, Goto, AttStep, Attaching, engine
<1>5. CASE AwaitDetachedDisk
  <2>1. pc.att \in {"dDetach", "dDetached"}
        /\ (pc'.att = "failed" \/ pc'.att = IF destroying THEN "gone" ELSE "look")
    BY <1>1, <1>5 DEF AwaitDetachedDisk, Proceed, Fail, End, Goto
  <2>2. ~destroying => pc.vm = "done" /\ pc.disk = "done"
    BY <2>1 DEF PhaseInv, AttStep
  <2>3. CASE Attaching
    BY <1>1, <1>5, <2>1, <2>3 DEF Attaching, DetachPrevious, AwaitDetached, LookAtDisk, Attach,
       KeepDisk, StartDeleteAtt, DetachDiskCall, AwaitDetachedDisk, Attached, Call, Lost, Proceed,
       Fail, End, Goto, AttStep, engine
  <2> QED BY <2>1, <2>2, <2>3 DEF AttStep
<1>6. CASE Attaching /\ ~StartDeleteAtt
  <2>1. /\ pc.att \in AttStep /\ UNCHANGED saved
        /\ pc.att \in {"dDetach", "dDetached"} => DetachDiskCall
    BY <1>6 DEF Attaching, DetachPrevious, AwaitDetached, LookAtDisk, Attach, KeepDisk,
       DetachDiskCall, AttStep, engine
  <2>2. pc'.att \in AttStep \cup {"failed"}
    BY <1>1, <1>6 DEF Attaching, DetachPrevious, AwaitDetached, LookAtDisk, Attach, KeepDisk,
       DetachDiskCall, Call, Wait, Lost, Proceed, Fail, End, Goto, AttStep
  <2>3. DetachDiskCall => pc'.att \in {"dDetach", "dDetached", "failed"}
    BY <1>1 DEF DetachDiskCall, Call, Lost, Proceed, Fail, End, Goto
  <2>4. destroying => DetachDiskCall
    BY <2>1 DEF PhaseInv, AttStep
  <2>5. ~destroying => pc.vm = "done" /\ pc.disk = "done"
    BY <2>1 DEF PhaseInv
  <2> QED BY <2>1, <2>2, <2>3, <2>4, <2>5
<1> QED BY <1>2, <1>3, <1>4, <1>5, <1>6 DEF ReconcileAtt, Attaching

LEMMA AttStepAtt ==
    ASSUME StateInv, PhaseInv, VmInv, DiskInv, TiedInv, AttInv, ReconcileAtt
    PROVE  AttInv'
<1>1. /\ saved \in Saved /\ "att" \in Res /\ pc \in [Res -> Step] /\ UNCHANGED touched
      /\ saved'.disk = saved.disk /\ saved'.vm = saved.vm
  BY AttStepApart DEF StateInv, TypeOK, Saved, Res, AttApart
<1>2. CASE pc'.att \notin {"planned", "done"} /\ (saved'.attDisk # None => saved'.attVm # None)
  BY <1>2 DEF AttInv
<1>3. CASE Attaching
  <2>1. pc'.att \in AttStep \cup {"failed"} /\ UNCHANGED saved
    BY <1>3, AttMoves
  <2> QED BY <1>2, <2>1 DEF AttStep, AttInv
<1>4. CASE PlanAtt
  <2>1. /\ UNCHANGED <<saved, disk>> /\ pc'.att \in {"done", "previous", "dDetach"}
        /\ pc'.att = "done" => pc.att = "planned" /\ ~Moved /\ Attached(saved.disk, saved.vm)
    BY <1>1, <1>4 DEF PlanAtt, Goto, cloud, engine
  <2>2. /\ Attached(saved.attDisk, saved.attVm)' <=> Attached(saved.attDisk, saved.attVm)
        /\ Attached(saved.disk, saved.vm)' <=> Attached(saved.disk, saved.vm)
        /\ Moved' <=> Moved
    BY <2>1 DEF Attached, Moved
  <2> QED BY <1>1, <2>1, <2>2 DEF AttInv
<1>5. CASE FinalAtt
  <2>1. /\ UNCHANGED disk /\ pc.att = "attached"
        /\ \/ /\ disk[saved.disk].status = "In_use" /\ disk[saved.disk].on = saved.vm
              /\ saved' = [saved EXCEPT !.attDisk = saved.disk, !.attVm = saved.vm]
           \/ UNCHANGED saved /\ pc'.att = "failed"
    BY <1>1, <1>5 DEF FinalAtt, Fail, End, Goto, cloud
  <2>2. CASE UNCHANGED saved /\ pc'.att = "failed"
    BY <1>2, <2>2 DEF AttInv
  <2>3. CASE /\ disk[saved.disk].status = "In_use" /\ disk[saved.disk].on = saved.vm
             /\ saved' = [saved EXCEPT !.attDisk = saved.disk, !.attVm = saved.vm]
    <3>1. saved.disk # None /\ saved.vm # None
      BY <2>1 DEF PhaseInv, AttStep, VmInv, DiskInv, DiskHold
    <3>2. saved'.attDisk = saved.disk /\ saved'.attVm = saved.vm
      BY <1>1, <2>3 DEF Saved
    <3> QED BY <1>1, <2>1, <2>3, <3>1, <3>2 DEF AttInv, Moved, Attached
  <2> QED BY <2>1, <2>2, <2>3
<1>6. CASE AwaitDetachedDisk
  <2>1. /\ pc'.att \in {"gone", "look", "failed"}
        /\ UNCHANGED saved \/ saved' = [saved EXCEPT !.attDisk = None, !.attVm = None]
    BY <1>1, <1>6 DEF AwaitDetachedDisk, Proceed, Fail, End, Goto
  <2>2. saved'.attDisk # None => saved'.attVm # None
    BY <1>1, <2>1 DEF AttInv, Saved
  <2> QED BY <1>2, <2>1, <2>2
<1> QED BY <1>3, <1>4, <1>5, <1>6 DEF ReconcileAtt, Attaching

LEMMA AttStepDone ==
    ASSUME StateInv, PhaseInv, TiedInv, DiskInv, VmInv, FitInv, AttInv, ReconcileAtt
    PROVE  PhaseInv' /\ TiedInv' /\ DiskInv' /\ VmInv' /\ FitInv' /\ AttInv'
<1>1. AttApart
  BY AttStepApart
<1>2. DiskInv'
  <2>1. Remembers
    BY <1>1 DEF AttApart, Remembers, LiveDisk
  <2>2. GenerationInv' /\ LeftInv'
    BY <1>1, <2>1, LeftKept DEF AttApart, DiskInv
  <2>3. DiskHold'
    BY <1>1, HoldKept DEF AttApart, DiskInv, DiskSide
  <2> QED BY <2>2, <2>3 DEF DiskInv
<1>3. VmInv'
  <2>1. LiveVm' = LiveVm
    BY <1>1 DEF AttApart, LiveVm
  <2>2. \A i \in Vm : i \in meddled => i \in meddled'
    BY <1>1, IdAssumption DEF AttApart, LiveDisk
  <2> QED BY <1>1, <2>1, <2>2, VmKept DEF AttApart
<1>4. FitInv'
  BY <1>1 DEF AttApart, FitInv, VmFits
<1>5. PhaseInv'
  BY <1>1, AttMoves DEF AttApart, PhaseInv, Res, AttStep
<1> QED BY <1>1, <1>2, <1>3, <1>4, <1>5, AttStepAtt DEF AttApart

-----------------------------------------------------------------------------
(* The cloud, the operators and the engine. *)

\* A step at which the program does nothing.
LEMMA WorldKept ==
    ASSUME StateInv, KeepInv, PhaseInv, TiedInv, DiskInv, VmInv, FitInv, AttInv,
           UNCHANGED <<engine, pc, cur>>, Mild, Ungrown, TiedInv', Outlived,
           meddled \subseteq meddled', LiveVm' \subseteq LiveVm,
           \A i \in LiveVm : i \in LiveVm' \/ i \in meddled',
           ~touched' => /\ ~touched /\ Slack /\ Firm
                        /\ pc.vm = "done" /\ VmFits(saved.vm) => VmFits(saved.vm)'
    PROVE  PhaseInv' /\ DiskInv' /\ VmInv' /\ FitInv' /\ AttInv'
<1>1. UNCHANGED <<want, gen, retire, saved, outgoing, destroying, pc, cur>>
  BY DEF engine
<1>2. PhaseInv'
  BY <1>1 DEF PhaseInv
<1>3. DiskInv'
  <2>1. saved.disk \in LiveDisk => saved.disk \in LiveDisk' \cup meddled'
    BY DEF Outlived, KeepInv, LiveDisk
  <2>2. Remembers
    BY DEF Remembers
  <2>3. GenerationInv' /\ LeftInv'
    BY <1>1, <2>1, <2>2, LeftKept DEF DiskInv
  <2>4. DiskHold'
    BY <1>1, HoldKept DEF DiskInv, DiskSide
  <2> QED BY <2>3, <2>4 DEF DiskInv
<1>4. VmInv'
  <2>1. \A i \in Vm : i \in LiveVm \/ i \in meddled => i \in LiveVm' \/ i \in meddled'
    OBVIOUS
  <2> QED BY <1>1, <2>1, VmKept
<1>5. FitInv'
  BY <1>1 DEF FitInv
<1>6. AttInv'
  <2>1. pc.att = "done" => saved.vm # None
    BY DEF PhaseInv, VmInv
  <2> QED BY <1>1, <2>1, AttKept DEF AttSide
<1> QED BY <1>2, <1>3, <1>4, <1>5, <1>6

\* The inductive invariant: none of its parts holds without the others.
DoneInv == PhaseInv /\ TiedInv /\ DiskInv /\ VmInv /\ FitInv /\ AttInv

LEMMA TaskDone ==
    ASSUME StateInv, KeepInv, DoneInv, TaskEnds
    PROVE  DoneInv'
<1>1. TypeOK /\ vm \in [Vm -> Machine] /\ disk \in [Disk -> Volume]
  BY DEF StateInv, TypeOK
<1>2. UNCHANGED <<engine, pc, cur, history>>
  BY DEF TaskEnds, VmTaskEnds, DiskTaskEnds
<1>3. ASSUME NEW i \in Vm, VmTaskEnds(i)
      PROVE  DoneInv'
  <2>1. /\ UNCHANGED disk /\ vm' = [vm EXCEPT ![i].status = VmTask[vm[i].status]]
        /\ vm[i].status \in {"Pending", "Starting", "Stopping"}
    BY <1>3 DEF VmTaskEnds, VmBusy, VmTask, SetVm
  <2>2. \A j \in Vm : j # i => vm'[j] = vm[j]
    BY <1>1, <2>1
  <2>3. vm'[i] = [vm[i] EXCEPT !.status = VmTask[vm[i].status]] /\ vm[i] \in Machine
    BY <1>1, <2>1
  <2>4. Live(vm'[i]) /\ Live(vm[i])
    BY <2>1, <2>3 DEF VmTask, Live, Machine
  <2>5. LiveVm' = LiveVm
    BY <2>2, <2>4 DEF LiveVm
  <2>6. pc.vm = "done" /\ VmFits(saved.vm) => VmFits(saved.vm)'
    <3> SUFFICES ASSUME pc.vm = "done", VmFits(saved.vm) PROVE VmFits(saved.vm)'
      OBVIOUS
    <3>1. saved.vm \in Vm /\ saved.vm # i
      BY <1>1, <2>1 DEF DoneInv, VmInv, TypeOK, VmFits
    <3>2. vm'[saved.vm] = vm[saved.vm] /\ UNCHANGED <<saved, want>>
      BY <1>2, <2>2, <3>1 DEF engine
    <3> QED BY <3>2 DEF VmFits
  <2>7. Mild /\ Ungrown /\ Slack /\ Firm /\ TiedInv' /\ Outlived
    BY <2>1, NoDisk DEF DoneInv
  <2> QED BY <1>2, <2>5, <2>6, <2>7, WorldKept DEF DoneInv, history
<1>4. ASSUME NEW d \in Disk, DiskTaskEnds(d)
      PROVE  DoneInv'
  <2> DEFINE status == IF disk[d].status = "Attaching" THEN "In_use" ELSE "Available"
             on == IF disk[d].status = "Attaching" THEN disk[d].on ELSE None
             volume == [disk[d] EXCEPT !.status = status, !.on = on]
  <2>1. UNCHANGED vm /\ SetDisk(d, volume) /\ disk[d] \in Volume
        /\ disk[d].status \in {"Attaching", "Detaching"}
    BY <1>1, <1>4 DEF DiskTaskEnds, SetDisk, DiskBusy
  <2>2. /\ status \in {"In_use", "Available"} /\ on \in {None, disk[d].on}
        /\ status = "In_use" => on = disk[d].on
        /\ status = "Available" => on = None
    OBVIOUS
  <2>3. disk[d].on # None
    BY <2>1 DEF DoneInv, TiedInv, Tied
  <2> HIDE DEF status, on
  <2>4. /\ volume \in Volume /\ volume.gen = disk[d].gen /\ volume.size = disk[d].size
        /\ volume.status = status /\ volume.on = on
    BY <2>1, <2>2 DEF Volume, DiskStatus
  <2> HIDE DEF volume
  <2>5. Mild /\ Ungrown /\ TiedInv' /\ LiveDisk' = LiveDisk
    BY <2>1, <2>2, <2>3, <2>4, AttVolume DEF DoneInv, Live, Tied
  <2>6. \A e \in Disk : disk'[e] = IF e = d THEN volume ELSE disk[e]
    BY <1>1, <2>1, <2>4, SetDiskType
  <2>7. Slack /\ Firm /\ Outlived
    BY <2>1, <2>2, <2>4, <2>5, <2>6 DEF Slack, Firm, Outlived, LiveDisk
  <2>8. LiveVm' = LiveVm /\ UNCHANGED <<saved, want>>
    BY <1>2, <2>1 DEF LiveVm, engine
  <2>9. VmFits(saved.vm) => VmFits(saved.vm)'
    BY <2>1, <2>8 DEF VmFits
  <2> QED BY <1>2, <2>5, <2>7, <2>8, <2>9, WorldKept DEF DoneInv, history
<1> QED BY <1>3, <1>4 DEF TaskEnds

LEMMA ConsoleDone ==
    ASSUME StateInv, KeepInv, DoneInv, (\E i \in Vm : ConsoleVm(i)) \/ (\E d \in Disk : ConsoleDisk(d))
    PROVE  DoneInv'
<1>1. TypeOK /\ UNCHANGED <<engine, pc, cur>> /\ touched' /\ Machines
  BY ConsoleVmState, ConsoleDiskState DEF StateInv, ConsoleVm, ConsoleDisk
<1>2. LiveVm' \subseteq LiveVm
  BY <1>1 DEF Machines, LiveVm
<1>3. ASSUME Mild, Ungrown, TiedInv', Outlived, meddled \subseteq meddled',
             \A i \in LiveVm : i \in LiveVm' \/ i \in meddled'
      PROVE  DoneInv'
  BY <1>1, <1>2, <1>3, WorldKept DEF DoneInv
<1>4. ASSUME NEW i \in Vm, ConsoleVm(i)
      PROVE  DoneInv'
  <2>1. CASE Release(i) /\ meddled' = meddled \cup {i}
    <3>1. Mild /\ Ungrown /\ TiedInv' /\ Outlived
      BY <1>1, <2>1, ReleaseMild DEF DoneInv
    <3>2. \A j \in Vm : j # i => vm'[j] = vm[j]
      BY <1>1, <2>1, ReleaseType
    <3>3. \A j \in LiveVm : j \in LiveVm' \/ j \in meddled'
      BY <2>1, <3>2 DEF LiveVm
    <3> QED BY <1>3, <2>1, <3>1, <3>3
  <2>2. CASE UNCHANGED <<disk, meddled>> /\ \A j \in Vm : Live(vm[j]) => Live(vm'[j])
    <3>1. Mild /\ Ungrown /\ TiedInv' /\ Outlived
      BY <2>2, NoDisk DEF DoneInv
    <3> QED BY <1>3, <2>2, <3>1 DEF LiveVm
  <2>3. ASSUME ~(Release(i) /\ meddled' = meddled \cup {i})
        PROVE  UNCHANGED <<disk, meddled>> /\ \A j \in Vm : Live(vm[j]) => Live(vm'[j])
    <3>1. UNCHANGED <<disk, meddled>>
      BY <1>4, <2>3 DEF ConsoleVm
    <3>2. PICK machine :
             /\ vm' = [vm EXCEPT ![i] = machine]
             /\ machine.status \in {vm[i].status, "Stopping", "Starting"}
      <4>1. vm[i] \in Machine /\ vm \in [Vm -> Machine]
        BY <1>1 DEF TypeOK
      <4>2. CASE \E status \in {"Stopping", "Starting"} : SetVm(i, status)
        <5>1. PICK status \in {"Stopping", "Starting"} : SetVm(i, status)
          BY <4>2
        <5> DEFINE machine == [vm[i] EXCEPT !.status = status]
        <5>2. vm' = [vm EXCEPT ![i] = machine]
          BY <5>1 DEF SetVm
        <5>3. machine.status = status
          BY <4>1 DEF Machine
        <5> HIDE DEF machine
        <5> QED BY <5>2, <5>3
      <4>3. CASE vm' = [vm EXCEPT ![i].tuned = FALSE]
        <5> DEFINE machine == [vm[i] EXCEPT !.tuned = FALSE]
        <5>2. vm' = [vm EXCEPT ![i] = machine]
          BY <4>3
        <5>3. machine.status = vm[i].status
          BY <4>1 DEF Machine
        <5> HIDE DEF machine
        <5> QED BY <5>2, <5>3
      <4>4. CASE vm' = [vm EXCEPT ![i].protected = ~@]
        <5> DEFINE machine == [vm[i] EXCEPT !.protected = ~@]
        <5>2. vm' = [vm EXCEPT ![i] = machine]
          BY <4>4
        <5>3. machine.status = vm[i].status
          BY <4>1 DEF Machine
        <5> HIDE DEF machine
        <5> QED BY <5>2, <5>3
      <4> QED BY <1>4, <2>3, <4>2, <4>3, <4>4 DEF ConsoleVm
    <3>3. ASSUME NEW j \in Vm, Live(vm[j])
          PROVE  Live(vm'[j])
      <4>1. vm'[j] = IF j = i THEN machine ELSE vm[j]
        BY <1>1, <3>2 DEF TypeOK
      <4> QED BY <3>2, <3>3, <4>1 DEF Live
    <3> QED BY <3>1, <3>3
  <2> QED BY <2>1, <2>2, <2>3
<1>5. ASSUME NEW d \in Disk, ConsoleDisk(d)
      PROVE  DoneInv'
  <2>1. meddled \subseteq meddled' /\ UNCHANGED vm
    BY <1>5 DEF ConsoleDisk, AttachDisk, DetachDisk, SetDisk
  <2>2. Mild /\ Ungrown /\ TiedInv' /\ LiveDisk' = LiveDisk
    <3>1. CASE \E i \in Vm : Accepts(d, i) /\ AttachDisk(d, i, FALSE)
      BY <3>1, AttachVolume DEF DoneInv
    <3>2. CASE disk[d].status = "In_use" /\ DetachDisk(d)
      BY <3>2, DetachVolume DEF DoneInv
    <3>3. CASE disk[d].on # None /\ SetDisk(d, [disk[d] EXCEPT !.keep = FALSE])
      <4>1. Live(disk[d])
        BY <3>3 DEF DoneInv, TiedInv, Tied, Live
      <4> QED BY <3>3, <4>1, KeepVolume DEF DoneInv
    <3> QED BY <1>5, <3>1, <3>2, <3>3 DEF ConsoleDisk
  <2>3. Outlived /\ LiveVm' = LiveVm
    BY <2>1, <2>2 DEF Outlived, LiveDisk, LiveVm
  <2> QED BY <1>3, <2>1, <2>2, <2>3
<1> QED BY <1>4, <1>5

\* A run that begins or ends: what was done is done, or is to be compared.
LEMMA EngineKept ==
    ASSUME StateInv, DoneInv, UNCHANGED <<vm, disk, gen, saved, outgoing, meddled>>,
           \A r \in Res : /\ pc'[r] \in Rest
                          /\ pc'[r] \in {"planned", "done"} => pc[r] \in {"planned", "done"}
                          /\ pc'[r] = "done" => pc[r] = "done" /\ UNCHANGED <<want, touched>>
                          /\ pc'[r] = "gone" => pc[r] = "gone",
           ~destroying' => ~destroying,
           "disk" \in retire' => "disk" \in retire \/ (outgoing = None /\ saved.disk # None),
           ~touched' => ~touched \/ \A d \in Disk : ~DiskBusy(d)
    PROVE  TiedInv' /\ DiskInv' /\ VmInv' /\ FitInv' /\ AttInv'
<1>1. /\ LiveVm' = LiveVm /\ LiveDisk' = LiveDisk /\ \A d : Successor(d)' <=> Successor(d)
      /\ "vm" \in Res /\ "disk" \in Res /\ "att" \in Res
      /\ saved.attDisk \in Disk \cup {None}
  BY DEF LiveVm, LiveDisk, Successor, Res, StateInv, TypeOK
<1>2. TiedInv'
  BY DEF DoneInv, TiedInv
<1>3. GenerationInv' /\ LeftInv'
  BY <1>1 DEF DoneInv, DiskInv, GenerationInv, LeftInv
<1>4. DiskHold'
  <2>1. pc'.disk \in Rest /\ pc'.disk \notin DiskStep
    BY <1>1 DEF Rest, DiskStep
  <2>2. pc'.disk = "done" => pc.disk = "done" /\ UNCHANGED want
    BY <1>1
  <2>3. /\ pc'.disk \in {"planned", "done"} => pc.disk \in {"planned", "done"}
        /\ pc'.disk = "gone" => pc.disk = "gone"
    BY <1>1
  <2> QED BY <1>1, <2>1, <2>2, <2>3 DEF DoneInv, DiskInv, DiskHold, DiskStep
<1>5. VmInv'
  <2>1. pc'.vm \notin VmDelete /\ pc'.vm \notin {"observe", "run"}
    BY <1>1, KnownSteps DEF Rest
  <2>2. "dAbsent" \in VmDelete
    BY DEF VmDelete
  <2>3. /\ pc'.vm \in {"planned", "done"} => pc.vm \in {"planned", "done"}
        /\ pc'.vm = "gone" => pc.vm = "gone"
    BY <1>1
  <2> QED BY <1>1, <2>1, <2>2, <2>3 DEF DoneInv, VmInv
<1>6. FitInv'
  <2>1. pc'.vm = "done" => pc.vm = "done" /\ UNCHANGED <<want, touched>>
    BY <1>1
  <2> QED BY <2>1 DEF DoneInv, FitInv, VmFits
<1>7. AttInv'
  <2>1. /\ pc'.att \in {"planned", "done"} => pc.att \in {"planned", "done"}
        /\ pc'.att = "done" => pc.att = "done" /\ UNCHANGED touched
    BY <1>1
  <2>2. ASSUME Attached(saved.attDisk, saved.attVm), \A d \in Disk : ~DiskBusy(d)
        PROVE  disk[saved.attDisk].status = "In_use"
    <3>1. saved.attDisk \in Disk /\ disk[saved.attDisk].on # None
      BY <1>1, <2>2 DEF DoneInv, AttInv, Attached
    <3> QED BY <2>2, <3>1 DEF DoneInv, TiedInv, Tied, DiskBusy
  <2>3. /\ Attached(saved.attDisk, saved.attVm)' <=> Attached(saved.attDisk, saved.attVm)
        /\ Attached(saved.disk, saved.vm)' <=> Attached(saved.disk, saved.vm)
        /\ Moved' <=> Moved
    BY DEF Attached, Moved
  <2> QED BY <2>1, <2>2, <2>3 DEF DoneInv, AttInv
<1> QED BY <1>2, <1>3, <1>4, <1>5, <1>6, <1>7 DEF DiskInv

LEMMA EngineDone ==
    ASSUME StateInv, DoneInv,
           Rerun \/ (\E changes \in Edits : Edit(changes)) \/ Destroy \/ ProcessDies
    PROVE  DoneInv'
<1>1. /\ pc \in [Res -> Step] /\ "vm" \in Res /\ "disk" \in Res /\ "att" \in Res
      /\ {"idle", "planned", "failed"} \subseteq Rest
      /\ Rest \cap AttStep = {} /\ "dDelete" \notin Rest /\ "dAbsent" \notin Rest
      /\ UNCHANGED <<vm, disk, gen, saved, meddled>>
  BY EngineState DEF StateInv, TypeOK, Res, Rest, AttStep
<1>2. CASE Rerun
  <2>1. /\ UNCHANGED <<want, retire, outgoing, destroying>>
        /\ \A r \in Res : pc[r] \in Rest
        /\ \A r \in Res : pc'[r] \in {pc[r], "idle", "planned"} /\ pc'[r] \in Rest
        /\ \A r \in Res : pc'[r] = "planned" => pc[r] \in {"planned", "done"}
        /\ ~destroying => \A r \in Res : pc'[r] # "done"
        /\ destroying => \A r \in Res : pc'[r] \in {pc[r], "idle"}
        /\ ~touched' => ~touched \/ \A d \in Disk : ~DiskBusy(d)
    BY <1>1, <1>2 DEF Rerun, Plan, AtRest, engine
  <2>2. destroying => \A r \in Res : pc[r] # "done"
    BY DEF DoneInv, PhaseInv, Res, VmDelete
  <2>3. TiedInv' /\ DiskInv' /\ VmInv' /\ FitInv' /\ AttInv'
    BY <1>1, <2>1, <2>2, EngineKept
  <2>4. PhaseInv'
    <3>1. CASE destroying
      BY <1>1, <2>1, <3>1 DEF DoneInv, PhaseInv
    <3>2. CASE ~destroying
      BY <1>1, <2>1, <3>2 DEF DoneInv, PhaseInv
    <3> QED BY <3>1, <3>2
  <2> QED BY <2>3, <2>4 DEF DoneInv
<1>3. ASSUME NEW changes \in Edits, Edit(changes)
      PROVE  DoneInv'
  <2>1. /\ UNCHANGED <<outgoing, destroying>> /\ ~destroying
        /\ saved.disk # None /\ outgoing = None
        /\ \A r \in Res : pc[r] \in Rest
        /\ \A r \in Res : pc'[r] \in {pc[r], "idle", "planned"} /\ pc'[r] \in Rest
        /\ \A r \in Res : pc'[r] = "planned" => pc[r] \in {"planned", "done"}
        /\ \A r \in Res : pc'[r] # "done"
        /\ ~touched' => ~touched \/ \A d \in Disk : ~DiskBusy(d)
    BY <1>1, <1>3 DEF Edit, Plan, AtRest
  <2>2. TiedInv' /\ DiskInv' /\ VmInv' /\ FitInv' /\ AttInv'
    BY <1>1, <2>1, EngineKept
  <2>3. PhaseInv'
    BY <1>1, <2>1 DEF DoneInv, PhaseInv
  <2> QED BY <2>2, <2>3 DEF DoneInv
<1>4. CASE Destroy
  <2>1. /\ UNCHANGED <<want, retire, outgoing, touched>> /\ destroying' /\ saved.disk # None
        /\ \A r \in Res : pc'[r] = "idle"
    BY <1>4 DEF Destroy, history
  <2>2. TiedInv' /\ DiskInv' /\ VmInv' /\ FitInv' /\ AttInv'
    BY <1>1, <2>1, EngineKept
  <2>3. PhaseInv'
    BY <1>1, <2>1 DEF PhaseInv
  <2> QED BY <2>2, <2>3 DEF DoneInv
<1>5. CASE ProcessDies
  <2>1. /\ UNCHANGED <<want, retire, outgoing, destroying, touched>>
        /\ \A r \in Res : pc'[r] = IF pc[r] \in Rest THEN pc[r] ELSE "failed"
    BY <1>5 DEF ProcessDies, engine, history
  <2>2. TiedInv' /\ DiskInv' /\ VmInv' /\ FitInv' /\ AttInv'
    BY <1>1, <2>1, EngineKept
  <2>3. PhaseInv'
    <3>1. "done" \in Rest
      BY DEF Rest
    <3> QED BY <1>1, <2>1, <3>1 DEF DoneInv, PhaseInv
  <2> QED BY <2>2, <2>3 DEF DoneInv
<1> QED BY <1>2, <1>3, <1>4, <1>5

-----------------------------------------------------------------------------
(* Every step of them. *)

LEMMA VmStepDone ==
    ASSUME StateInv, KeepInv, OneMachine, PurchaseInv, OneMachine', DoneInv,
           Looking \/ Working \/ Deleting \/ RunInstances
    PROVE  DoneInv'
<1>1. TiedInv' /\ DiskInv' /\ AttInv'
  BY VmStepOthers DEF DoneInv, DiskInv
<1>2. PhaseInv'
  BY VmStepPhase DEF DoneInv
<1>3. VmInv' /\ FitInv'
  BY LookingVm, WorkingVm, BuyingVm DEF DoneInv
<1> QED BY <1>1, <1>2, <1>3 DEF DoneInv

LEMMA DoneStep ==
    ASSUME StateInv, KeepInv, OneMachine, PurchaseInv, OneMachine', DoneInv, [Next]_vars
    PROVE  DoneInv'
<1>1. CASE Next
  <2>1. CASE ReconcileDisk
    BY <2>1, DiskStepDone DEF DoneInv
  <2>2. CASE ReconcileAtt
    BY <2>2, AttStepDone DEF DoneInv
  <2> QED BY <1>1, <2>1, <2>2, NextCases, VmStepDone, TaskDone, ConsoleDone, EngineDone
<1>2. CASE UNCHANGED vars
  <2>1. UNCHANGED <<vm, disk, want, gen, retire, saved, outgoing, destroying, pc, cur, touched,
                    meddled>>
    BY <1>2 DEF vars, cloud, engine, history
  <2>2. LiveVm' = LiveVm /\ LiveDisk' = LiveDisk /\ \A d : Successor(d)' <=> Successor(d)
    BY <2>1 DEF LiveVm, LiveDisk, Successor
  <2>3. PhaseInv' /\ TiedInv' /\ VmInv' /\ FitInv'
    BY <2>1, <2>2 DEF DoneInv, PhaseInv, TiedInv, VmInv, FitInv, VmFits
  <2>4. DiskInv'
    BY <2>1, <2>2 DEF DoneInv, DiskInv, GenerationInv, LeftInv, DiskHold
  <2>5. AttInv'
    BY <2>1 DEF DoneInv, AttInv, Attached, Moved
  <2> QED BY <2>3, <2>4, <2>5 DEF DoneInv
<1> QED BY <1>1, <1>2

LEMMA DoneInit == Init => DoneInv
<1> SUFFICES ASSUME Init PROVE DoneInv
  OBVIOUS
<1>1. /\ pc.vm = "idle" /\ pc.disk = "idle" /\ pc.att = "idle" /\ \A r \in Res : pc[r] = "idle"
      /\ saved.vm = None /\ saved.disk = None /\ saved.attDisk = None /\ outgoing = None
      /\ ~destroying /\ retire = {}
      /\ \A d \in Disk : disk[d].status = "unborn" /\ disk[d].on = None
  BY DEF Init, Res
<1>2. LiveVm = {} /\ LiveDisk = {}
  BY DEF Init, LiveVm, LiveDisk, Live
<1>3. PhaseInv /\ FitInv
  BY <1>1 DEF PhaseInv, FitInv, AttStep
<1>4. VmInv
  BY <1>1, <1>2 DEF VmInv, VmDelete
<1>5. TiedInv
  BY <1>1 DEF TiedInv, Tied
<1>6. DiskInv
  BY <1>1, <1>2 DEF DiskInv, GenerationInv, LeftInv, DiskHold
<1>7. AttInv
  BY <1>1 DEF AttInv
<1> QED BY <1>3, <1>4, <1>5, <1>6, <1>7 DEF DoneInv

LEMMA DoneMeansSuccess ==
    ASSUME StateInv, DoneInv
    PROVE  SuccessMeansDone
<1>1. DeployedMeansUsable
  <2> SUFFICES ASSUME Swept, ~touched
               PROVE  /\ VmFits(saved.vm)
                      /\ disk[saved.disk].size = want.size
                      /\ disk[saved.disk].status = "In_use" /\ disk[saved.disk].on = saved.vm
    BY DEF DeployedMeansUsable
  <2>1. pc.vm = "done" /\ pc.disk = "done" /\ pc.att = "done"
    BY DEF Swept, AllDone, Res
  <2>2. ~destroying
    BY <2>1 DEF DoneInv, PhaseInv, VmDelete
  <2>3. VmFits(saved.vm)
    BY <2>1 DEF DoneInv, FitInv
  <2>4. saved.disk # None /\ disk[saved.disk].size = want.size
    BY <2>1, <2>2 DEF DoneInv, DiskInv, DiskHold
  <2>5. ~Moved /\ Attached(saved.disk, saved.vm)
    BY <2>1 DEF DoneInv, AttInv
  <2>6. disk[saved.disk].status = "In_use" /\ disk[saved.disk].on = saved.vm
    BY <2>1, <2>4, <2>5 DEF DoneInv, AttInv, Moved, Attached
  <2> QED BY <2>3, <2>4, <2>6
<1>2. DestroyLeavesNothing
  <2> SUFFICES ASSUME pc.vm = "gone", pc.disk = "gone"
               PROVE  /\ LiveVm = {} \/ saved.vm \in meddled
                      /\ \A d \in LiveDisk : Successor(d)
    BY DEF DestroyLeavesNothing
  <2>1. destroying /\ outgoing = None /\ saved.disk # None /\ saved.vm # None
    BY DEF DoneInv, PhaseInv, Res, StateInv, HoldInv
  <2>2. LiveVm = {} \/ saved.vm \in meddled
    BY <2>1 DEF DoneInv, VmInv
  <2>3. ASSUME NEW d \in LiveDisk
        PROVE  Successor(d)
    <3>1. saved.disk \notin LiveDisk
      BY DEF DoneInv, DiskInv, DiskHold
    <3>2. d # None
      BY IdAssumption DEF LiveDisk
    <3> QED BY <2>1, <3>1, <3>2 DEF DoneInv, DiskInv, LeftInv
  <2> QED BY <2>2, <2>3
<1> QED BY <1>1, <1>2 DEF SuccessMeansDone

\* However the three handlers interleave, die and start over, what a
\* deployment reports is so until somebody touches it, and what a destroy
\* leaves is only the successor of what an operator made disappear: the
\* handlers report nothing they have not seen, a disk is deleted only when it
\* was replaced or the stack ends, and each generation of it was bought once.
THEOREM SuccessIsReal == Spec => []SuccessMeansDone
<1>1. Init => OneMachine /\ PurchaseInv /\ KeepInv
  BY DEF Init, OneMachine, PurchaseInv, LiveVm, Live, Res, KeepInv, Loose
<1>2. (OneMachine /\ PurchaseInv /\ KeepInv) /\ StateInv /\ [Next]_vars
        => (OneMachine /\ PurchaseInv /\ KeepInv)'
  BY PurchaseStep, KeepStep
<1>3. DoneInv /\ (OneMachine /\ PurchaseInv /\ KeepInv) /\ (OneMachine /\ PurchaseInv /\ KeepInv)'
        /\ StateInv /\ [Next]_vars => DoneInv'
  BY DoneStep
<1>4. StateInv /\ DoneInv => SuccessMeansDone
  BY DoneMeansSuccess
<1> QED BY <1>1, <1>2, <1>3, <1>4, StateAlways, DoneInit, PTL DEF Spec

=============================================================================
