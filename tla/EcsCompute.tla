----------------------------- MODULE EcsCompute -----------------------------
(***************************************************************************)
(* Alibaba.ECS.Instance, Disk and DiskAttachment of one stack (src/src/ecs *)
(* instance.ts, disk.ts, disk-attachment.ts): three handlers that run in   *)
(* fibers of their own and meet in the cloud.  A resize powers the machine *)
(* off and on, which makes the cloud refuse to grow the disk attached to   *)
(* it; a replacement of the machine deletes it, with whatever is attached  *)
(* and not marked to be kept.                                              *)
(*                                                                         *)
(* Abstractions.  A wait is the single observation that ends it (see       *)
(* ObserveLoop).  Bandwidth, description, release time and tags of the     *)
(* machine are one flag; name, description and tags of a disk are left     *)
(* out.  Type and groups change by reconcile only, so what the handler saw *)
(* of them is what is there.  The inventory is never stale and a request   *)
(* never lands late: RdsInstance is about those.                           *)
(* The cloud follows src/src/protocol/ecs-resources.ts, with tasks that    *)
(* take time; a token forgets a purchase that was released.                *)
(***************************************************************************)
EXTENDS Naturals

CONSTANTS
    Vm, Disk,       \* physical identities
    None,           \* undefined
    Group,          \* security groups
    groupsOf,       \* the groups that go with an instance type
    Edits,          \* the changes one deployment can make together
    MaxUpsets       \* bound on crashes, lost answers, edits, console changes

Type == {1, 2}
Image == {1, 2}
Change == {"resize", "image", "grow", "zone"}

\* Identities of machines begin with i-, those of disks with d-.
ASSUME IdAssumption == Vm \cap Disk = {} /\ None \notin Vm \cup Disk
ASSUME GroupAssumption ==
    groupsOf \in [Type -> SUBSET Group] /\ \A t \in Type : groupsOf[t] # {}
ASSUME EditsAssumption == Edits \in SUBSET SUBSET Change
ASSUME BoundAssumption == MaxUpsets \in Nat

VARIABLES
    vm, disk,       \* the cloud
    want,           \* the desired type, image and size
    gen,            \* instanceId of the engine: the generation of each
    retire,         \* of the two, those whose generation is to be replaced
    saved,          \* output of the three resources
    outgoing,       \* a replaced disk that is to be deleted last
    destroying,     \* the stack is being destroyed
    pc,             \* the step of every handler
    cur,            \* the identities the handlers hold
    touched,        \* history: console changes since this deployment began
    meddled,        \* history: machines an operator released, disks whose
                    \* attachment one changed
    upsets          \* disturbances so far

cloud == <<vm, disk>>
engine == <<want, gen, retire, saved, outgoing, destroying>>
history == <<touched, meddled>>
vars == <<cloud, engine, pc, cur, history, upsets>>

Res == {"vm", "disk", "att"}
Generation == 0..(MaxUpsets + 1)

VmStatus == {"unborn", "Pending", "Starting", "Running", "Stopping", "Stopped", "gone"}
DiskStatus == {"unborn", "Available", "Attaching", "In_use", "Detaching", "gone"}

\* "keep" is deleteWithInstance = false.
Machine == [status : VmStatus, gen : Generation, type : Type, image : Image,
            groups : SUBSET Group, tuned : BOOLEAN, protected : BOOLEAN]
Volume == [status : DiskStatus, gen : Generation, size : Type,
           on : Vm \cup {None}, keep : BOOLEAN]

Live(thing) == thing.status \notin {"unborn", "gone"}
LiveVm == { i \in Vm : Live(vm[i]) }
LiveDisk == { d \in Disk : Live(disk[d]) }

Rest == {"idle", "planned", "failed", "done", "gone"}
VmStep == {"observe", "run", "created", "start", "running", "stop", "stopped",
           "spec", "restart", "resized", "groups", "tune", "final",
           "dRead", "dSettle", "dStop", "dStopped", "dDelete", "dAbsent"}
DiskStep == {"observe", "create", "created", "resize", "final",
             "dRead", "dDelete", "dAbsent"}
AttStep == {"previous", "detached", "look", "attach", "keep", "attached", "dDetach", "dDetached"}
Step == Rest \cup VmStep \cup DiskStep \cup AttStep

Init ==
    /\ vm = [i \in Vm |-> [status |-> "unborn", gen |-> 0, type |-> 1, image |-> 1,
                           groups |-> {}, tuned |-> FALSE, protected |-> FALSE]]
    /\ disk = [d \in Disk |-> [status |-> "unborn", gen |-> 0, size |-> 1,
                               on |-> None, keep |-> TRUE]]
    /\ want = [type |-> 1, image |-> 1, size |-> 1]
    /\ gen = [vm |-> 0, disk |-> 0]
    /\ retire = {}
    /\ saved = [vm |-> None, disk |-> None, attDisk |-> None, attVm |-> None]
    /\ outgoing = None
    /\ destroying = FALSE
    /\ pc = [r \in Res |-> "idle"]
    /\ cur = [vm |-> None, disk |-> None]
    /\ touched = FALSE
    /\ meddled = {}
    /\ upsets = 0

Upset == upsets < MaxUpsets /\ upsets' = upsets + 1
Calm == UNCHANGED upsets

-----------------------------------------------------------------------------
(* The cloud (external). *)

SetVm(i, status) == vm' = [vm EXCEPT ![i].status = status] /\ UNCHANGED disk

SetDisk(d, volume) == disk' = [disk EXCEPT ![d] = volume] /\ UNCHANGED vm

FreshVm == CHOOSE i \in Vm : vm[i].status = "unborn"
FreshDisk == CHOOSE d \in Disk : disk[d].status = "unborn"

\* RunInstances is idempotent by token, here the generation.
Run(i) ==
    LET bought == { j \in LiveVm : vm[j].gen = gen.vm } IN
    IF bought # {}
    THEN i \in bought /\ UNCHANGED cloud
    ELSE /\ \E j \in Vm : vm[j].status = "unborn"
         /\ i = FreshVm /\ UNCHANGED disk
         /\ vm' = [vm EXCEPT ![i] =
              [status |-> "Pending", gen |-> gen.vm, type |-> want.type,
               image |-> want.image, groups |-> groupsOf[want.type], tuned |-> TRUE,
               protected |-> FALSE]]

CreateDisk(d) ==
    LET bought == { e \in LiveDisk : disk[e].gen = gen.disk } IN
    IF bought # {}
    THEN d \in bought /\ UNCHANGED cloud
    ELSE /\ \E e \in Disk : disk[e].status = "unborn"
         /\ d = FreshDisk
         /\ SetDisk(d, [status |-> "Available", gen |-> gen.disk,
                        size |-> want.size, on |-> None, keep |-> TRUE])

\* The machine goes away: its disks are detached or deleted with it.
Release(i) ==
    /\ vm' = [vm EXCEPT ![i].status = "gone"]
    /\ disk' = [d \in Disk |->
         IF disk[d].on # i THEN disk[d]
         ELSE [disk[d] EXCEPT !.status = IF disk[d].keep THEN "Available"
                                                         ELSE "gone",
                              !.on = None]]

Accepts(d, i) == disk[d].status = "Available" /\ vm[i].status \in {"Running", "Stopped"}

AttachDisk(d, i, keep) ==
    SetDisk(d, [disk[d] EXCEPT !.status = "Attaching", !.on = i, !.keep = keep])

DetachDisk(d) == SetDisk(d, [disk[d] EXCEPT !.status = "Detaching"])

\* An attached disk grows only while its machine runs.
Growable(d) ==
    \/ disk[d].status = "Available"
    \/ disk[d].status = "In_use" /\ vm[disk[d].on].status = "Running"

VmTask == [Pending |-> "Running", Starting |-> "Running", Stopping |-> "Stopped"]
VmBusy(i) == vm[i].status \in DOMAIN VmTask
DiskBusy(d) == disk[d].status \in {"Attaching", "Detaching"}

VmTaskEnds(i) ==
    /\ VmBusy(i)
    /\ SetVm(i, VmTask[vm[i].status])
    /\ UNCHANGED <<engine, pc, cur, history, upsets>>

DiskTaskEnds(d) ==
    /\ DiskBusy(d)
    /\ disk' = [disk EXCEPT
         ![d].status = IF @ = "Attaching" THEN "In_use" ELSE "Available",
         ![d].on = IF disk[d].status = "Attaching" THEN @ ELSE None]
    /\ UNCHANGED <<vm, engine, pc, cur, history, upsets>>

\* An operator, or AutoReleaseTime, works on the machine.
ConsoleVm(i) ==
    /\ Upset
    /\ \/ /\ vm[i].status \in {"Running", "Stopped"} /\ Release(i)
          /\ meddled' = meddled \cup {i}
       \/ /\ UNCHANGED <<disk, meddled>>
          /\ \/ vm[i].status = "Running" /\ SetVm(i, "Stopping")
             \/ vm[i].status = "Stopped" /\ SetVm(i, "Starting")
             \/ Live(vm[i]) /\ vm' = [vm EXCEPT ![i].tuned = FALSE]
             \/ Live(vm[i]) /\ vm' = [vm EXCEPT ![i].protected = ~@]
    /\ touched' = TRUE
    /\ UNCHANGED <<engine, pc, cur>>

\* An operator attaches a disk as the console does by default, detaches it,
\* or has it deleted together with its machine.
ConsoleDisk(d) ==
    /\ Upset
    /\ \/ \E i \in Vm : Accepts(d, i) /\ AttachDisk(d, i, FALSE)
       \/ disk[d].status = "In_use" /\ DetachDisk(d)
       \/ disk[d].on # None /\ SetDisk(d, [disk[d] EXCEPT !.keep = FALSE])
    /\ touched' = TRUE
    /\ meddled' = meddled \cup {d}
    /\ UNCHANGED <<engine, pc, cur>>

-----------------------------------------------------------------------------
(* Steps of a handler. *)

Goto(r, step) == pc' = [pc EXCEPT ![r] = step]

\* The handler ends, and its local variables with it.
End(r, step) ==
    /\ Goto(r, step)
    /\ cur' = [cur EXCEPT ![r] = None]

Fail(r) == End(r, "failed")
Proceed(r, step) == Goto(r, step) /\ Calm /\ UNCHANGED cur

\* The answer of a call is lost: the call is repeated, or its error surfaces.
Lost(r) == Upset /\ (UNCHANGED <<pc, cur>> \/ Fail(r))

\* One request: it is granted, refused, or lost on the way there or back.
Call(r, allowed, effect, next) ==
    \/ allowed /\ effect /\ (Proceed(r, next) \/ Lost(r))
    \/ ~allowed /\ Fail(r) /\ Calm /\ UNCHANGED cloud
    \/ Lost(r) /\ UNCHANGED cloud

\* The observation that ends a wait; that it came too early for a task of the
\* cloud is a disturbance.
Wait(r, ready, busy, next) ==
    /\ \/ ready /\ Proceed(r, next)
       \/ ~ready /\ Fail(r) /\ (IF busy THEN Upset ELSE Calm)
    /\ UNCHANGED cloud

-----------------------------------------------------------------------------
(* Instance: diff and reconcile. *)

VmFits(i) ==
    /\ vm[i].status = "Running" /\ vm[i].type = want.type
    /\ vm[i].groups = groupsOf[want.type] /\ vm[i].tuned

\* Faulty: diff compares the settings of a machine, not its power state.
PlanVmBlind ==
    /\ pc.vm \in {"idle", "planned"} /\ ~destroying
    /\ IF saved.vm # None /\ ("vm" \in retire \/ saved.vm \notin LiveVm)
       THEN /\ retire' = retire \cup {"vm"}
            /\ cur' = [cur EXCEPT !.vm = saved.vm] /\ Goto("vm", "dRead")
       ELSE /\ Goto("vm", IF pc.vm = "planned" /\ vm[saved.vm].type = want.type
                          THEN "done" ELSE "observe")
            /\ UNCHANGED <<retire, cur>>
    /\ UNCHANGED <<cloud, want, gen, saved, outgoing, destroying, history, upsets>>

\* diff: an identity that changed or is missing is replaced, deleted first.
\* A resource whose last run failed is reconciled in any case.
PlanVm ==
    /\ pc.vm \in {"idle", "planned"} /\ ~destroying
    /\ IF saved.vm # None /\ ("vm" \in retire \/ saved.vm \notin LiveVm)
       THEN /\ retire' = retire \cup {"vm"}
            /\ cur' = [cur EXCEPT !.vm = saved.vm] /\ Goto("vm", "dRead")
       ELSE /\ Goto("vm", IF pc.vm = "planned" /\ VmFits(saved.vm)
                          THEN "done" ELSE "observe")
            /\ UNCHANGED <<retire, cur>>
    /\ UNCHANGED <<cloud, want, gen, saved, outgoing, destroying, history, upsets>>

\* observe: a saved identity is authoritative; without one, the name, which
\* the configuration gives: it is the same for every generation.
FoundVm == IF saved.vm # None THEN LiveVm \cap {saved.vm} ELSE LiveVm

\* checkIdentity refuses a machine of another image.
ObserveVm ==
    /\ pc.vm = "observe"
    /\ IF FoundVm = {} THEN Goto("vm", "run") /\ UNCHANGED cur
       ELSE \E i \in FoundVm :
              IF vm[i].image # want.image THEN Fail("vm")
              ELSE /\ cur' = [cur EXCEPT !.vm = i]
                   /\ Goto("vm", IF vm[i].status = "Stopped" THEN "start" ELSE "running")
    /\ UNCHANGED <<cloud, engine, history, upsets>>

\* Faulty: every request carries a token of its own.
RunInstancesAnew ==
    LET i == FreshVm IN
    /\ pc.vm = "run" /\ \E j \in Vm : vm[j].status = "unborn"
    /\ vm' = [vm EXCEPT ![i] =
         [status |-> "Pending", gen |-> gen.vm, type |-> want.type,
          image |-> want.image, groups |-> groupsOf[want.type], tuned |-> TRUE, protected |-> FALSE]]
    /\ \/ cur' = [cur EXCEPT !.vm = i] /\ Goto("vm", "created") /\ Calm
       \/ Lost("vm")
    /\ UNCHANGED <<disk, engine, history>>

\* An ambiguous failure is recovered by the same wait, for the name.
RunInstances ==
    /\ pc.vm = "run"
    /\ \/ \E i \in Vm :
            /\ Run(i)
            /\ \/ cur' = [cur EXCEPT !.vm = i] /\ Goto("vm", "created") /\ Calm
               \/ Upset /\ Goto("vm", "created") /\ UNCHANGED cur
               \/ Lost("vm")
       \/ Lost("vm") /\ UNCHANGED cloud
    /\ UNCHANGED <<engine, history>>

AwaitCreated ==
    LET read == IF cur.vm # None THEN LiveVm \cap {cur.vm} ELSE FoundVm
        good == { i \in read : vm[i].status = "Running" /\ vm[i].type = want.type
                               /\ vm[i].groups = groupsOf[want.type] } IN
    /\ pc.vm = "created"
    /\ \/ \E i \in good :
            cur' = [cur EXCEPT !.vm = i] /\ Goto("vm", "running") /\ Calm
       \/ good = {} /\ Fail("vm") /\ (IF \E i \in read : VmBusy(i) THEN Upset ELSE Calm)
    /\ UNCHANGED <<cloud, engine, history>>

Status(i) == vm[i].status

\* Faulty: a machine found powered off is left so.
StartNever ==
    /\ pc.vm = "start"
    /\ Proceed("vm", "running")
    /\ UNCHANGED <<cloud, engine, history>>

\* requestOrContinueDelete: a refusal does not count if the machine is
\* starting, or absent.
StartInstance ==
    /\ pc.vm = "start"
    /\ IF ~Live(vm[cur.vm]) \/ Status(cur.vm) \in {"Starting", "Running"}
       THEN Proceed("vm", "running") /\ UNCHANGED cloud
       ELSE Call("vm", Status(cur.vm) = "Stopped", SetVm(cur.vm, "Starting"), "running")
    /\ UNCHANGED <<engine, history>>

AwaitRunning ==
    /\ pc.vm = "running"
    /\ Wait("vm", Status(cur.vm) = "Running", VmBusy(cur.vm),
            IF vm[cur.vm].type # want.type THEN "stop" ELSE "groups")
    /\ UNCHANGED <<engine, history>>

StopInstance ==
    /\ pc.vm = "stop"
    /\ Call("vm", Status(cur.vm) = "Running", SetVm(cur.vm, "Stopping"), "stopped")
    /\ UNCHANGED <<engine, history>>

AwaitStopped ==
    /\ pc.vm = "stopped"
    /\ Wait("vm", Status(cur.vm) = "Stopped", VmBusy(cur.vm), "spec")
    /\ UNCHANGED <<engine, history>>

ModifyInstanceSpec ==
    /\ pc.vm = "spec"
    /\ Call("vm", Status(cur.vm) = "Stopped",
            vm' = [vm EXCEPT ![cur.vm].type = want.type] /\ UNCHANGED disk, "restart")
    /\ UNCHANGED <<engine, history>>

RestartInstance ==
    /\ pc.vm = "restart"
    /\ Call("vm", Status(cur.vm) = "Stopped", SetVm(cur.vm, "Starting"), "resized")
    /\ UNCHANGED <<engine, history>>

AwaitResized ==
    /\ pc.vm = "resized"
    /\ Wait("vm", Status(cur.vm) = "Running" /\ vm[cur.vm].type = want.type,
            VmBusy(cur.vm), "groups")
    /\ UNCHANGED <<engine, history>>

\* Membership of the machine in security groups: what to join, what to leave.
Joins(i) == groupsOf[want.type] \ vm[i].groups
Leaves(i) == vm[i].groups \ groupsOf[want.type]

\* Faulty: groups are left before others are joined.
LeaveThenJoin ==
    /\ pc.vm = "groups"
    /\ LET i == cur.vm IN
       IF Live(vm[i]) /\ Joins(i) \cup Leaves(i) # {}
       THEN \E g \in IF Leaves(i) # {} THEN Leaves(i) ELSE Joins(i) :
              Call("vm", TRUE,
                   vm' = [vm EXCEPT ![i].groups =
                            IF g \in @ THEN @ \ {g} ELSE @ \cup {g}] /\ UNCHANGED disk,
                   "groups")
       ELSE Proceed("vm", "tune") /\ UNCHANGED cloud
    /\ UNCHANGED <<engine, history>>

\* JoinSecurityGroup for each group that is missing, then LeaveSecurityGroup.
SyncGroups ==
    /\ pc.vm = "groups"
    /\ LET i == cur.vm IN
       IF Joins(i) \cup Leaves(i) = {}
       THEN Proceed("vm", "tune") /\ UNCHANGED cloud
       ELSE \E g \in IF Joins(i) # {} THEN Joins(i) ELSE Leaves(i) :
              Call("vm", Live(vm[i]),
                   vm' = [vm EXCEPT ![i].groups =
                            IF g \in @ THEN @ \ {g} ELSE @ \cup {g}] /\ UNCHANGED disk,
                   "groups")
    /\ UNCHANGED <<engine, history>>

\* Bandwidth, attributes, release time and tags, each skipped when equal.
TuneVm ==
    /\ pc.vm = "tune"
    /\ IF vm[cur.vm].tuned THEN Proceed("vm", "final") /\ UNCHANGED cloud
       ELSE Call("vm", Live(vm[cur.vm]),
                 vm' = [vm EXCEPT ![cur.vm].tuned = TRUE] /\ UNCHANGED disk, "final")
    /\ UNCHANGED <<engine, history>>

FinalVm ==
    LET i == cur.vm IN
    /\ pc.vm = "final"
    /\ \/ VmFits(i) /\ End("vm", "done") /\ Calm /\ saved' = [saved EXCEPT !.vm = i]
       \/ ~VmFits(i) /\ Fail("vm") /\ (IF VmBusy(i) THEN Upset ELSE Calm) /\ UNCHANGED saved
    /\ UNCHANGED <<cloud, want, gen, retire, outgoing, destroying, history>>

ReconcileVm ==
    \/ PlanVm \/ ObserveVm \/ RunInstances \/ AwaitCreated \/ StartInstance
    \/ AwaitRunning \/ StopInstance \/ AwaitStopped \/ ModifyInstanceSpec
    \/ RestartInstance \/ AwaitResized \/ SyncGroups \/ TuneVm \/ FinalVm

-----------------------------------------------------------------------------
(* Instance: delete. *)

StartDeleteVm ==
    /\ destroying /\ pc.vm = "idle" /\ pc.att = "gone"
    /\ cur' = [cur EXCEPT !.vm = saved.vm] /\ Goto("vm", "dRead")
    /\ UNCHANGED <<cloud, engine, history, upsets>>

\* Its deletion is refused while it is protected.
DeleteVmRead ==
    LET i == cur.vm IN
    /\ pc.vm = "dRead"
    /\ IF Live(vm[i]) /\ vm[i].protected THEN Fail("vm") /\ Calm
       ELSE Proceed("vm", IF Live(vm[i]) THEN "dSettle" ELSE "dAbsent")
    /\ UNCHANGED <<cloud, engine, history>>

\* WaitBeforeStop, then StopInstance unless the machine is off or absent.
DeleteVmSettle ==
    /\ pc.vm = "dSettle"
    /\ Wait("vm", ~VmBusy(cur.vm), TRUE,
            IF Status(cur.vm) = "Running" THEN "dStop"
            ELSE IF Live(vm[cur.vm]) THEN "dStopped" ELSE "dAbsent")
    /\ UNCHANGED <<engine, history>>

\* requestOrContinueDelete: a refusal does not count once the machine is
\* absent, stopping or stopped.
DeleteVmStop ==
    LET i == cur.vm
        continue == ~Live(vm[i]) \/ Status(i) \in {"Stopping", "Stopped"} IN
    /\ pc.vm = "dStop"
    /\ IF continue THEN Proceed("vm", "dStopped") /\ UNCHANGED cloud
       ELSE Call("vm", Status(i) = "Running", SetVm(i, "Stopping"), "dStopped")
    /\ UNCHANGED <<engine, history>>

DeleteVmStopped ==
    LET i == cur.vm IN
    /\ pc.vm = "dStopped"
    /\ Wait("vm", ~Live(vm[i]) \/ Status(i) = "Stopped", VmBusy(i), "dDelete")
    /\ UNCHANGED <<engine, history>>

DeleteInstance ==
    LET i == cur.vm IN
    /\ pc.vm = "dDelete"
    /\ IF ~Live(vm[i]) THEN Proceed("vm", "dAbsent") /\ UNCHANGED cloud
       ELSE Call("vm", Status(i) = "Stopped" /\ ~vm[i].protected, Release(i), "dAbsent")
    /\ UNCHANGED <<engine, history>>

\* The old generation is absent: destroyed, or to be followed by a new one.
DeleteVmAbsent ==
    /\ pc.vm = "dAbsent"
    /\ End("vm", IF destroying THEN "gone" ELSE "observe")
    /\ saved' = IF destroying THEN saved ELSE [saved EXCEPT !.vm = None]
    /\ gen' = IF destroying THEN gen ELSE [gen EXCEPT !.vm = @ + 1]
    /\ retire' = retire \ {"vm"}
    /\ UNCHANGED <<cloud, want, outgoing, destroying, history, upsets>>

DeleteVm ==
    \/ StartDeleteVm \/ DeleteVmRead \/ DeleteVmSettle \/ DeleteVmStop
    \/ DeleteVmStopped \/ DeleteInstance \/ DeleteVmAbsent

-----------------------------------------------------------------------------
(* Disk *)

\* diff: a new zone is a new disk, created first; the old one is deleted last.
PlanDisk ==
    /\ pc.disk \in {"idle", "planned"} /\ ~destroying
    /\ IF "disk" \in retire /\ saved.disk # None
       THEN /\ retire' = retire \ {"disk"}
            /\ outgoing' = saved.disk
            /\ saved' = [saved EXCEPT !.disk = None]
            /\ gen' = [gen EXCEPT !.disk = @ + 1]
            /\ Goto("disk", "observe")
       ELSE /\ Goto("disk", IF /\ pc.disk = "planned" /\ saved.disk \in LiveDisk
                               /\ disk[saved.disk].size = want.size
                            THEN "done" ELSE "observe")
            /\ UNCHANGED <<retire, outgoing, saved, gen>>
    /\ UNCHANGED <<cloud, want, destroying, cur, history, upsets>>

\* getDisk: the saved identity, or the name of this generation.
FoundDisk ==
    IF saved.disk # None THEN LiveDisk \cap {saved.disk}
    ELSE { d \in LiveDisk : disk[d].gen = gen.disk }

Sized(d) == IF disk[d].size = want.size THEN "final" ELSE "resize"

\* A disk cannot shrink.
ObserveDisk ==
    /\ pc.disk = "observe"
    /\ IF FoundDisk = {} THEN Goto("disk", "create") /\ UNCHANGED cur
       ELSE \E d \in FoundDisk :
              IF disk[d].size > want.size THEN Fail("disk")
              ELSE /\ cur' = [cur EXCEPT !.disk = d]
                   /\ Goto("disk", Sized(d))
    /\ UNCHANGED <<cloud, engine, history, upsets>>

CreateDiskCall ==
    /\ pc.disk = "create"
    /\ \/ \E d \in Disk :
            /\ CreateDisk(d)
            /\ \/ cur' = [cur EXCEPT !.disk = d] /\ Goto("disk", "created") /\ Calm
               \/ Lost("disk")
       \/ Lost("disk") /\ UNCHANGED cloud
    /\ UNCHANGED <<engine, history>>

AwaitDisk ==
    /\ pc.disk = "created"
    /\ Wait("disk", disk[cur.disk].status = "Available", DiskBusy(cur.disk), Sized(cur.disk))
    /\ UNCHANGED <<engine, history>>

Grow(d) == disk[d].size # want.size /\ Growable(d)

\* waitUntilAccepted: while the disk is attached, the state of its machine
\* denies the request, and the request is repeated as long as the wait lasts.
\* Name and tags follow.
ResizeDisk ==
    LET d == cur.disk
        denied == disk[d].size # want.size /\ ~Growable(d) /\ disk[d].on # None IN
    /\ pc.disk = "resize"
    /\ \/ /\ ~denied
          /\ Call("disk", Grow(d), SetDisk(d, [disk[d] EXCEPT !.size = want.size]), "final")
       \/ /\ denied /\ Fail("disk") /\ UNCHANGED cloud
          /\ IF VmBusy(disk[d].on) \/ DiskBusy(d) \/ pc.vm \notin Rest
             THEN Upset ELSE Calm
    /\ UNCHANGED <<engine, history>>

FinalDisk ==
    LET fits == Live(disk[cur.disk]) /\ disk[cur.disk].size = want.size IN
    /\ pc.disk = "final"
    /\ \/ fits /\ End("disk", "done") /\ saved' = [saved EXCEPT !.disk = cur.disk]
       \/ ~fits /\ Fail("disk") /\ UNCHANGED saved
    /\ UNCHANGED <<cloud, want, gen, retire, outgoing, destroying, history, upsets>>

\* The disk that was replaced goes once the attachment has moved; in a destroy
\* everything goes.
StartDeleteDisk ==
    /\ \/ destroying /\ pc.disk = "idle" /\ pc.att = "gone"
       \/ ~destroying /\ outgoing # None /\ pc.disk = "done" /\ pc.att = "done"
    /\ cur' = [cur EXCEPT !.disk = IF outgoing # None THEN outgoing ELSE saved.disk]
    /\ Goto("disk", "dDelete")
    /\ UNCHANGED <<cloud, engine, history, upsets>>

\* Faulty: a disk that may not be deleted now is left to the next run.
DeleteDiskOrSkip ==
    LET d == cur.disk IN
    /\ pc.disk = "dDelete"
    /\ IF disk[d].status # "Available" THEN Proceed("disk", "dAbsent") /\ UNCHANGED cloud
       ELSE Call("disk", TRUE, SetDisk(d, [disk[d] EXCEPT !.status = "gone"]), "dAbsent")
    /\ UNCHANGED <<engine, history>>

DeleteDisk ==
    LET d == cur.disk IN
    /\ pc.disk = "dDelete"
    /\ IF ~Live(disk[d]) THEN Proceed("disk", "dAbsent") /\ UNCHANGED cloud
       ELSE Call("disk", disk[d].status = "Available",
                 SetDisk(d, [disk[d] EXCEPT !.status = "gone"]), "dAbsent")
    /\ UNCHANGED <<engine, history>>

DeleteDiskAbsent ==
    /\ pc.disk = "dAbsent"
    /\ End("disk", IF ~destroying THEN "done"
                   ELSE IF outgoing # None THEN "idle" ELSE "gone")
    /\ outgoing' = None
    /\ UNCHANGED <<cloud, want, gen, retire, saved, destroying, history, upsets>>

ReconcileDisk ==
    \/ PlanDisk \/ ObserveDisk \/ CreateDiskCall \/ AwaitDisk \/ ResizeDisk
    \/ FinalDisk \/ StartDeleteDisk \/ DeleteDisk \/ DeleteDiskAbsent

-----------------------------------------------------------------------------
(* DiskAttachment *)

Attached(d, i) == IF d = None THEN FALSE ELSE disk[d].on = i
Moved == saved.attDisk # saved.disk \/ saved.attVm # saved.vm

\* diff: another disk or machine means detach first, unless their identities
\* were not known yet when the deployment was planned.
PlanAtt ==
    /\ pc.att \in {"idle", "planned"} /\ ~destroying
    /\ pc.vm = "done" /\ pc.disk = "done"
    /\ \/ saved.attDisk # None /\ Moved /\ Goto("att", "dDetach")
       \/ Goto("att", IF /\ pc.att = "planned" /\ ~Moved
                         /\ Attached(saved.disk, saved.vm)
                      THEN "done" ELSE "previous")
    /\ UNCHANGED <<cloud, engine, cur, history, upsets>>

\* DetachDisk of what is saved, if it is still attached there.
DetachPrevious ==
    LET d == saved.attDisk IN
    /\ pc.att = "previous"
    /\ IF d # None /\ Moved /\ Attached(d, saved.attVm)
       THEN Call("att", disk[d].status = "In_use", DetachDisk(d), "detached")
       ELSE Proceed("att", "look") /\ UNCHANGED cloud
    /\ UNCHANGED <<engine, history>>

AwaitDetached ==
    LET d == saved.attDisk IN
    /\ pc.att = "detached"
    /\ Wait("att", disk[d].status = "Available" \/ ~Live(disk[d]), DiskBusy(d), "look")
    /\ UNCHANGED <<engine, history>>

\* What the disk needs: to be attached, or to be kept when the machine goes.
LookAtDisk ==
    LET d == saved.disk IN
    /\ pc.att = "look"
    /\ IF disk[d].on \notin {None, saved.vm} THEN Fail("att") /\ Calm
       ELSE Proceed("att", IF disk[d].on = None THEN "attach"
                           ELSE IF disk[d].keep THEN "attached" ELSE "keep")
    /\ UNCHANGED <<cloud, engine, history>>

Attach ==
    LET d == saved.disk
        i == saved.vm IN
    /\ pc.att = "attach"
    /\ Call("att", Accepts(d, i), AttachDisk(d, i, TRUE), "attached")
    /\ UNCHANGED <<engine, history>>

\* ModifyDiskAttribute
KeepDisk ==
    LET d == saved.disk IN
    /\ pc.att = "keep"
    /\ Call("att", Live(disk[d]), SetDisk(d, [disk[d] EXCEPT !.keep = TRUE]), "attached")
    /\ UNCHANGED <<engine, history>>

\* Faulty: the wait is for the attachment only.
FinalAttOnAnyTerms ==
    LET d == saved.disk
        fits == disk[d].status = "In_use" /\ disk[d].on = saved.vm IN
    /\ pc.att = "attached"
    /\ \/ /\ fits /\ End("att", "done") /\ Calm
          /\ saved' = [saved EXCEPT !.attDisk = d, !.attVm = saved.vm]
          /\ meddled' = meddled \ {d}
       \/ /\ ~fits /\ Fail("att") /\ (IF DiskBusy(d) THEN Upset ELSE Calm)
          /\ UNCHANGED <<saved, meddled>>
    /\ UNCHANGED <<cloud, want, gen, retire, outgoing, destroying, touched>>

\* The wait asks for deleteWithInstance = false as well.
FinalAtt ==
    LET d == saved.disk
        fits == disk[d].status = "In_use" /\ disk[d].on = saved.vm /\ disk[d].keep IN
    /\ pc.att = "attached"
    /\ \/ /\ fits /\ End("att", "done") /\ Calm
          /\ saved' = [saved EXCEPT !.attDisk = d, !.attVm = saved.vm]
          /\ meddled' = meddled \ {d}
       \/ /\ ~fits /\ Fail("att") /\ (IF DiskBusy(d) THEN Upset ELSE Calm)
          /\ UNCHANGED <<saved, meddled>>
    /\ UNCHANGED <<cloud, want, gen, retire, outgoing, destroying, touched>>

StartDeleteAtt ==
    /\ destroying /\ pc.att = "idle"
    /\ Goto("att", "dDetach")
    /\ UNCHANGED <<cloud, engine, cur, history, upsets>>

\* What is not attached there any more needs no detaching, nor a wait.
DetachDiskCall ==
    LET d == saved.attDisk IN
    /\ pc.att = "dDetach" /\ Attached(d, saved.attVm)
    /\ Call("att", disk[d].status = "In_use", DetachDisk(d), "dDetached")
    /\ UNCHANGED <<engine, history>>

AwaitDetachedDisk ==
    LET d == saved.attDisk
        away == pc.att = "dDetach" /\ ~Attached(d, saved.attVm)
        free == pc.att = "dDetached" /\ disk[d].status \in {"Available", "gone"} IN
    /\ \/ /\ away \/ free
          /\ Proceed("att", IF destroying THEN "gone" ELSE "look")
          /\ saved' = IF destroying THEN saved
                      ELSE [saved EXCEPT !.attDisk = None, !.attVm = None]
       \/ /\ pc.att = "dDetached" /\ ~free
          /\ Fail("att") /\ (IF DiskBusy(d) THEN Upset ELSE Calm)
          /\ UNCHANGED saved
    /\ UNCHANGED <<cloud, want, gen, retire, outgoing, destroying, history>>

ReconcileAtt ==
    \/ PlanAtt \/ DetachPrevious \/ AwaitDetached \/ LookAtDisk \/ Attach
    \/ KeepDisk \/ FinalAtt \/ StartDeleteAtt \/ DetachDiskCall \/ AwaitDetachedDisk

-----------------------------------------------------------------------------
(* The engine and the process (external). *)

AtRest == \A r \in Res : pc[r] \in Rest
AllDone == \A r \in Res : pc[r] = "done"
Swept == AllDone /\ outgoing = None

\* A new run of the plan: what failed is run again, what was done is compared.
\* (diff does not look at an attachment that is still being undone.)
Plan ==
    /\ pc' = [r \in Res |-> IF pc[r] = "failed" THEN "idle"
                            ELSE IF pc[r] = "done" THEN "planned" ELSE pc[r]]
    /\ touched' = (touched /\ \E d \in Disk : DiskBusy(d))

\* In a destroy there is nothing to compare.
Rerun ==
    /\ AtRest /\ \E r \in Res : pc[r] = "failed"
    /\ IF destroying
       THEN /\ pc' = [r \in Res |-> IF pc[r] = "failed" THEN "idle" ELSE pc[r]]
            /\ UNCHANGED touched
       ELSE Plan
    /\ UNCHANGED <<cloud, engine, cur, meddled, upsets>>

\* The stack is deployed again, possibly with other settings.
Edit(changes) ==
    /\ Upset /\ AtRest /\ ~destroying
    /\ saved.vm # None /\ saved.disk # None /\ outgoing = None
    /\ want' = [type |-> IF "resize" \in changes THEN 3 - want.type ELSE want.type,
                image |-> IF "image" \in changes THEN 2 ELSE want.image,
                size |-> IF "grow" \in changes THEN 2 ELSE want.size]
    /\ retire' = retire \cup (IF "image" \in changes /\ want.image = 1 THEN {"vm"} ELSE {})
                        \cup (IF "zone" \in changes THEN {"disk"} ELSE {})
    /\ Plan
    /\ UNCHANGED <<cloud, gen, saved, outgoing, destroying, cur, meddled>>

Destroy ==
    /\ AtRest /\ ~destroying /\ saved.vm # None /\ saved.disk # None
    /\ destroying' = TRUE
    /\ pc' = [r \in Res |-> "idle"]
    /\ UNCHANGED <<cloud, want, gen, retire, saved, outgoing, cur, history, upsets>>

ProcessDies ==
    /\ Upset /\ ~AtRest
    /\ pc' = [r \in Res |-> IF pc[r] \in Rest THEN pc[r] ELSE "failed"]
    /\ cur' = [vm |-> None, disk |-> None]
    /\ UNCHANGED <<cloud, engine, history>>

-----------------------------------------------------------------------------
TaskEnds == \E i \in Vm : VmTaskEnds(i) \/ \E d \in Disk : DiskTaskEnds(d)

Disturbance ==
    \/ \E i \in Vm : ConsoleVm(i)
    \/ \E d \in Disk : ConsoleDisk(d)
    \/ \E changes \in Edits : Edit(changes)
    \/ Destroy \/ ProcessDies

Next ==
    \/ ReconcileVm \/ DeleteVm \/ ReconcileDisk \/ ReconcileAtt
    \/ Rerun \/ TaskEnds \/ Disturbance

Spec == Init /\ [][Next]_vars

\* Every handler keeps running, a failed run is repeated, tasks end.
FairSpec ==
    /\ Spec
    /\ WF_vars(ReconcileVm \/ DeleteVm) /\ WF_vars(ReconcileDisk)
    /\ WF_vars(ReconcileAtt) /\ WF_vars(Rerun)
    /\ \A i \in Vm : WF_vars(VmTaskEnds(i))
    /\ \A d \in Disk : WF_vars(DiskTaskEnds(d))

-----------------------------------------------------------------------------
TypeOK ==
    /\ vm \in [Vm -> Machine] /\ disk \in [Disk -> Volume]
    /\ want \in [type : Type, image : Image, size : Type]
    /\ gen \in [{"vm", "disk"} -> Generation]
    /\ retire \in SUBSET {"vm", "disk"}
    /\ saved \in [vm : Vm \cup {None}, disk : Disk \cup {None},
                  attDisk : Disk \cup {None}, attVm : Vm \cup {None}]
    /\ outgoing \in Disk \cup {None}
    /\ destroying \in BOOLEAN /\ touched \in BOOLEAN
    /\ pc \in [Res -> Step]
    /\ cur \in [vm : Vm \cup {None}, disk : Disk \cup {None}]
    /\ meddled \in SUBSET (Vm \cup Disk)
    /\ upsets \in 0..MaxUpsets

\* RunInstances is never paid for twice: whatever is lost or interrupted, a
\* replacement deletes the old machine "before creating the new one" and a
\* repeated purchase is the same one.
OneMachine == \A i, j \in LiveVm : i = j

\* "Security group changes join desired groups before leaving old groups": no
\* step and no interruption leaves a machine without one.
NeverWithoutGroup == \A i \in LiveVm : vm[i].groups # {}

\* A disk of the generation of one that an operator had a machine take along.
Successor(d) ==
    \E e \in Disk \cap meddled : disk[e].status = "gone" /\ disk[e].gen = disk[d].gen

\* A deployment that ends well, and that nobody interfered with, leaves the
\* machine running with the desired type and groups and the disk of the
\* desired size attached to it, however the three handlers interleaved.
DeployedMeansUsable ==
    (Swept /\ ~touched) =>
       /\ VmFits(saved.vm)
       /\ disk[saved.disk].size = want.size
       /\ disk[saved.disk].status = "In_use" /\ disk[saved.disk].on = saved.vm

\* A destroy that ended has deleted what the stack bought.  Only the successor
\* of a thing that an operator made disappear can be left behind: it was bought
\* by a run that never saved it.  The name of a machine still finds it, that of
\* a disk only until the next generation.
DestroyLeavesNothing ==
    (pc.vm = "gone" /\ pc.disk = "gone") =>
       /\ LiveVm = {} \/ saved.vm \in meddled
       /\ \A d \in LiveDisk : Successor(d)

\* The two successes together, a deployment's and a destroy's.
SuccessMeansDone == DeployedMeansUsable /\ DestroyLeavesNothing

\* Data disks outlive machines: unless an operator changed its attachment
\* after the last deployment, a disk disappears only by the deletion of the
\* disk itself, never with the machine it is attached to.
DiskOutlivesMachine ==
    [][\A d \in LiveDisk \ LiveDisk' : pc.disk = "dDelete" \/ d \in meddled]_vars

\* After the disturbances every deployment ends, wherever the previous one
\* died: between stop and start, or between detach and attach.  Two things
\* need a person: a protected machine is not deleted, nor is a replaced disk
\* that is still attached because no saved attachment knows of it (an operator
\* attached it, or a reconcile that never returned).
EventuallySettled ==
    <>[](\/ Swept
         \/ destroying /\ \A r \in Res : pc[r] = "gone"
         \/ \E i \in LiveVm : vm[i].protected
         \/ outgoing # None /\ disk[outgoing].on # None)
=============================================================================
