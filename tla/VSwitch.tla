------------------------------ MODULE VSwitch ------------------------------
(***************************************************************************)
(* The reconcile and delete handlers of Alibaba.VPC.VSwitch                *)
(* (src/src/vpc/vswitch.ts), run by concurrent fibers of one process.      *)
(*                                                                         *)
(* Alibaba refuses CreateVSwitch while another vSwitch of the same VPC is  *)
(* Pending, so the provider serialises creations with one semaphore per    *)
(* VPC, held from a second observation until the new vSwitch is ready.  A  *)
(* reconcile may fail or time out anywhere, its request may be taken with  *)
(* the answer lost, dropped, or land after it moved on, and the process    *)
(* may die with every semaphore in it.                                     *)
(*                                                                         *)
(* Abstractions.  A wait is the single observation that ends it (see       *)
(* ObserveLoop).  Attributes and tags are one flag.  What an attachment of *)
(* another service makes DeleteVSwitch answer is one of three classes.     *)
(* The cloud and the engine are external; the cloud follows the protocol   *)
(* simulator (src/src/protocol/world.ts), whose lists are never stale.     *)
(***************************************************************************)
EXTENDS Naturals

CONSTANTS
    Fiber,          \* reconciled resources, each by a fiber of its own
    Name,           \* physical vSwitch names
    Vpc,
    nameOf,         \* the name each resource asks for
    vpcOf,          \* the VPC a vSwitch of that name belongs to
    Id, NoId,       \* physical identities, and undefined
    NoFiber,        \* the buyer of a vSwitch not bought yet
    LateRequests,   \* TRUE: a request may land after its caller moved on
    DeleteAttempts, \* options.deleteDependencyWait.attempts
    MaxUpsets       \* bound on failures, lost calls and console changes

ASSUME NamesAssumption == nameOf \in [Fiber -> Name] /\ vpcOf \in [Name -> Vpc]
ASSUME NoneAssumption == NoId \notin Id /\ NoFiber \notin Fiber
ASSUME BoundsAssumption ==
    /\ LateRequests \in BOOLEAN
    /\ DeleteAttempts \in Nat \ {0} /\ MaxUpsets \in Nat

VARIABLES
    sw,         \* the cloud: what every identity stands for
    late,       \* fibers whose CreateVSwitch is still under way
    free,       \* per VPC: the permit of its create semaphore is available
    pc,         \* the step of every fiber
    cur,        \* vSwitchId in the handler
    saved,      \* output.vSwitchId kept by the engine
    left,       \* delete observations left
    destroying, \* the stack is being destroyed
    gaveUp,     \* history: some creation in this VPC was abandoned
    upsets      \* disturbances so far

vars == <<sw, late, free, pc, cur, saved, left, destroying, gaveUp, upsets>>

vpc(f) == vpcOf[nameOf[f]]

Holder == {"nobody", "straggler", "acl"}
Status == {"unborn", "Pending", "Available", "Deleting", "gone"}

\* "token" is the resource whose client token bought the vSwitch, and so
\* whose name it bears; "held" the attachment DeleteVSwitch would report: one
\* that drains by itself (an ENI, Kvstore, RDS), or one that never does (a
\* Network ACL).
Attributes == [status : Status, token : Fiber \cup {NoFiber},
               settled : BOOLEAN, held : Holder]
Blank == [status |-> "unborn", token |-> NoFiber, settled |-> TRUE,
          held |-> "nobody"]

Live(id) == sw[id].status \notin {"unborn", "gone"}
ready(id) == sw[id].status = "Available"
deleting(id) == sw[id].status = "Deleting"

Pending(v) == { id \in Id : sw[id].status = "Pending" /\ vpc(sw[id].token) = v }

\* The steps a fiber takes inside withPermits.
Critical == {"again", "create", "await"}
Step == {"idle", "observe", "lock", "configure", "final", "done", "deleteRead",
         "deleteRequest", "deleteWait", "gone"} \cup Critical

Init ==
    /\ sw = [id \in Id |-> Blank]
    /\ late = {}
    /\ free = [v \in Vpc |-> TRUE]
    /\ pc = [f \in Fiber |-> "idle"]
    /\ cur = [f \in Fiber |-> NoId]
    /\ saved = [f \in Fiber |-> NoId]
    /\ left = [f \in Fiber |-> 0]
    /\ destroying = FALSE
    /\ gaveUp = [v \in Vpc |-> FALSE]
    /\ upsets = 0

-----------------------------------------------------------------------------
(* The cloud (external). *)

\* What a client token already bought.
Bought(f) == { id \in Id : Live(id) /\ sw[id].token = f }

\* The request is idempotent by token and exclusive while one is Pending.
Accepts(f) == Bought(f) # {} \/ Pending(vpc(f)) = {}

\* Identities are handed out in order.
NextId == CHOOSE id \in Id : sw[id].status = "unborn"

Purchase(f, id) ==
    IF Bought(f) # {}
    THEN id \in Bought(f) /\ UNCHANGED sw
    ELSE /\ Pending(vpc(f)) = {}
         /\ sw[id].status = "unborn" /\ id = NextId
         /\ sw' = [sw EXCEPT ![id] =
                     [Blank EXCEPT !.status = "Pending", !.token = f]]

Upset == upsets < MaxUpsets /\ upsets' = upsets + 1
Calm == UNCHANGED upsets

\* A task of the cloud ends; services attach to a new vSwitch.
TaskEnds(id) ==
    /\ \/ /\ sw[id].status = "Pending"
          /\ \E h \in Holder :
               sw' = [sw EXCEPT ![id].status = "Available", ![id].held = h]
       \/ /\ deleting(id)
          /\ sw' = [sw EXCEPT ![id].status = "gone"]
    /\ UNCHANGED <<late, free, pc, cur, saved, left, destroying, gaveUp, upsets>>

\* A straggling attachment disappears.
Drains(id) ==
    /\ sw[id].held = "straggler" /\ destroying
    /\ sw' = [sw EXCEPT ![id].held = "nobody"]
    /\ UNCHANGED <<late, free, pc, cur, saved, left, destroying, gaveUp, upsets>>

\* An operator removes a vSwitch, edits it, or clears its Network ACL.
ConsoleChange(id) ==
    /\ Upset /\ ready(id)
    /\ \/ sw[id].held = "nobody" /\ sw' = [sw EXCEPT ![id].status = "Deleting"]
       \/ sw' = [sw EXCEPT ![id].settled = FALSE]
       \/ sw[id].held = "acl" /\ sw' = [sw EXCEPT ![id].held = "nobody"]
    /\ UNCHANGED <<late, free, pc, cur, saved, left, destroying, gaveUp>>

\* A request whose caller moved on lands, or is refused or dropped.
LateLands(f) ==
    /\ f \in late
    /\ late' = late \ {f}
    /\ UNCHANGED sw \/ \E id \in Id : Purchase(f, id)
    /\ UNCHANGED <<free, pc, cur, saved, left, destroying, gaveUp, upsets>>

-----------------------------------------------------------------------------
(* Steps of a fiber. *)

Goto(f, step) == pc' = [pc EXCEPT ![f] = step]

\* withPermits gives the permit back however its effect ends; an effect that
\* does not end in success gave its creation up.
Released(f) ==
    free' = IF pc[f] \in Critical THEN [free EXCEPT ![vpc(f)] = TRUE] ELSE free

Abandon(f) ==
    gaveUp' = IF pc[f] \in Critical THEN [gaveUp EXCEPT ![vpc(f)] = TRUE]
                                    ELSE gaveUp

\* The handler ends, and its local variables with it.
End(f, step) ==
    /\ Goto(f, step)
    /\ cur' = [cur EXCEPT ![f] = NoId]
    /\ left' = [left EXCEPT ![f] = 0]

\* It failed: the engine keeps what it had saved.
Fail(f) == End(f, "idle") /\ Released(f) /\ Abandon(f)

Stay(f) == UNCHANGED <<pc, free, cur, left, gaveUp>>

Engine == <<saved, destroying>>

Start(f) ==
    /\ pc[f] = "idle" /\ ~destroying
    /\ Goto(f, "observe")
    /\ UNCHANGED <<sw, late, free, cur, left, Engine, gaveUp, upsets>>

\* observe: the saved identity, or any vSwitch that bears the name.
Named(f) == { id \in Id : Live(id) /\ nameOf[sw[id].token] = nameOf[f] }
Found(f) == IF saved[f] # NoId /\ Live(saved[f]) THEN {saved[f]} ELSE Named(f)

Observe(f) ==
    /\ pc[f] = "observe"
    /\ \/ Found(f) = {} /\ Goto(f, "lock") /\ UNCHANGED cur
       \/ \E id \in Found(f) :
             Goto(f, "configure") /\ cur' = [cur EXCEPT ![f] = id]
    /\ UNCHANGED <<sw, late, free, left, Engine, gaveUp, upsets>>

\* Faulty: the permit is not waited for.
AcquireUnchecked(f) ==
    /\ pc[f] = "lock"
    /\ free' = [free EXCEPT ![vpc(f)] = FALSE]
    /\ Goto(f, "again")
    /\ UNCHANGED <<sw, late, cur, left, Engine, gaveUp, upsets>>

Acquire(f) ==
    /\ pc[f] = "lock" /\ free[vpc(f)]
    /\ free' = [free EXCEPT ![vpc(f)] = FALSE]
    /\ Goto(f, "again")
    /\ UNCHANGED <<sw, late, cur, left, Engine, gaveUp, upsets>>

\* Faulty: what was seen before the permit is trusted.
ObserveOnce(f) ==
    /\ pc[f] = "again" /\ Goto(f, "create")
    /\ UNCHANGED <<sw, late, free, cur, left, Engine, gaveUp, upsets>>

\* Another reconcile may have created this switch while this fiber waited.
ObserveAgain(f) ==
    /\ pc[f] = "again"
    /\ \/ Found(f) = {} /\ Goto(f, "create") /\ UNCHANGED <<cur, free>>
       \/ /\ \E id \in Found(f) : cur' = [cur EXCEPT ![f] = id]
          /\ Goto(f, "configure") /\ Released(f)
    /\ UNCHANGED <<sw, late, left, Engine, gaveUp, upsets>>

\* Faulty: a failed creation keeps the permit.
CreateLeaksPermit(f) ==
    /\ pc[f] = "create"
    /\ \/ \E id \in Id :
             /\ Purchase(f, id)
             /\ cur' = [cur EXCEPT ![f] = id]
             /\ Goto(f, "await")
             /\ Calm /\ UNCHANGED <<left, gaveUp>>
       \/ Upset /\ End(f, "idle") /\ Abandon(f) /\ UNCHANGED sw
    /\ UNCHANGED <<late, free, Engine>>

\* A refused creation (IncorrectVSwitchStatus) and a lost answer are transient.
Create(f) ==
    /\ pc[f] = "create"
    /\ \/ \E id \in Id :
             /\ Purchase(f, id)
             /\ cur' = [cur EXCEPT ![f] = id]
             /\ Goto(f, "await")
             /\ Calm /\ UNCHANGED <<late, free, left, gaveUp>>
       \/ /\ ~Accepts(f)
          /\ Calm /\ UNCHANGED <<sw, late>>
          /\ Stay(f) \/ Fail(f)
       \/ /\ Upset
          /\ UNCHANGED sw \/ \E id \in Id : Purchase(f, id)
          /\ UNCHANGED late
          /\ Stay(f) \/ Fail(f)
       \/ /\ Upset /\ LateRequests
          /\ late' = late \cup {f}
          /\ UNCHANGED sw
          /\ Fail(f)
    /\ UNCHANGED Engine

\* The lock is kept until the new vSwitch is ready, not merely accepted.  The
\* wait reads the identity of the answer, or the name when that is gone.
Await(f) ==
    LET read == IF Live(cur[f]) THEN {cur[f]} ELSE Named(f) IN
    /\ pc[f] = "await"
    /\ \/ \E id \in read :
             /\ ready(id)
             /\ cur' = [cur EXCEPT ![f] = id]
             /\ Goto(f, "configure") /\ Released(f)
             /\ Calm /\ UNCHANGED <<left, gaveUp>>
       \/ /\ \A id \in read : ~ready(id)
          /\ IF \E id \in read : ~deleting(id) THEN Upset ELSE Calm
          /\ Fail(f)
    /\ UNCHANGED <<sw, late, Engine>>

\* ModifyVSwitchAttribute and syncTags, each skipped when nothing differs.
Configure(f) ==
    /\ pc[f] = "configure"
    /\ \/ /\ Live(cur[f])
          /\ sw' = [sw EXCEPT ![cur[f]].settled = TRUE]
          /\ Goto(f, "final") /\ UNCHANGED <<free, cur, left, gaveUp>>
       \/ ~Live(cur[f]) /\ Fail(f) /\ UNCHANGED sw
    /\ UNCHANGED <<late, Engine, upsets>>

\* The last wait; its observation becomes the saved state.
Final(f) ==
    LET seen == ready(cur[f]) /\ sw[cur[f]].settled IN
    /\ pc[f] = "final"
    /\ \/ /\ seen
          /\ saved' = [saved EXCEPT ![f] = cur[f]]
          /\ End(f, "done") /\ UNCHANGED <<free, gaveUp>>
       \/ ~seen /\ Fail(f) /\ UNCHANGED saved
    /\ UNCHANGED <<sw, late, destroying, upsets>>

Reconcile(f) ==
    \/ Start(f) \/ Observe(f) \/ Acquire(f) \/ ObserveAgain(f) \/ Create(f)
    \/ Await(f) \/ Configure(f) \/ Final(f)

-----------------------------------------------------------------------------
(* delete *)

StartDelete(f) ==
    /\ destroying /\ pc[f] \in {"idle", "done"}
    /\ Goto(f, "deleteRead")
    /\ left' = [left EXCEPT ![f] = DeleteAttempts]
    /\ UNCHANGED <<sw, late, free, cur, Engine, gaveUp, upsets>>

\* A decision that leaves the deletion pending costs one observation; after
\* the last one the blocking dependency, or a timeout, is reported.
Again(f) ==
    \/ /\ left[f] > 1
       /\ left' = [left EXCEPT ![f] = @ - 1]
       /\ Goto(f, "deleteRead")
       /\ UNCHANGED <<free, cur, gaveUp>>
    \/ left[f] = 1 /\ Fail(f)

ToWait(f) == Goto(f, "deleteWait") /\ UNCHANGED <<free, cur, left, gaveUp>>

DeleteRead(f) ==
    LET id == saved[f] IN
    /\ pc[f] = "deleteRead"
    /\ \/ ~Live(id) /\ ToWait(f)                              \* Absent
       \/ deleting(id) /\ ToWait(f)                           \* Deleting
       \/ Live(id) /\ ~deleting(id) /\ ~ready(id) /\ Again(f) \* Pending
       \/ /\ ready(id)
          /\ Goto(f, "deleteRequest") /\ UNCHANGED <<free, cur, left, gaveUp>>
    /\ UNCHANGED <<sw, late, Engine, upsets>>

\* retryableDeleteDependency: a draining attachment or a transitional status
\* is waited for, any other refusal is fatal.
DeleteRequest(f) ==
    LET id == saved[f] IN
    /\ pc[f] = "deleteRequest"
    /\ \/ /\ ready(id) /\ sw[id].held = "nobody"              \* Accepted
          /\ sw' = [sw EXCEPT ![id].status = "Deleting"]
          /\ Calm /\ ToWait(f)
       \/ ~Live(id) /\ Calm /\ ToWait(f) /\ UNCHANGED sw      \* Absent
       \/ /\ deleting(id) \/ (ready(id) /\ sw[id].held = "straggler")
          /\ Calm /\ Again(f) /\ UNCHANGED sw                 \* Blocked
       \/ /\ ready(id) /\ sw[id].held = "acl"
          /\ Calm /\ Fail(f) /\ UNCHANGED sw
       \/ /\ Upset
          /\ \/ UNCHANGED sw
             \/ /\ ready(id) /\ sw[id].held = "nobody"
                /\ sw' = [sw EXCEPT ![id].status = "Deleting"]
          /\ Stay(f) \/ Again(f)
    /\ UNCHANGED <<late, Engine>>

DeleteWait(f) ==
    /\ pc[f] = "deleteWait"
    /\ \/ /\ ~Live(saved[f])
          /\ End(f, "gone") /\ UNCHANGED <<free, gaveUp>>
       \/ Live(saved[f]) /\ Fail(f)
    /\ UNCHANGED <<sw, late, Engine, upsets>>

Delete(f) == StartDelete(f) \/ DeleteRead(f) \/ DeleteRequest(f) \/ DeleteWait(f)

-----------------------------------------------------------------------------
(* The engine and the process (external). *)

\* A fiber fails on a read, or is interrupted.
Interrupt(f) ==
    /\ pc[f] \notin {"idle", "done", "gone"}
    /\ Upset
    /\ Fail(f)
    /\ UNCHANGED <<sw, late, Engine>>

\* The process dies: the next one starts with no semaphore taken.
ProcessDies ==
    /\ Upset
    /\ pc' = [f \in Fiber |-> IF pc[f] \in {"done", "gone"} THEN pc[f] ELSE "idle"]
    /\ free' = [v \in Vpc |-> TRUE]
    /\ gaveUp' = [v \in Vpc |->
                    \/ gaveUp[v]
                    \/ \E f \in Fiber : vpc(f) = v /\ pc[f] \in Critical]
    /\ cur' = [f \in Fiber |-> NoId]
    /\ left' = [f \in Fiber |-> 0]
    /\ UNCHANGED <<sw, late, Engine>>

Redeploy(f) ==
    /\ pc[f] = "done" /\ ~destroying
    /\ Upset
    /\ Goto(f, "idle")
    /\ UNCHANGED <<sw, late, free, cur, left, Engine, gaveUp>>

Destroy ==
    /\ ~destroying
    /\ \A f \in Fiber : pc[f] \in {"idle", "done"} /\ saved[f] # NoId
    /\ destroying' = TRUE
    /\ UNCHANGED <<sw, late, free, pc, cur, left, saved, gaveUp, upsets>>

-----------------------------------------------------------------------------
CloudStep ==
    \/ \E id \in Id : TaskEnds(id) \/ Drains(id)
    \/ \E f \in Fiber : LateLands(f)

Disturbance ==
    \/ \E id \in Id : ConsoleChange(id)
    \/ \E f \in Fiber : Interrupt(f) \/ Redeploy(f)
    \/ ProcessDies \/ Destroy

Next ==
    \/ \E f \in Fiber : Reconcile(f) \/ Delete(f)
    \/ CloudStep \/ Disturbance

Spec == Init /\ [][Next]_vars

\* Every fiber keeps running and is run again after a failure; tasks end,
\* stragglers drain and late requests land.
FairSpec ==
    /\ Spec
    /\ \A f \in Fiber : WF_vars(Reconcile(f)) /\ WF_vars(Delete(f)) /\ WF_vars(LateLands(f))
    /\ \A id \in Id : WF_vars(TaskEnds(id)) /\ WF_vars(Drains(id))

-----------------------------------------------------------------------------
TypeOK ==
    /\ sw \in [Id -> Attributes]
    /\ late \in SUBSET Fiber
    /\ free \in [Vpc -> BOOLEAN]
    /\ pc \in [Fiber -> Step]
    /\ cur \in [Fiber -> Id \cup {NoId}]
    /\ saved \in [Fiber -> Id \cup {NoId}]
    /\ left \in [Fiber -> 0..DeleteAttempts]
    /\ destroying \in BOOLEAN
    /\ gaveUp \in [Vpc -> BOOLEAN]
    /\ upsets \in 0..MaxUpsets

\* Two fibers never create in the same VPC at the same time, from the second
\* observation until the new vSwitch is ready.
CreatesExclude ==
    \A f, g \in Fiber :
       (f # g /\ vpc(f) = vpc(g)) => ~(pc[f] \in Critical /\ pc[g] \in Critical)

\* "The API remains exclusive while a vSwitch is Pending": as long as no
\* creation in the VPC was abandoned, no fiber ever sends a CreateVSwitch that
\* the cloud refuses because another one is still Pending.
NoRefusedCreate ==
    \A f \in Fiber :
       (pc[f] = "create" /\ ~gaveUp[vpc(f)]) => Accepts(f)

\* Reconciles that share a name end up with one vSwitch; only a request that
\* lands after its caller moved on can buy a second one.
OnePerName ==
    \A i, j \in Id :
       (i # j /\ Live(i) /\ Live(j) /\ nameOf[sw[i].token] = nameOf[sw[j].token])
          => LateRequests /\ gaveUp[vpc(sw[i].token)]

\* Once the disturbances are over, every resource of a stack that stays is
\* reconciled: a failed fiber never takes its permit with it.
Converges == <>[](destroying \/ \A f \in Fiber : pc[f] = "done")

\* A destroy completes once every attachment can drain.
Goes ==
    (destroying /\ \A id \in Id : sw[id].held # "acl")
       ~> \A f \in Fiber : pc[f] = "gone"

\* Once the disturbances are over every deployment converges and every destroy
\* completes, wherever the fiber before it stopped.
EventuallySettled == Converges /\ Goes
=============================================================================
