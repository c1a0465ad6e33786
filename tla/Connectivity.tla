---------------------------- MODULE Connectivity ----------------------------
(***************************************************************************)
(* Outbound networking of one stack (src/src/vpc/network.ts,               *)
(* nat-gateway.ts, eip.ts, eip-association.ts, snat-entry.ts): a network,  *)
(* a NAT gateway in it, an address, the association that binds the address *)
(* to the gateway, and the SNAT entry that makes the gateway use it.  Five *)
(* handlers in fibers of their own; each waits for the outputs it refers   *)
(* to, but "Alchemy may begin delete-first replacements concurrently".     *)
(*                                                                         *)
(* A gateway or an address is replaced by a new one, and goes last; what   *)
(* refers to it is deleted first, unless its diff sees nothing to replace. *)
(*                                                                         *)
(* Abstractions.  A wait is the single observation that ends it (see       *)
(* ObserveLoop).  Name, description, bandwidth and tags of a resource are  *)
(* one flag, and left out for the network.  The vSwitch is VSwitch's; here *)
(* it is the place of a gateway.  Namesakes of other owners are            *)
(* RdsInstance's and Replacement's; a token forgets what was released.     *)
(* The cloud follows src/src/protocol/vpc-connectivity.ts, with tasks that *)
(* take time.                                                              *)
(***************************************************************************)
EXTENDS Naturals

CONSTANTS
    Ngw, Eip, Snat,   \* physical identities: gateways, addresses, entries
    None,              \* undefined
    Foreign,           \* the instance of another owner
    Edits,             \* the changes one deployment can make together
    MaxUpsets          \* bound on crashes, lost answers, edits, console changes

Choice == {1, 2}
Change == {"place", "billing"}

ASSUME NoneAssumption == None \notin Ngw \cup Eip \cup Snat /\ Foreign \notin Ngw \cup {None}
ASSUME KindAssumption == Ngw \cap Eip = {} /\ Ngw \cap Snat = {} /\ Eip \cap Snat = {}
ASSUME EditsAssumption == Edits \in SUBSET SUBSET Change
ASSUME BoundAssumption == MaxUpsets \in Nat

VARIABLES
    net, nat, eip, snat,   \* the cloud
    want,           \* the desired vSwitch of the gateway, billing of the address
    gen,            \* instanceId of the engine: the generation of each resource
    retire,         \* resources to be replaced; "table" is an entry whose
                    \* table is known to have changed
    saved,          \* output of the five resources
    outgoing,       \* replaced gateway and address, to be deleted last
    destroying,     \* the stack is being destroyed
    pc,             \* the step of every handler
    cur,            \* the identities the handlers hold
    touched,        \* history: console changes since this deployment began
    released,       \* history: gateways, addresses and entries an operator deleted
    upsets          \* disturbances so far

cloud == <<net, nat, eip, snat>>
engine == <<want, gen, retire, saved, outgoing, destroying>>
history == <<touched, released>>
vars == <<cloud, engine, pc, cur, history, upsets>>

Res == {"net", "nat", "eip", "att", "snat"}
Generation == Nat

Status == {"unborn", "Pending", "Available", "Deleting", "gone"}
EipStatus == {"unborn", "Available", "Associating", "InUse", "Unassociating", "gone"}

\* A straggler is what another service left in the network; it drains.
Network == [status : Status, straggler : BOOLEAN]
Gateway == [status : Status, gen : Generation, place : Choice, tuned : BOOLEAN]
Address == [status : EipStatus, gen : Generation, billing : Choice,
            tuned : BOOLEAN, on : Ngw \cup {None, Foreign}]
Entry == [status : Status, gen : Generation, table : Ngw \cup {None},
          ip : Eip \cup {None}, tuned : BOOLEAN]

Live(thing) == thing.status \notin {"unborn", "gone"}
LiveNat == { n \in Ngw : Live(nat[n]) }
LiveEip == { e \in Eip : Live(eip[e]) }
LiveSnat == { s \in Snat : Live(snat[s]) }

Rest == {"idle", "planned", "failed", "done", "gone"}
Step == Rest \cup {"observe", "create", "created", "tune", "final",
                   "previous", "detach", "detached", "look", "attached",
                   "dRead", "dSend", "dAbsent"}

Init ==
    /\ net = [status |-> "unborn", straggler |-> FALSE]
    /\ nat = [n \in Ngw |-> [status |-> "unborn", gen |-> 0, place |-> 1, tuned |-> TRUE]]
    /\ eip = [e \in Eip |-> [status |-> "unborn", gen |-> 0, billing |-> 1,
                             tuned |-> TRUE, on |-> None]]
    /\ snat = [s \in Snat |-> [status |-> "unborn", gen |-> 0, table |-> None,
                               ip |-> None, tuned |-> TRUE]]
    /\ want = [place |-> 1, billing |-> 1]
    /\ gen = [nat |-> 0, eip |-> 0, snat |-> 0]
    /\ retire = {}
    /\ saved = [nat |-> None, eip |-> None, attEip |-> None, attNat |-> None,
                snat |-> None, table |-> None]
    /\ outgoing = [nat |-> None, eip |-> None]
    /\ destroying = FALSE
    /\ pc = [r \in Res |-> "idle"]
    /\ cur = [nat |-> None, eip |-> None, snat |-> None]
    /\ touched = FALSE
    /\ released = {}
    /\ upsets = 0

Upset == upsets < MaxUpsets /\ upsets' = upsets + 1
Calm == UNCHANGED upsets

-----------------------------------------------------------------------------
(* The cloud (external). *)

SetNet(status) == net' = [net EXCEPT !.status = status] /\ UNCHANGED <<nat, eip, snat>>
SetNat(n, thing) == nat' = [nat EXCEPT ![n] = thing] /\ UNCHANGED <<net, eip, snat>>
SetEip(e, thing) == eip' = [eip EXCEPT ![e] = thing] /\ UNCHANGED <<net, nat, snat>>
SetSnat(s, thing) == snat' = [snat EXCEPT ![s] = thing] /\ UNCHANGED <<net, nat, eip>>

\* A creation is idempotent by token, here the generation.
Fresh(bought, things, Id) ==
    LET unborn == { i \in Id : things[i].status = "unborn" } IN
    IF bought # {} THEN bought ELSE { i \in unborn : i = CHOOSE j \in unborn : TRUE }

CreateNat(n) ==
    /\ n \in Fresh({ m \in LiveNat : nat[m].gen = gen.nat }, nat, Ngw)
    /\ IF Live(nat[n]) THEN UNCHANGED cloud
       ELSE SetNat(n, [status |-> "Pending", gen |-> gen.nat,
                       place |-> want.place, tuned |-> TRUE])

AllocateEip(e) ==
    /\ e \in Fresh({ f \in LiveEip : eip[f].gen = gen.eip }, eip, Eip)
    /\ IF Live(eip[e]) THEN UNCHANGED cloud
       ELSE SetEip(e, [status |-> "Available", gen |-> gen.eip,
                       billing |-> want.billing, tuned |-> TRUE, on |-> None])

CreateSnat(s) ==
    /\ s \in Fresh({ t \in LiveSnat : snat[t].gen = gen.snat }, snat, Snat)
    /\ IF Live(snat[s]) THEN UNCHANGED cloud
       ELSE SetSnat(s, [status |-> "Pending", gen |-> gen.snat,
                        table |-> saved.nat, ip |-> saved.eip, tuned |-> TRUE])

Bound(e, n) == e # None /\ n # None /\ Live(eip[e]) /\ eip[e].on = n
UsedBy(e) == { s \in LiveSnat : snat[s].ip = e }

\* What the cloud grants.
CanBind(e, n) == eip[e].status = "Available" /\ n \in LiveNat /\ nat[n].status = "Available"
CanUnbind(e) == eip[e].status = "InUse" /\ UsedBy(e) = {}
CanUse(e, n) == Bound(e, n) /\ eip[e].status = "InUse"
CanDeleteNat(n) == /\ nat[n].status = "Available"
                   /\ \A e \in LiveEip : eip[e].on # n
                   /\ \A s \in LiveSnat : snat[s].table # n
Occupied == net.straggler \/ LiveNat # {}

NetBusy == net.status \in {"Pending", "Deleting"}
NatBusy(n) == nat[n].status \in {"Pending", "Deleting"}
EipBusy(e) == eip[e].status \in {"Associating", "Unassociating"}
SnatBusy(s) == snat[s].status \in {"Pending", "Deleting"}
Ended(status) == IF status = "Pending" THEN "Available" ELSE "gone"

TaskEnds ==
    /\ \/ NetBusy /\ SetNet(Ended(net.status))
       \/ net.straggler /\ net' = [net EXCEPT !.straggler = FALSE] /\ UNCHANGED <<nat, eip, snat>>
       \/ \E n \in Ngw : NatBusy(n) /\ SetNat(n, [nat[n] EXCEPT !.status = Ended(@)])
       \/ \E s \in Snat : SnatBusy(s) /\ SetSnat(s, [snat[s] EXCEPT !.status = Ended(@)])
       \/ \E e \in Eip :
            \/ eip[e].status = "Associating" /\ SetEip(e, [eip[e] EXCEPT !.status = "InUse"])
            \/ /\ eip[e].status = "Unassociating"
               /\ SetEip(e, [eip[e] EXCEPT !.status = "Available", !.on = None])
    /\ UNCHANGED <<engine, pc, cur, history, upsets>>

\* An operator deletes a gateway with all that uses it, deletes an entry,
\* takes the address away or gives it to someone else, releases it, or
\* changes a setting; another service leaves something in the network.
Console ==
    /\ Upset
    /\ \/ \E n \in LiveNat :
            /\ nat' = [nat EXCEPT ![n].status = "gone"]
            /\ eip' = [e \in Eip |-> IF eip[e].on # n THEN eip[e]
                        ELSE [eip[e] EXCEPT !.status = "Available", !.on = None]]
            /\ snat' = [s \in Snat |-> IF snat[s].table # n THEN snat[s]
                        ELSE [snat[s] EXCEPT !.status = "gone"]]
            /\ UNCHANGED net
       \/ \E n \in LiveNat : SetNat(n, [nat[n] EXCEPT !.tuned = FALSE])
       \/ \E s \in LiveSnat : \/ SetSnat(s, [snat[s] EXCEPT !.status = "gone"])
                              \/ SetSnat(s, [snat[s] EXCEPT !.tuned = FALSE])
       \/ \E e \in LiveEip :
            \/ /\ CanUnbind(e) /\ eip[e].on # Foreign
               /\ SetEip(e, [eip[e] EXCEPT !.status = "Unassociating"])
            \/ /\ eip[e].status = "Available"
               /\ \/ SetEip(e, [eip[e] EXCEPT !.status = "InUse", !.on = Foreign])
                  \/ SetEip(e, [eip[e] EXCEPT !.status = "gone"])
            \/ SetEip(e, [eip[e] EXCEPT !.tuned = FALSE])
       \/ Live(net) /\ net' = [net EXCEPT !.straggler = TRUE] /\ UNCHANGED <<nat, eip, snat>>
    /\ touched' = TRUE
    /\ released' = released \cup (LiveNat \ LiveNat') \cup (LiveEip \ LiveEip')
                            \cup (LiveSnat \ LiveSnat')
    /\ UNCHANGED <<engine, pc, cur>>

-----------------------------------------------------------------------------
(* Steps of a handler. *)

Goto(r, step) == pc' = [pc EXCEPT ![r] = step]

\* The handler ends, and its local variables with it.
End(r, step) ==
    /\ Goto(r, step)
    /\ cur' = [cur EXCEPT ![r] = None]

Fail(r) == End(r, "failed")
Proceed(r, step) == Goto(r, step) /\ Calm /\ UNCHANGED cur

\* The answer of a call is lost: the call is repeated, or its error surfaces.
Lost(r) == Upset /\ (UNCHANGED <<pc, cur>> \/ Fail(r))

\* One request: it is granted, refused, or lost on the way there or back.
Call(r, allowed, effect, next) ==
    \/ allowed /\ effect /\ (Proceed(r, next) \/ Lost(r))
    \/ ~allowed /\ Fail(r) /\ Calm /\ UNCHANGED cloud
    \/ Lost(r) /\ UNCHANGED cloud

\* The observation that ends a wait; that it came too early for a task of the
\* cloud is a disturbance.
Wait(r, ready, busy, next) ==
    /\ \/ ready /\ Proceed(r, next)
       \/ ~ready /\ Fail(r) /\ (IF busy THEN Upset ELSE Calm)
    /\ UNCHANGED cloud

-----------------------------------------------------------------------------
(* Network *)

\* diff compares inputs only: a network that was deployed is not looked at.
PlanNet ==
    /\ pc.net \in {"idle", "planned"} /\ ~destroying
    /\ Goto("net", IF pc.net = "planned" THEN "done" ELSE "observe")
    /\ UNCHANGED <<cloud, engine, cur, history, upsets>>

ObserveNet ==
    /\ pc.net = "observe"
    /\ Goto("net", IF Live(net) THEN "final" ELSE "create")
    /\ UNCHANGED <<cloud, engine, cur, history, upsets>>

CreateVpc ==
    /\ pc.net = "create"
    /\ Call("net", TRUE, IF Live(net) THEN UNCHANGED cloud ELSE SetNet("Pending"), "created")
    /\ UNCHANGED <<engine, history>>

AwaitNet ==
    /\ \/ pc.net = "created" /\ Wait("net", net.status = "Available", NetBusy, "final")
       \/ pc.net = "final" /\ Wait("net", net.status = "Available", NetBusy, "done")
    /\ UNCHANGED <<engine, history>>

StartDeleteNet ==
    /\ destroying /\ pc.net = "idle" /\ pc.nat = "gone"
    /\ Goto("net", "dRead")
    /\ UNCHANGED <<cloud, engine, cur, history, upsets>>

\* Faulty: a dependency that is still there is an error like any other, and
\* the network counts as deleted when the request was refused.
DeleteVpcOnce ==
    /\ pc.net = "dRead"
    /\ IF Occupied \/ net.status # "Available" THEN End("net", "gone") /\ Calm /\ UNCHANGED cloud
       ELSE Call("net", TRUE, SetNet("Deleting"), "dAbsent")
    /\ UNCHANGED <<engine, history>>

\* observeUntil: the request is repeated while it is refused for a dependency
\* or a status that may pass, and given up when the observations run out.
DeleteVpc ==
    /\ pc.net = "dRead"
    /\ IF ~Live(net) \/ net.status = "Deleting"
       THEN Proceed("net", "dAbsent") /\ UNCHANGED cloud
       ELSE IF Occupied \/ net.status = "Pending"
       THEN Wait("net", FALSE, net.straggler \/ NetBusy, "dAbsent")
       ELSE Call("net", TRUE, SetNet("Deleting"), "dAbsent")
    /\ UNCHANGED <<engine, history>>

NetAbsent ==
    /\ pc.net = "dAbsent"
    /\ Wait("net", ~Live(net), NetBusy, "gone")
    /\ UNCHANGED <<engine, history>>

NetStep ==
    \/ PlanNet \/ ObserveNet \/ CreateVpc \/ AwaitNet
    \/ StartDeleteNet \/ DeleteVpc \/ NetAbsent

-----------------------------------------------------------------------------
(* NAT gateway *)

NatFits(n) == nat[n].status = "Available" /\ nat[n].place = want.place /\ nat[n].tuned

\* diff: what was moved to another vSwitch is a new gateway, created first.
PlanNat ==
    /\ pc.nat \in {"idle", "planned"} /\ pc.net = "done"
    /\ IF "nat" \in retire
       THEN /\ retire' = retire \ {"nat"}
            /\ outgoing' = [outgoing EXCEPT !.nat = saved.nat]
            /\ saved' = [saved EXCEPT !.nat = None]
            /\ gen' = [gen EXCEPT !.nat = @ + 1]
            /\ Goto("nat", "observe")
       ELSE /\ Goto("nat", IF /\ pc.nat = "planned" /\ saved.nat \in LiveNat
                              /\ nat[saved.nat].tuned
                           THEN "done" ELSE "observe")
            /\ UNCHANGED <<retire, outgoing, saved, gen>>
    /\ UNCHANGED <<cloud, want, destroying, cur, history, upsets>>

\* get: the saved identity alone, or the name of this generation.
FoundNat == IF saved.nat # None THEN LiveNat \cap {saved.nat}
            ELSE { n \in LiveNat : nat[n].gen = gen.nat }

\* A gateway in another vSwitch is not taken.
ObserveNat ==
    /\ pc.nat = "observe"
    /\ IF FoundNat = {} THEN Goto("nat", "create") /\ UNCHANGED cur
       ELSE \E n \in FoundNat :
              IF nat[n].place # want.place THEN Fail("nat")
              ELSE cur' = [cur EXCEPT !.nat = n] /\ Goto("nat", "tune")
    /\ UNCHANGED <<cloud, engine, history, upsets>>

\* Faulty: every request carries a token of its own.
CreateNatGatewayAnew ==
    LET n == CHOOSE m \in Ngw : nat[m].status = "unborn" IN
    /\ pc.nat = "create" /\ \E m \in Ngw : nat[m].status = "unborn"
    /\ SetNat(n, [status |-> "Pending", gen |-> gen.nat, place |-> want.place, tuned |-> TRUE])
    /\ \/ cur' = [cur EXCEPT !.nat = n] /\ Goto("nat", "created") /\ Calm
       \/ Lost("nat")
    /\ UNCHANGED <<engine, history>>

CreateNatGateway ==
    /\ pc.nat = "create"
    /\ \/ \E n \in Ngw :
            /\ CreateNat(n)
            /\ \/ cur' = [cur EXCEPT !.nat = n] /\ Goto("nat", "created") /\ Calm
               \/ Lost("nat")
       \/ Lost("nat") /\ UNCHANGED cloud
    /\ UNCHANGED <<engine, history>>

AwaitNat ==
    /\ pc.nat = "created"
    /\ Wait("nat", nat[cur.nat].status = "Available", NatBusy(cur.nat), "tune")
    /\ UNCHANGED <<engine, history>>

\* ModifyNatGatewayAttribute and the tags, skipped when equal.
TuneNat ==
    LET n == cur.nat IN
    /\ pc.nat = "tune"
    /\ IF nat[n].tuned THEN Proceed("nat", "final") /\ UNCHANGED cloud
       ELSE Call("nat", Live(nat[n]), SetNat(n, [nat[n] EXCEPT !.tuned = TRUE]), "final")
    /\ UNCHANGED <<engine, history>>

FinalNat ==
    LET n == cur.nat IN
    /\ pc.nat = "final"
    /\ \/ NatFits(n) /\ End("nat", "done") /\ Calm /\ saved' = [saved EXCEPT !.nat = n]
       \/ ~NatFits(n) /\ Fail("nat") /\ (IF NatBusy(n) THEN Upset ELSE Calm) /\ UNCHANGED saved
    /\ UNCHANGED <<cloud, want, gen, retire, outgoing, destroying, history>>

AllDone == \A r \in Res : pc[r] = "done"

\* The replaced gateway goes last; in a destroy, after what refers to it.
StartDeleteNat ==
    /\ \/ destroying /\ pc.nat = "idle" /\ pc.att = "gone" /\ pc.snat = "gone"
       \/ ~destroying /\ outgoing.nat # None /\ AllDone
    /\ cur' = [cur EXCEPT !.nat = IF outgoing.nat # None THEN outgoing.nat ELSE saved.nat]
    /\ Goto("nat", "dRead")
    /\ UNCHANGED <<cloud, engine, history, upsets>>

DeleteNatGateway ==
    LET n == cur.nat IN
    /\ pc.nat = "dRead"
    /\ IF n \notin LiveNat \/ nat[n].status = "Deleting"
       THEN Proceed("nat", "dAbsent") /\ UNCHANGED cloud
       ELSE Call("nat", CanDeleteNat(n), SetNat(n, [nat[n] EXCEPT !.status = "Deleting"]),
                 "dAbsent")
    /\ UNCHANGED <<engine, history>>

NatAbsent ==
    LET absent == cur.nat \notin LiveNat IN
    /\ pc.nat = "dAbsent"
    /\ \/ /\ absent /\ Calm
          /\ End("nat", IF ~destroying THEN "done"
                        ELSE IF outgoing.nat # None THEN "idle" ELSE "gone")
          /\ outgoing' = [outgoing EXCEPT !.nat = None]
       \/ ~absent /\ Fail("nat") /\ Upset /\ UNCHANGED outgoing
    /\ UNCHANGED <<cloud, want, gen, retire, saved, destroying, history>>

NatStep ==
    \/ PlanNat \/ ObserveNat \/ CreateNatGateway \/ AwaitNat \/ TuneNat
    \/ FinalNat \/ StartDeleteNat \/ DeleteNatGateway \/ NatAbsent

-----------------------------------------------------------------------------
(* EIP *)

\* diff: another billing mode is a new address, allocated first.
PlanEip ==
    /\ pc.eip \in {"idle", "planned"} /\ ~destroying
    /\ IF "eip" \in retire
       THEN /\ retire' = retire \ {"eip"}
            /\ outgoing' = [outgoing EXCEPT !.eip = saved.eip]
            /\ saved' = [saved EXCEPT !.eip = None]
            /\ gen' = [gen EXCEPT !.eip = @ + 1]
            /\ Goto("eip", "observe")
       ELSE /\ Goto("eip", IF /\ pc.eip = "planned" /\ saved.eip \in LiveEip
                              /\ eip[saved.eip].tuned
                           THEN "done" ELSE "observe")
            /\ UNCHANGED <<retire, outgoing, saved, gen>>
    /\ UNCHANGED <<cloud, want, destroying, cur, history, upsets>>

FoundEip == IF saved.eip # None THEN LiveEip \cap {saved.eip}
            ELSE { e \in LiveEip : eip[e].gen = gen.eip }

ObserveEip ==
    /\ pc.eip = "observe"
    /\ IF FoundEip = {} THEN Goto("eip", "create") /\ UNCHANGED cur
       ELSE \E e \in FoundEip : cur' = [cur EXCEPT !.eip = e] /\ Goto("eip", "tune")
    /\ UNCHANGED <<cloud, engine, history, upsets>>

AllocateEipAddress ==
    /\ pc.eip = "create"
    /\ \/ \E e \in Eip :
            /\ AllocateEip(e)
            /\ \/ cur' = [cur EXCEPT !.eip = e] /\ Goto("eip", "created") /\ Calm
               \/ Lost("eip")
       \/ Lost("eip") /\ UNCHANGED cloud
    /\ UNCHANGED <<engine, history>>

EipReady(e) == eip[e].status \in {"Available", "InUse"}

AwaitEip ==
    /\ pc.eip = "created"
    /\ Wait("eip", EipReady(cur.eip), EipBusy(cur.eip), "tune")
    /\ UNCHANGED <<engine, history>>

TuneEip ==
    LET e == cur.eip IN
    /\ pc.eip = "tune"
    /\ IF eip[e].tuned THEN Proceed("eip", "final") /\ UNCHANGED cloud
       ELSE Call("eip", Live(eip[e]), SetEip(e, [eip[e] EXCEPT !.tuned = TRUE]), "final")
    /\ UNCHANGED <<engine, history>>

FinalEip ==
    LET e == cur.eip
        fits == EipReady(e) /\ eip[e].tuned IN
    /\ pc.eip = "final"
    /\ \/ fits /\ End("eip", "done") /\ Calm /\ saved' = [saved EXCEPT !.eip = e]
       \/ ~fits /\ Fail("eip") /\ (IF EipBusy(e) THEN Upset ELSE Calm) /\ UNCHANGED saved
    /\ UNCHANGED <<cloud, want, gen, retire, outgoing, destroying, history>>

StartDeleteEip ==
    /\ \/ destroying /\ pc.eip = "idle" /\ pc.att = "gone"
       \/ ~destroying /\ outgoing.eip # None /\ AllDone
    /\ cur' = [cur EXCEPT !.eip = IF outgoing.eip # None THEN outgoing.eip ELSE saved.eip]
    /\ Goto("eip", "dRead")
    /\ UNCHANGED <<cloud, engine, history, upsets>>

\* An address that is bound is not released.
ReleaseEipAddress ==
    LET e == cur.eip IN
    /\ pc.eip = "dRead"
    /\ IF e \notin LiveEip THEN Proceed("eip", "dAbsent") /\ UNCHANGED cloud
       ELSE Call("eip", eip[e].status = "Available",
                 SetEip(e, [eip[e] EXCEPT !.status = "gone"]), "dAbsent")
    /\ UNCHANGED <<engine, history>>

EipAbsent ==
    /\ pc.eip = "dAbsent"
    /\ End("eip", IF ~destroying THEN "done" ELSE IF outgoing.eip # None THEN "idle" ELSE "gone")
    /\ outgoing' = [outgoing EXCEPT !.eip = None]
    /\ UNCHANGED <<cloud, want, gen, retire, saved, destroying, history, upsets>>

EipStep ==
    \/ PlanEip \/ ObserveEip \/ AllocateEipAddress \/ AwaitEip \/ TuneEip
    \/ FinalEip \/ StartDeleteEip \/ ReleaseEipAddress \/ EipAbsent

-----------------------------------------------------------------------------
(* EIP association *)

\* What its output says is bound, and what the inputs ask for.
Old == [eip |-> saved.attEip, nat |-> saved.attNat]
Moved == saved.attEip # saved.eip \/ saved.attNat # saved.nat

\* diff: other targets are detached first, and at once; otherwise the handler
\* waits for the identities it refers to.
PlanAtt ==
    /\ pc.att \in {"idle", "planned"} /\ ~destroying
    /\ IF "att" \in retire THEN Goto("att", "dRead")
       ELSE /\ pc.nat = "done" /\ pc.eip = "done"
            /\ Goto("att", IF /\ pc.att = "planned" /\ ~Moved
                              /\ Bound(saved.eip, saved.nat)
                           THEN "done" ELSE "previous")
    /\ UNCHANGED <<cloud, engine, cur, history, upsets>>

\* Only targets that changed after the plan was made are detached here, and
\* what was bought anew is unbound: a precaution.  One read decides; the wait
\* for the request reads again.
ReadPrevious ==
    LET bound == Moved /\ Bound(Old.eip, Old.nat) IN
    /\ pc.att \in {"previous", "detached"}
    /\ pc.att = "detached" => ~bound
    /\ Goto("att", IF bound THEN "detach" ELSE "look")
    /\ UNCHANGED <<cloud, engine, cur, history, upsets>>

AttSaved == [saved EXCEPT !.attEip = saved.eip, !.attNat = saved.nat]

\* Faulty: an address that is bound elsewhere is bound here all the same.
TakeEipAddress ==
    LET e == saved.eip
        n == saved.nat IN
    /\ pc.att = "look"
    /\ \/ Bound(e, n) /\ End("att", "done") /\ Calm /\ UNCHANGED cloud /\ saved' = AttSaved
       \/ /\ ~Bound(e, n) /\ UNCHANGED saved
          /\ Call("att", e \in LiveEip /\ n \in LiveNat,
                  SetEip(e, [eip[e] EXCEPT !.status = "Associating", !.on = n]), "attached")
    /\ UNCHANGED <<want, gen, retire, outgoing, destroying, history>>

\* What is already bound as desired needs no wait; what is bound to another
\* instance is refused.
AssociateEipAddress ==
    LET e == saved.eip
        n == saved.nat IN
    /\ pc.att = "look"
    /\ \/ Bound(e, n) /\ End("att", "done") /\ Calm /\ UNCHANGED cloud /\ saved' = AttSaved
       \/ /\ ~Bound(e, n) /\ UNCHANGED saved
          /\ IF eip[e].on # None THEN Fail("att") /\ Calm /\ UNCHANGED cloud
             ELSE Call("att", CanBind(e, n),
                       SetEip(e, [eip[e] EXCEPT !.status = "Associating", !.on = n]),
                       "attached")
    /\ UNCHANGED <<want, gen, retire, outgoing, destroying, history>>

AwaitBound ==
    LET ready == CanUse(saved.eip, saved.nat) IN
    /\ pc.att = "attached"
    /\ \/ ready /\ End("att", "done") /\ Calm /\ saved' = AttSaved
       \/ ~ready /\ Fail("att") /\ (IF EipBusy(saved.eip) THEN Upset ELSE Calm) /\ UNCHANGED saved
    /\ UNCHANGED <<cloud, want, gen, retire, outgoing, destroying, history>>

StartDeleteAtt ==
    /\ destroying /\ pc.att = "idle" /\ pc.snat = "gone"
    /\ Goto("att", "dRead")
    /\ UNCHANGED <<cloud, engine, cur, history, upsets>>

\* Entries that are on their way out.
Going(entries) ==
    \/ pc.snat \in {"dRead", "dAbsent"}
    \/ "snat" \in retire /\ pc.snat \in {"idle", "planned"}
    \/ \E s \in entries : SnatBusy(s)

\* Faulty: an address that is bound at all is unbound.
ReadAnyBinding ==
    /\ pc.att = "dRead" /\ Old.eip \in LiveEip /\ eip[Old.eip].on # None
    /\ Goto("att", "dSend")
    /\ UNCHANGED <<cloud, engine, cur, history, upsets>>

\* One read decides that there is something to unbind.
ReadBinding ==
    /\ pc.att = "dRead" /\ Bound(Old.eip, Old.nat)
    /\ Goto("att", "dSend")
    /\ UNCHANGED <<cloud, engine, cur, history, upsets>>

\* Between the read and the last repetition of the request.
Sending == {"detach", "dSend"}

\* The request, repeated without another look.  The cloud does not mind which
\* instance it names, nor that there is nothing to undo.  A deletion repeats it
\* as long as an SNAT entry depends on the address, until the retries run out,
\* and does not mind an address that is gone.
UnassociateEipAddress ==
    LET e == Old.eip
        there == e \in LiveEip
        deleting == pc.att = "dSend"
        next == IF deleting THEN "dAbsent" ELSE "detached" IN
    /\ pc.att \in Sending
    /\ IF there /\ eip[e].status = "InUse" /\ UsedBy(e) # {}
       THEN /\ Fail("att") /\ UNCHANGED cloud
            /\ IF deleting /\ Going(UsedBy(e)) THEN Upset ELSE Calm
       ELSE IF there /\ CanUnbind(e)
       THEN Call("att", TRUE, SetEip(e, [eip[e] EXCEPT !.status = "Unassociating"]), next)
       ELSE Call("att", IF there THEN eip[e].status = "Available" ELSE deleting,
                 UNCHANGED cloud, next)
    /\ UNCHANGED <<engine, history>>

\* What is not bound there any more needs no request, nor a wait.
AttAbsent ==
    LET away == ~Bound(Old.eip, Old.nat) IN
    /\ \/ /\ pc.att \in {"dRead", "dAbsent"} /\ away
          /\ Proceed("att", IF destroying THEN "gone" ELSE "idle")
          /\ retire' = retire \ {"att"}
          /\ saved' = [saved EXCEPT !.attEip = None, !.attNat = None]
       \/ /\ pc.att \in {"detached", "dAbsent"} /\ ~away
          /\ Fail("att") /\ Upset /\ UNCHANGED <<retire, saved>>
    /\ UNCHANGED <<cloud, want, gen, outgoing, destroying, history>>

AttStep ==
    \/ PlanAtt \/ ReadPrevious \/ AssociateEipAddress \/ AwaitBound
    \/ StartDeleteAtt \/ ReadBinding \/ UnassociateEipAddress \/ AttAbsent

-----------------------------------------------------------------------------
(* SNAT entry *)

SnatFits(s) == snat[s].status = "Available" /\ snat[s].ip = saved.eip /\ snat[s].tuned

\* Faulty: an entry that differs in anything is replaced.
PlanSnatReplacing ==
    /\ pc.snat \in {"idle", "planned"} /\ ~destroying
    /\ IF "snat" \in retire \/ (saved.snat \in LiveSnat /\ ~snat[saved.snat].tuned)
       THEN cur' = [cur EXCEPT !.snat = saved.snat] /\ Goto("snat", "dRead")
       ELSE /\ pc.att = "done" /\ pc.nat = "done" /\ "table" \notin retire
            /\ Goto("snat", IF /\ pc.snat = "planned" /\ saved.snat \in LiveSnat
                               /\ SnatFits(saved.snat)
                            THEN "done" ELSE "observe")
            /\ UNCHANGED cur
    /\ UNCHANGED <<cloud, engine, history, upsets>>

\* Faulty: diff compares the inputs alone.
PlanSnatBlind ==
    /\ pc.snat \in {"idle", "planned"} /\ ~destroying
    /\ IF "snat" \in retire
       THEN cur' = [cur EXCEPT !.snat = saved.snat] /\ Goto("snat", "dRead")
       ELSE /\ pc.att = "done" /\ pc.nat = "done" /\ "table" \notin retire
            /\ Goto("snat", IF pc.snat = "planned" THEN "done" ELSE "observe")
            /\ UNCHANGED cur
    /\ UNCHANGED <<cloud, engine, history, upsets>>

\* diff: with a gateway that is being replaced the entry is deleted first, and
\* at once.  A table that is known to differ is a plain replacement; the old
\* entry went with its gateway.  An address that is being replaced is neither.
PlanSnat ==
    /\ pc.snat \in {"idle", "planned"} /\ ~destroying
    /\ IF "snat" \in retire
       THEN /\ cur' = [cur EXCEPT !.snat = saved.snat] /\ Goto("snat", "dRead")
            /\ UNCHANGED <<gen, retire, saved>>
       ELSE /\ pc.att = "done" /\ pc.nat = "done"
            /\ UNCHANGED cur
            /\ IF "table" \in retire
               THEN /\ retire' = retire \ {"table"}
                    /\ saved' = [saved EXCEPT !.snat = None, !.table = None]
                    /\ gen' = [gen EXCEPT !.snat = @ + 1]
                    /\ Goto("snat", "observe")
               ELSE /\ Goto("snat", IF /\ pc.snat = "planned" /\ saved.snat \in LiveSnat
                                       /\ SnatFits(saved.snat)
                                    THEN "done" ELSE "observe")
                    /\ UNCHANGED <<gen, retire, saved>>
    /\ UNCHANGED <<cloud, want, outgoing, destroying, history, upsets>>

\* get: the saved identity, or the vSwitch as source, in the present table.
FoundSnat == { s \in LiveSnat : /\ snat[s].table = saved.nat
                                /\ saved.snat \in {None, s} }

\* A table that changed after the plan was made needs a new plan; an entry of
\* another name already owns the source.
ObserveSnat ==
    /\ pc.snat = "observe"
    /\ IF saved.snat # None /\ saved.table # saved.nat THEN Fail("snat")
       ELSE IF FoundSnat = {} THEN Goto("snat", "create") /\ UNCHANGED cur
       ELSE \E s \in FoundSnat :
              IF saved.snat = None /\ snat[s].gen # gen.snat THEN Fail("snat")
              ELSE cur' = [cur EXCEPT !.snat = s] /\ Goto("snat", "tune")
    /\ UNCHANGED <<cloud, engine, history, upsets>>

CreateSnatEntry ==
    /\ pc.snat = "create"
    /\ \/ \E s \in Snat :
            /\ CanUse(saved.eip, saved.nat) /\ CreateSnat(s)
            /\ \/ cur' = [cur EXCEPT !.snat = s] /\ Goto("snat", "created") /\ Calm
               \/ Lost("snat")
       \/ ~CanUse(saved.eip, saved.nat) /\ Fail("snat") /\ Calm /\ UNCHANGED cloud
       \/ Lost("snat") /\ UNCHANGED cloud
    /\ UNCHANGED <<engine, history>>

AwaitSnat ==
    /\ pc.snat = "created"
    /\ Wait("snat", snat[cur.snat].status = "Available", SnatBusy(cur.snat), "tune")
    /\ UNCHANGED <<engine, history>>

ModifySnatEntry ==
    LET s == cur.snat IN
    /\ pc.snat = "tune"
    /\ IF snat[s].tuned /\ snat[s].ip = saved.eip
       THEN Proceed("snat", "final") /\ UNCHANGED cloud
       ELSE Call("snat", Live(snat[s]) /\ CanUse(saved.eip, saved.nat),
                 SetSnat(s, [snat[s] EXCEPT !.tuned = TRUE, !.ip = saved.eip]), "final")
    /\ UNCHANGED <<engine, history>>

FinalSnat ==
    LET s == cur.snat IN
    /\ pc.snat = "final"
    /\ \/ /\ SnatFits(s) /\ End("snat", "done") /\ Calm
          /\ saved' = [saved EXCEPT !.snat = s, !.table = saved.nat]
       \/ ~SnatFits(s) /\ Fail("snat") /\ (IF SnatBusy(s) THEN Upset ELSE Calm) /\ UNCHANGED saved
    /\ UNCHANGED <<cloud, want, gen, retire, outgoing, destroying, history>>

StartDeleteSnat ==
    /\ destroying /\ pc.snat = "idle"
    /\ cur' = [cur EXCEPT !.snat = saved.snat] /\ Goto("snat", "dRead")
    /\ UNCHANGED <<cloud, engine, history, upsets>>

DeleteSnatEntry ==
    LET s == cur.snat IN
    /\ pc.snat = "dRead"
    /\ IF s \notin LiveSnat \/ snat[s].status = "Deleting"
       THEN Proceed("snat", "dAbsent") /\ UNCHANGED cloud
       ELSE Call("snat", snat[s].status = "Available",
                 SetSnat(s, [snat[s] EXCEPT !.status = "Deleting"]), "dAbsent")
    /\ UNCHANGED <<engine, history>>

SnatAbsent ==
    LET absent == cur.snat \notin LiveSnat IN
    /\ pc.snat = "dAbsent"
    /\ \/ /\ absent /\ Calm
          /\ End("snat", IF destroying THEN "gone" ELSE "idle")
          /\ saved' = [saved EXCEPT !.snat = None, !.table = None]
          /\ gen' = IF destroying THEN gen ELSE [gen EXCEPT !.snat = @ + 1]
          /\ retire' = retire \ {"snat"}
       \/ ~absent /\ Fail("snat") /\ Upset /\ UNCHANGED <<saved, gen, retire>>
    /\ UNCHANGED <<cloud, want, outgoing, destroying, history>>

SnatStep ==
    \/ PlanSnat \/ ObserveSnat \/ CreateSnatEntry \/ AwaitSnat \/ ModifySnatEntry
    \/ FinalSnat \/ StartDeleteSnat \/ DeleteSnatEntry \/ SnatAbsent

-----------------------------------------------------------------------------
(* The engine and the process (external). *)

AtRest == \A r \in Res : pc[r] \in Rest
Ran == AllDone \/ \E r \in Res : pc[r] = "failed"
Swept == AllDone /\ outgoing = [nat |-> None, eip |-> None]

One(S) == IF S = {} THEN None ELSE CHOOSE i \in S : TRUE
Known(r, S) == IF saved[r] # None THEN saved[r] ELSE One(S)

\* Before a plan, `read` looks for what has no saved output.
Recovered ==
    LET n == Known("nat", FoundNat)
        e == Known("eip", FoundEip)
        s == Known("snat", { t \in LiveSnat : snat[t].gen = gen.snat })
        bound == saved.attEip = None /\ Bound(e, n) IN
    [nat |-> n, eip |-> e, snat |-> s,
     table |-> IF saved.snat # None \/ s = None THEN saved.table ELSE snat[s].table,
     attEip |-> IF bound THEN e ELSE saved.attEip,
     attNat |-> IF bound THEN n ELSE saved.attNat]

\* Faulty: the entry is not replaced with its gateway, it waits for the new one.
OutdatedButEntry(s, changes) ==
    LET n == "place" \in changes /\ s.nat # None
        e == "billing" \in changes /\ s.eip # None
        moved == s.attNat # s.nat \/ s.attEip # s.eip IN
    {r \in {"nat", "eip", "att"} :
        \/ r = "nat" /\ n
        \/ r = "eip" /\ e
        \/ r = "att" /\ s.attEip # None /\ (n \/ e \/ moved)}

\* diff of the five resources against what is known when the plan is made.
Outdated(s, changes) ==
    LET n == "place" \in changes /\ s.nat # None
        e == "billing" \in changes /\ s.eip # None
        moved == s.attNat # s.nat \/ s.attEip # s.eip IN
    {r \in {"nat", "eip", "att", "snat", "table"} :
        \/ r = "nat" /\ n
        \/ r = "eip" /\ e
        \/ r = "att" /\ s.attEip # None /\ (n \/ e \/ moved)
        \/ r = "snat" /\ s.snat # None /\ n
        \/ /\ r = "table" /\ s.snat # None /\ s.nat \notin {None, s.table}
           /\ ~n /\ "snat" \notin retire}

\* A new run of the plan: what failed is run again, what was done is compared.
Plan(changes) ==
    /\ saved' = Recovered
    /\ retire' = retire \cup Outdated(Recovered, changes)
    /\ pc' = [r \in Res |-> IF pc[r] = "failed" THEN "idle"
                            ELSE IF pc[r] = "done" THEN "planned" ELSE pc[r]]
    /\ touched' = (touched /\ (\E e \in LiveEip : EipBusy(e)))

Rerun ==
    /\ AtRest /\ \E r \in Res : pc[r] = "failed"
    /\ IF destroying
       THEN /\ pc' = [r \in Res |-> IF pc[r] = "failed" THEN "idle" ELSE pc[r]]
            /\ UNCHANGED <<saved, retire, touched>>
       ELSE Plan({})
    /\ UNCHANGED <<cloud, want, gen, outgoing, destroying, cur, released, upsets>>

\* The stack is deployed again, possibly with other settings.
Edit(changes) ==
    /\ Upset /\ AtRest /\ Ran /\ ~destroying
    /\ retire = {} /\ outgoing = [nat |-> None, eip |-> None]
    /\ want' = [place |-> IF "place" \in changes THEN 3 - want.place ELSE want.place,
                billing |-> IF "billing" \in changes THEN 3 - want.billing ELSE want.billing]
    /\ Plan(changes)
    /\ UNCHANGED <<cloud, gen, outgoing, destroying, cur, released>>

Destroy ==
    /\ AtRest /\ Ran /\ ~destroying
    /\ destroying' = TRUE
    /\ saved' = Recovered
    /\ retire' = {}
    /\ pc' = [r \in Res |-> "idle"]
    /\ UNCHANGED <<cloud, want, gen, outgoing, cur, history, upsets>>

ProcessDies ==
    /\ Upset /\ ~AtRest
    /\ pc' = [r \in Res |-> IF pc[r] \in Rest THEN pc[r] ELSE "failed"]
    /\ cur' = [nat |-> None, eip |-> None, snat |-> None]
    /\ UNCHANGED <<cloud, engine, history>>

-----------------------------------------------------------------------------
Disturbance ==
    \/ Console \/ Destroy \/ ProcessDies
    \/ \E changes \in Edits : Edit(changes)

Next ==
    \/ NetStep \/ NatStep \/ EipStep \/ AttStep \/ SnatStep
    \/ Rerun \/ TaskEnds \/ Disturbance

Spec == Init /\ [][Next]_vars

\* Every handler keeps running, a failed run is repeated, tasks end.
FairSpec ==
    /\ Spec
    /\ WF_vars(NetStep) /\ WF_vars(NatStep) /\ WF_vars(EipStep)
    /\ WF_vars(AttStep) /\ WF_vars(SnatStep)
    /\ WF_vars(Rerun) /\ WF_vars(TaskEnds)

-----------------------------------------------------------------------------
TypeOK ==
    /\ net \in Network /\ nat \in [Ngw -> Gateway]
    /\ eip \in [Eip -> Address] /\ snat \in [Snat -> Entry]
    /\ want \in [place : Choice, billing : Choice]
    /\ gen \in [{"nat", "eip", "snat"} -> Generation]
    /\ retire \in SUBSET {"nat", "eip", "att", "snat", "table"}
    /\ saved \in [nat : Ngw \cup {None}, eip : Eip \cup {None},
                  attEip : Eip \cup {None}, attNat : Ngw \cup {None},
                  snat : Snat \cup {None}, table : Ngw \cup {None}]
    /\ outgoing \in [nat : Ngw \cup {None}, eip : Eip \cup {None}]
    /\ destroying \in BOOLEAN /\ touched \in BOOLEAN
    /\ pc \in [Res -> Step]
    /\ cur \in [nat : Ngw \cup {None}, eip : Eip \cup {None}, snat : Snat \cup {None}]
    /\ released \in SUBSET (Ngw \cup Eip \cup Snat)
    /\ upsets \in 0..MaxUpsets

\* What was bought for something an operator deleted: of the same generation.
Successor(i, things, Id) == \E j \in Id \cap released : j # i /\ things[j].gen = things[i].gen

Single(things, Id, present, old) ==
    LET live == { i \in Id : Live(things[i]) } IN
    /\ \A i, j \in live : things[i].gen = things[j].gen => i = j
    /\ \A i \in live : \/ things[i].gen = present \/ i = old
                        \/ Successor(i, things, Id)

\* Nothing is paid for twice: a gateway, an address or an entry of the same
\* generation is bought once, whatever answers were lost, and besides the
\* present generation only the one that is to be deleted last is left.  The
\* exception is what made up for a console change in a run that never saved it.
OneOfEach ==
    /\ Single(nat, Ngw, gen.nat, outgoing.nat)
    /\ Single(eip, Eip, gen.eip, outgoing.eip)
    /\ Single(snat, Snat, gen.snat, None)

Serves(s) ==
    /\ snat[s].status = "Available"
    /\ CanUse(snat[s].ip, snat[s].table)
    /\ nat[snat[s].table].status = "Available"
Egress == \E s \in Snat : Serves(s)

\* "Changing the NAT may temporarily interrupt outbound connectivity": nothing
\* else does.  Unless the gateway or the address is replaced, or the stack
\* destroyed, no step of any handler takes a working path away.
EgressKept ==
    [][(Egress /\ ~Egress') => retire # {} \/ destroying \/ Console]_vars

\* "Deletes never force-detach another owner's binding", nor does anything else,
\* as far as a handler can see: none that finds an address bound to somebody
\* else begins to unbind it, and only a request that was decided upon before
\* the address was given away can still undo the binding.
Theirs(e) == eip[e].on = Foreign /\ eip[e].status = "InUse"
ForeignBindingKept ==
    [][\A e \in Eip : Theirs(e) =>
         /\ Theirs(e)' \/ (pc.att \in Sending /\ Old.eip = e)
         /\ pc.att \notin Sending /\ pc'.att \in Sending => Old.eip # e]_vars

\* A deployment that ends well, and that nobody interfered with, leaves a
\* working path out of the desired gateway through the desired address, and a
\* replaced gateway or address never takes it along.
DeployedMeansConnected ==
    (AllDone /\ ~touched) =>
       /\ saved.snat \in Snat /\ Serves(saved.snat)
       /\ snat[saved.snat].table = saved.nat /\ snat[saved.snat].ip = saved.eip
       /\ nat[saved.nat].place = want.place /\ eip[saved.eip].billing = want.billing

\* A destroy that ended has deleted everything that was bought, the network
\* too.  Only an address that an operator released can leave a successor behind
\* that nothing saved.
DestroyLeavesNothing ==
    (\A r \in Res : pc[r] = "gone") =>
       /\ LiveNat \cup LiveSnat = {} /\ ~Live(net)
       /\ \A e \in LiveEip : Successor(e, eip, Eip)

\* The two successes together, a deployment's and a destroy's.
SuccessMeansDone == DeployedMeansConnected /\ DestroyLeavesNothing

\* An address is replaced while an SNAT entry that stays uses the old one: the
\* association must let go of it first, the entry waits for the association.
Stranded == ~destroying /\ outgoing.eip # None /\ UsedBy(outgoing.eip) # {}

\* A gateway, an address or an entry was deleted by hand, and the run that made
\* up for it never returned: no output names the successor, or what it is bound
\* to, and what it uses cannot go.
Forgotten(e) ==
    /\ eip[e].on \in LiveNat /\ Old # [eip |-> e, nat |-> eip[e].on]
    /\ [eip |-> e, nat |-> eip[e].on] # [eip |-> saved.eip, nat |-> saved.nat] \/ pc.att = "gone"

Orphaned ==
    /\ released # {}
    /\ \/ destroying /\ pc.nat = "gone" /\ LiveNat # {}
       \/ \E e \in LiveEip : Forgotten(e)
       \/ \E s \in LiveSnat \ {saved.snat} : Successor(s, snat, Snat)

Settled ==
    \/ Swept
    \/ destroying /\ \A r \in Res : pc[r] = "gone"
    \/ \E e \in Eip : eip[e].on = Foreign

\* After the disturbances every deployment and every destroy ends, wherever
\* the previous one died.  Three things need a person: an address that now
\* belongs to someone else, one that is stranded, and an orphaned gateway.
EventuallySettled == <>[](Settled \/ Stranded \/ Orphaned)

\* "Dependency-aware replacement": an address that is to be replaced is.
ReplacementEnds == <>[]Settled
=============================================================================
