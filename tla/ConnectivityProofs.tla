------------------------- MODULE ConnectivityProofs -------------------------
(***************************************************************************)
(* Proofs about Connectivity, for any gateways, addresses and entries, any *)
(* edits and any number of disturbances: the state is well typed; nothing  *)
(* is bought twice; a deployment or a destroy that says it is done has     *)
(* done it; no step takes a working path away unless the gateway or the    *)
(* address is replaced; and a binding of another owner is left alone.      *)
(***************************************************************************)
EXTENDS Connectivity, TLAPS

Cur == [nat : Ngw \cup {None}, eip : Eip \cup {None}, snat : Snat \cup {None}]

\* The steps of a reconcile; from some the handler holds an identity.
HeldStep == {"created", "tune", "final"}
Work == {"observe", "create"} \cup HeldStep
AttWork == {"previous", "detach", "detached", "look", "attached"}
Deletion == {"dRead", "dSend", "dAbsent"}
Waiting == {"idle", "planned", "failed"}
Ending == {"idle", "failed", "gone"} \cup Deletion
Finished == {"done", "failed"} \cup Deletion

\* What becomes of the things of one resource.  The generation is g, s is the
\* saved one and o the one to be deleted last; rel are those an operator
\* deleted, and lost says that the saved one is being deleted.
Line(things, Id, g, s, o, lost, rel) ==
    LET live == { i \in Id : Live(things[i]) } IN
    /\ \A i \in Id : things[i].status # "unborn" => things[i].gen <= g
    /\ \A i \in Id \cap rel : things[i].status = "gone"
    /\ s # None => things[s].status # "unborn" /\ things[s].gen = g
    /\ o # None => things[o].status # "unborn" /\ things[o].gen < g
    /\ \A i, j \in live : things[i].gen = things[j].gen => i = j
    /\ \A i \in live : \/ things[i].gen = g \/ i = o
                       \/ \E j \in Id \cap rel : j # i /\ things[j].gen = things[i].gen
    /\ s # None => s \in live \/ s \in rel \/ (lost /\ \A i \in live : things[i].gen # g)

\* The cloud keeps its own order: an address is bound to a gateway that is in
\* service, and an entry uses an address that is bound to the gateway it is in.
CloudInv ==
    /\ \A e \in Eip : eip[e].on # None => eip[e].status \in {"Associating", "InUse", "Unassociating"}
    /\ \A e \in Eip : eip[e].on = Foreign => eip[e].status \in {"InUse", "Unassociating"}
    /\ \A e \in Eip, n \in Ngw : eip[e].on = n => nat[n].status = "Available"
    /\ \A s \in LiveSnat : /\ snat[s].table \in Ngw /\ snat[s].ip \in Eip
                           /\ eip[snat[s].ip].status = "InUse"
                           /\ eip[snat[s].ip].on = snat[s].table
    /\ \A s \in Snat : snat[s].status = "unborn" => snat[s].table = None

\* In a destroy nothing is reconciled; in a deployment the association waits
\* for the gateway and the address, and the entry for the association.
OrderInv ==
    /\ destroying => retire = {} /\ \A r \in Res : pc[r] \in Ending
    /\ ~destroying =>
         /\ \A r \in Res : pc[r] # "gone"
         /\ pc.net \notin Deletion
         /\ pc.att \in AttWork => pc.nat = "done" /\ pc.eip = "done"
         /\ pc.att = "done" /\ pc.snat # "done" => pc.nat = "done" /\ pc.eip = "done"
         /\ pc.snat \in Work => pc.att = "done"
         /\ pc.snat = "done" => pc.att = "done" /\ pc.nat \in Finished /\ pc.eip \in Finished

\* What the handler of the gateways knows at each of its steps.
NatHold ==
    /\ pc.nat \in HeldStep =>
         cur.nat # None /\ nat[cur.nat].status # "unborn" /\ nat[cur.nat].gen = gen.nat
    /\ pc.nat \in Deletion => /\ cur.nat = IF outgoing.nat # None THEN outgoing.nat ELSE saved.nat
                              /\ destroying \/ outgoing.nat # None
    /\ "nat" \in retire => outgoing.nat = None /\ saved.nat # None /\ pc.nat \in Waiting
    /\ ~destroying /\ pc.nat \in {"planned", "done"} \cup Deletion => saved.nat # None

\* The gateways: one line of them, each where it was wanted.
NatInv ==
    /\ Line(nat, Ngw, gen.nat, saved.nat, outgoing.nat, destroying, released)
    /\ \A n \in Ngw : nat[n].status = "Deleting" /\ nat[n].gen = gen.nat => destroying
    /\ NatHold
    /\ ~destroying /\ "nat" \notin retire =>
         \A n \in LiveNat : nat[n].gen = gen.nat => nat[n].place = want.place

EipHold ==
    /\ pc.eip \in HeldStep =>
         cur.eip # None /\ eip[cur.eip].status # "unborn" /\ eip[cur.eip].gen = gen.eip
    /\ pc.eip \in Deletion => /\ cur.eip = IF outgoing.eip # None THEN outgoing.eip ELSE saved.eip
                              /\ destroying \/ outgoing.eip # None
    /\ pc.eip = "dAbsent" => cur.eip \notin LiveEip
    /\ pc.eip = "gone" => outgoing.eip = None /\ saved.eip \notin LiveEip
    /\ "eip" \in retire => outgoing.eip = None /\ saved.eip # None /\ pc.eip \in Waiting
    /\ ~destroying /\ pc.eip \in {"planned", "done"} \cup Deletion => saved.eip # None

\* The addresses: likewise.  A destroy that has none to release left none of
\* the present generation.
EipInv ==
    /\ Line(eip, Eip, gen.eip, saved.eip, outgoing.eip, destroying, released)
    /\ EipHold
    /\ ~destroying /\ "eip" \notin retire =>
         \A e \in LiveEip : eip[e].gen = gen.eip => eip[e].billing = want.billing
    /\ destroying /\ saved.eip = None => \A e \in LiveEip : eip[e].gen # gen.eip

Removed == destroying \/ "snat" \in retire

SnatHold ==
    /\ pc.snat \in HeldStep => /\ cur.snat # None /\ snat[cur.snat].status # "unborn"
                               /\ snat[cur.snat].gen = gen.snat /\ snat[cur.snat].table = saved.nat
    /\ pc.snat \in Deletion => cur.snat = saved.snat /\ Removed
    /\ "snat" \in retire => /\ saved.snat # None /\ pc.snat \in Waiting \cup Deletion
                             /\ "table" \notin retire
    /\ "table" \in retire => saved.snat # None /\ saved.snat \notin LiveSnat /\ pc.snat \in Waiting
    /\ ~destroying /\ pc.snat \in {"planned", "done"} => saved.snat # None

\* The entries: the present one is in the saved gateway, until it is replaced.
SnatInv ==
    /\ Line(snat, Snat, gen.snat, saved.snat, None, Removed, released)
    /\ \A s \in Snat : snat[s].status = "Deleting" /\ snat[s].gen = gen.snat => Removed
    /\ SnatHold
    /\ saved.snat # None => saved.table = snat[saved.snat].table
    /\ ~Removed => \A s \in LiveSnat : snat[s].gen = gen.snat =>
                     snat[s].table = saved.nat /\ "nat" \notin retire

\* The network is there before the gateways and until they are gone.
NetInv ==
    /\ net.status \in {"Deleting", "gone"} => destroying
    /\ net.status \in {"unborn", "Deleting", "gone"} => LiveNat = {}
    /\ pc.net \in {"created", "final", "planned", "done"} \/ pc.nat \in Work => net.status # "unborn"
    /\ pc.net = "gone" => ~Live(net)

\* What the entry's handler reported holds until somebody touches it.
FitInv ==
    pc.snat = "done" /\ ~touched =>
       saved.snat # None /\ snat[saved.snat].status = "Available" /\ snat[saved.snat].ip = saved.eip

StateInv ==
    TypeOK /\ CloudInv /\ OrderInv /\ NatInv /\ EipInv /\ SnatInv /\ NetInv /\ FitInv

-----------------------------------------------------------------------------
(* How the handlers move. *)

Output == [nat : Ngw \cup {None}, eip : Eip \cup {None},
           attEip : Eip \cup {None}, attNat : Ngw \cup {None},
           snat : Snat \cup {None}, table : Ngw \cup {None}]

\* A handler goes on to a step, stays or fails.
Moves(r, step) ==
    /\ pc' \in [Res -> Step] /\ cur' \in Cur
    /\ pc'[r] \in {step, pc[r], "failed"}
    /\ \A q \in Res : q # r => pc'[q] = pc[q]
    /\ r # "nat" => cur'.nat = cur.nat
    /\ r # "eip" => cur'.eip = cur.eip
    /\ r # "snat" => cur'.snat = cur.snat
    /\ upsets' \in 0..MaxUpsets

\* What it held it holds until it fails.
Holds(r) == UNCHANGED cur \/ pc'[r] = "failed"

LEMMA UpsetType ==
    ASSUME TypeOK, Upset \/ Calm
    PROVE  upsets' \in 0..MaxUpsets
BY BoundAssumption DEF TypeOK, Upset, Calm

LEMMA GotoType ==
    ASSUME TypeOK, NEW r \in Res, NEW step \in Step, Goto(r, step)
    PROVE  pc' \in [Res -> Step] /\ pc'[r] = step /\ \A q \in Res : q # r => pc'[q] = pc[q]
BY DEF TypeOK, Goto

LEMMA EndType ==
    ASSUME TypeOK, NEW r \in Res, NEW step \in Step, End(r, step)
    PROVE  /\ pc' \in [Res -> Step] /\ pc'[r] = step
           /\ \A q \in Res : q # r => pc'[q] = pc[q]
           /\ cur' \in Cur
           /\ r # "nat" => cur'.nat = cur.nat
           /\ r # "eip" => cur'.eip = cur.eip
           /\ r # "snat" => cur'.snat = cur.snat
<1>1. cur \in Cur /\ cur' = [cur EXCEPT ![r] = None]
  BY DEF TypeOK, Cur, End
<1>2. CASE r \in {"nat", "eip", "snat"}
  BY <1>1, <1>2, GotoType DEF Cur, End
<1>3. CASE r \in {"net", "att"}
  BY <1>1, <1>3, GotoType DEF Cur, End
<1> QED BY <1>2, <1>3 DEF Res

LEMMA FailMoves ==
    ASSUME TypeOK, NEW r \in Res, NEW step, Fail(r), Upset \/ Calm
    PROVE  Moves(r, step) /\ Holds(r) /\ pc'[r] = "failed"
BY EndType, UpsetType DEF Fail, Moves, Holds, Step, Rest

LEMMA ProceedMoves ==
    ASSUME TypeOK, NEW r \in Res, NEW step \in Step, Proceed(r, step)
    PROVE  Moves(r, step) /\ UNCHANGED cur /\ pc'[r] = step
BY GotoType, UpsetType DEF Proceed, Moves, TypeOK, Cur

LEMMA LostMoves ==
    ASSUME TypeOK, NEW r \in Res, NEW step, Lost(r)
    PROVE  Moves(r, step) /\ Holds(r) /\ pc'[r] \in {pc[r], "failed"}
<1>1. CASE Upset /\ UNCHANGED <<pc, cur>>
  BY <1>1, UpsetType DEF Moves, Holds, TypeOK, Cur
<1>2. CASE Upset /\ Fail(r)
  BY <1>2, FailMoves
<1> QED BY <1>1, <1>2 DEF Lost

LEMMA CallMoves ==
    ASSUME TypeOK, NEW r \in Res, NEW STATE allowed, NEW ACTION effect, NEW step \in Step,
           Call(r, allowed, effect, step)
    PROVE  Moves(r, step) /\ Holds(r) /\ ((allowed /\ effect) \/ UNCHANGED cloud)
BY ProceedMoves, LostMoves, FailMoves DEF Call, Holds

LEMMA WaitMoves ==
    ASSUME TypeOK, NEW r \in Res, NEW STATE ready, NEW STATE busy, NEW step \in Step,
           Wait(r, ready, busy, step)
    PROVE  /\ Moves(r, step) /\ Holds(r) /\ UNCHANGED cloud
           /\ pc'[r] \in {step, "failed"} /\ (pc'[r] = "failed" \/ ready)
<1>1. CASE ready /\ Proceed(r, step)
  BY <1>1, ProceedMoves DEF Wait, Holds
<1>2. CASE ~ready /\ Fail(r) /\ (IF busy THEN Upset ELSE Calm)
  <2>1. Upset \/ Calm
    BY <1>2
  <2> QED BY <1>2, <2>1, FailMoves DEF Wait
<1> QED BY <1>1, <1>2 DEF Wait

LEMMA SetNatType ==
    ASSUME TypeOK, NEW n, NEW thing, n \in Ngw => thing \in Gateway, SetNat(n, thing)
    PROVE  /\ UNCHANGED <<net, eip, snat>> /\ nat' \in [Ngw -> Gateway]
           /\ \A m \in Ngw : nat'[m] = IF m = n THEN thing ELSE nat[m]
BY DEF TypeOK, SetNat

LEMMA SetEipType ==
    ASSUME TypeOK, NEW e, NEW thing, e \in Eip => thing \in Address, SetEip(e, thing)
    PROVE  /\ UNCHANGED <<net, nat, snat>> /\ eip' \in [Eip -> Address]
           /\ \A f \in Eip : eip'[f] = IF f = e THEN thing ELSE eip[f]
BY DEF TypeOK, SetEip

LEMMA SetSnatType ==
    ASSUME TypeOK, NEW s, NEW thing, s \in Snat => thing \in Entry, SetSnat(s, thing)
    PROVE  /\ UNCHANGED <<net, nat, eip>> /\ snat' \in [Snat -> Entry]
           /\ \A t \in Snat : snat'[t] = IF t = s THEN thing ELSE snat[t]
BY DEF TypeOK, SetSnat

LEMMA FreshType ==
    ASSUME NEW bought, NEW things, NEW Id, NEW i \in Fresh(bought, things, Id)
    PROVE  i \in bought \/ (bought = {} /\ i \in Id /\ things[i].status = "unborn")
BY DEF Fresh

-----------------------------------------------------------------------------
(* What may happen to a line of things. *)

\* The things age: one that was live may be gone, none comes up anew.
Ages(old, new, Id) ==
    \A i \in Id : /\ new[i].gen = old[i].gen
                  /\ new[i].status = "unborn" <=> old[i].status = "unborn"
                  /\ Live(new[i]) => Live(old[i])

LEMMA LineAges ==
    ASSUME NEW things, NEW things2, NEW Id, NEW g, NEW s, NEW o,
           NEW lost \in BOOLEAN, NEW lost2 \in BOOLEAN, NEW rel, NEW rel2,
           s \in Id \cup {None}, None \notin Id,
           Line(things, Id, g, s, o, lost, rel), Ages(things, things2, Id),
           o \in Id \cup {None},
           rel \subseteq rel2, \A i \in Id \cap rel2 : i \in rel \/ things2[i].status = "gone",
           lost => lost2,
           s # None /\ Live(things[s]) => Live(things2[s]) \/ s \in rel2 \/ lost2
    PROVE  Line(things2, Id, g, s, o, lost2, rel2)
<1> DEFINE live == { i \in Id : Live(things[i]) }
           live2 == { i \in Id : Live(things2[i]) }
<1>1. live2 \subseteq live
  BY DEF Ages
<1>2. \A i \in Id : things2[i].status # "unborn" => things2[i].gen <= g
  BY DEF Line, Ages
<1>3. \A i \in Id \cap rel2 : things2[i].status = "gone"
  BY DEF Line, Ages, Live
<1>4. s # None => things2[s].status # "unborn" /\ things2[s].gen = g
  BY DEF Line, Ages
<1>5. o # None => things2[o].status # "unborn" /\ things2[o].gen < g
  BY DEF Line, Ages
<1>6. \A i, j \in live2 : things2[i].gen = things2[j].gen => i = j
  BY <1>1 DEF Line, Ages
<1>7. \A i \in live2 : \/ things2[i].gen = g \/ i = o
                       \/ \E j \in Id \cap rel2 : j # i /\ things2[j].gen = things2[i].gen
  <2> TAKE i \in live2
  <2>1. i \in live /\ things2[i].gen = things[i].gen
    BY <1>1 DEF Ages
  <2>2. CASE \E j \in Id \cap rel : j # i /\ things[j].gen = things[i].gen
    BY <2>1, <2>2 DEF Ages
  <2> QED BY <2>1, <2>2 DEF Line
<1>8. s # None => s \in live2 \/ s \in rel2 \/ (lost2 /\ \A i \in live2 : things2[i].gen # g)
  <2> HAVE s # None
  <2>1. s \in Id
    OBVIOUS
  <2>2. CASE s \in live
    <3>1. CASE Live(things2[s])
      BY <2>1, <3>1
    <3>2. CASE ~Live(things2[s]) /\ lost2
      <4>1. \A i \in live2 : things2[i].gen # g
        BY <1>1, <2>2, <3>2 DEF Line, Ages
      <4> QED BY <3>2, <4>1
    <3> QED BY <2>1, <2>2, <3>1, <3>2
  <2>3. CASE s \in rel
    BY <2>3
  <2>4. CASE lost /\ \A i \in live : things[i].gen # g
    BY <1>1, <2>4 DEF Ages
  <2> QED BY <2>2, <2>3, <2>4 DEF Line
<1> QED BY <1>2, <1>3, <1>4, <1>5, <1>6, <1>7, <1>8 DEF Line

\* One is bought: of the present generation there was none.
LEMMA LineBirth ==
    ASSUME NEW things, NEW things2, NEW Id, NEW g \in Nat, NEW s, NEW o, NEW lost, NEW rel, ~lost,
           s \in Id \cup {None}, o \in Id \cup {None}, None \notin Id,
           Line(things, Id, g, s, o, lost, rel),
           NEW n \in Id, things[n].status = "unborn",
           Live(things2[n]), things2[n].gen = g,
           \A i \in Id : i # n => things2[i] = things[i],
           \A i \in Id : Live(things[i]) => things[i].gen # g
    PROVE  Line(things2, Id, g, s, o, lost, rel)
<1> DEFINE live2 == { i \in Id : Live(things2[i]) }
<1>1. n \notin rel /\ n # s /\ n # o
  BY DEF Line
<1>2. \A i \in Id : things2[i].status # "unborn" => things2[i].gen <= g
  BY DEF Line
<1>3. \A i \in Id \cap rel : things2[i].status = "gone"
  BY <1>1 DEF Line
<1>4. s # None => things2[s].status # "unborn" /\ things2[s].gen = g
  BY <1>1 DEF Line
<1>5. o # None => things2[o].status # "unborn" /\ things2[o].gen < g
  BY <1>1 DEF Line
<1>6. \A i, j \in live2 : things2[i].gen = things2[j].gen => i = j
  BY DEF Line
<1>7. \A i \in live2 : \/ things2[i].gen = g \/ i = o
                       \/ \E j \in Id \cap rel : j # i /\ things2[j].gen = things2[i].gen
  <2> TAKE i \in live2
  <2>1. CASE i = n
    BY <2>1
  <2>2. CASE i # n
    <3>1. things2[i] = things[i]
      BY <2>2
    <3>2. CASE \E j \in Id \cap rel : j # i /\ things[j].gen = things[i].gen
      BY <1>1, <3>1, <3>2
    <3> QED BY <3>1, <3>2 DEF Line
  <2> QED BY <2>1, <2>2
<1>8. s # None => s \in live2 \/ s \in rel
  BY <1>1 DEF Line
<1> QED BY <1>2, <1>3, <1>4, <1>5, <1>6, <1>7, <1>8 DEF Line

\* One of the present generation, that is live, is saved.
LEMMA LineSave ==
    ASSUME NEW things, NEW Id, NEW g, NEW s, NEW o, NEW lost, NEW rel,
           Line(things, Id, g, s, o, lost, rel),
           NEW n \in Id, Live(things[n]), things[n].gen = g
    PROVE  Line(things, Id, g, n, o, lost, rel)
BY DEF Line, Live

\* The saved one gives way to a new generation.
LEMMA LineRetire ==
    ASSUME NEW things, NEW Id, NEW g \in Nat, NEW s \in Id, NEW lost, NEW rel, ~lost, None \notin Id,
           \A i \in Id : things[i].gen \in Nat,
           Line(things, Id, g, s, None, lost, rel)
    PROVE  /\ Line(things, Id, g + 1, None, s, lost, rel)
           /\ \A i \in Id : things[i].status # "unborn" => things[i].gen # g + 1
<1> DEFINE live == { i \in Id : Live(things[i]) }
<1>1. \A i \in Id : things[i].status # "unborn" => things[i].gen < g + 1
  BY DEF Line
<1>2. \A i \in live : i = s \/ \E j \in Id \cap rel : j # i /\ things[j].gen = things[i].gen
  <2> TAKE i \in live
  <2>1. CASE things[i].gen = g
    BY <2>1 DEF Line
  <2> QED BY <2>1 DEF Line
<1>3. things[s].status # "unborn" /\ things[s].gen < g + 1
  BY <1>1 DEF Line
<1> QED BY <1>1, <1>2, <1>3 DEF Line

\* The saved one is no more, and a new generation begins.
LEMMA LineTurn ==
    ASSUME NEW things, NEW Id, NEW g \in Nat, NEW s \in Id, NEW lost, NEW lost2, NEW rel,
           None \notin Id, \A i \in Id : things[i].gen \in Nat,
           Line(things, Id, g, s, None, lost, rel), ~Live(things[s])
    PROVE  /\ Line(things, Id, g + 1, None, None, lost2, rel)
           /\ \A i \in Id : things[i].status # "unborn" => things[i].gen # g + 1
<1> DEFINE live == { i \in Id : Live(things[i]) }
<1>1. \A i \in Id : things[i].status # "unborn" => things[i].gen < g + 1
  BY DEF Line
<1>2. \A i \in live : \E j \in Id \cap rel : j # i /\ things[j].gen = things[i].gen
  <2> TAKE i \in live
  <2>1. CASE things[i].gen = g
    BY <2>1 DEF Line
  <2> QED BY <2>1 DEF Line
<1> QED BY <1>1, <1>2 DEF Line

\* What was to be deleted last is no more, or what was saved is forgotten.
LEMMA LineDrop ==
    ASSUME NEW things, NEW Id, NEW g, NEW s, NEW o, NEW lost, NEW rel,
           Line(things, Id, g, s, o, lost, rel), o \in Id => ~Live(things[o])
    PROVE  Line(things, Id, g, s, None, lost, rel)
BY DEF Line

LEMMA LineForget ==
    ASSUME NEW things, NEW Id, NEW g, NEW s, NEW o, NEW lost, NEW lost2, NEW rel,
           Line(things, Id, g, s, o, lost, rel)
    PROVE  Line(things, Id, g, None, o, lost2, rel)
BY DEF Line

-----------------------------------------------------------------------------
(* What a step of one handler leaves to the others. *)

CloudType ==
    /\ net \in Network /\ nat \in [Ngw -> Gateway]
    /\ eip \in [Eip -> Address] /\ snat \in [Snat -> Entry]

EngineType ==
    /\ gen \in [{"nat", "eip", "snat"} -> Generation]
    /\ retire \in SUBSET {"nat", "eip", "att", "snat", "table"}
    /\ saved \in Output
    /\ outgoing \in [nat : Ngw \cup {None}, eip : Eip \cup {None}]

LEMMA TypeParts ==
    TypeOK => CloudType /\ EngineType /\ pc \in [Res -> Step] /\ cur \in Cur
BY DEF TypeOK, CloudType, EngineType, Cur, Output

\* A handler's step changes neither the wishes nor what an operator did.
LEMMA StepType ==
    ASSUME TypeOK, NEW r, NEW step, Moves(r, step), CloudType', EngineType',
           UNCHANGED <<want, destroying, history>>
    PROVE  TypeOK'
BY DEF TypeOK, Moves, CloudType, EngineType, Cur, Output, history

\* The gateways, and what their handler has, are left alone; likewise the rest.
NatApart ==
    /\ nat' = nat /\ pc'.nat = pc.nat /\ cur'.nat = cur.nat
    /\ gen'.nat = gen.nat /\ saved'.nat = saved.nat /\ outgoing'.nat = outgoing.nat
    /\ "nat" \in retire' <=> "nat" \in retire
    /\ UNCHANGED <<want, destroying, released>>

EipApart ==
    /\ eip' = eip /\ pc'.eip = pc.eip /\ cur'.eip = cur.eip
    /\ gen'.eip = gen.eip /\ saved'.eip = saved.eip /\ outgoing'.eip = outgoing.eip
    /\ "eip" \in retire' <=> "eip" \in retire
    /\ UNCHANGED <<want, destroying, released>>

SnatApart ==
    /\ snat' = snat /\ pc'.snat = pc.snat /\ cur'.snat = cur.snat
    /\ gen'.snat = gen.snat /\ saved'.snat = saved.snat /\ saved'.table = saved.table
    /\ "snat" \in retire' <=> "snat" \in retire
    /\ "table" \in retire' <=> "table" \in retire
    /\ UNCHANGED <<destroying, released, touched>>

NetApart ==
    /\ net' = net /\ pc'.net = pc.net /\ destroying' = destroying
    /\ LiveNat' \subseteq LiveNat /\ (pc'.nat \in Work => pc.nat \in Work)

LEMMA NatSame ==
    ASSUME NatInv, NatApart
    PROVE  NatInv'
BY DEF NatInv, NatHold, NatApart, LiveNat, Line, Live

LEMMA EipSame ==
    ASSUME EipInv, EipApart
    PROVE  EipInv'
BY DEF EipInv, EipHold, EipApart, LiveEip, Line, Live

LEMMA SnatSame ==
    ASSUME SnatInv, SnatApart, saved'.nat = saved.nat, "nat" \in retire' <=> "nat" \in retire
    PROVE  SnatInv'
BY DEF SnatInv, SnatHold, Removed, SnatApart, LiveSnat, Line, Live

LEMMA NetSame ==
    ASSUME NetInv, NetApart
    PROVE  NetInv'
BY DEF NetInv, NetApart, Live

LEMMA FitSame ==
    ASSUME FitInv, SnatApart, saved'.eip = saved.eip
    PROVE  FitInv'
BY DEF FitInv, SnatApart

LEMMA CloudSame ==
    ASSUME CloudInv, UNCHANGED <<nat, eip, snat>>
    PROVE  CloudInv'
BY DEF CloudInv, LiveSnat, Live

-----------------------------------------------------------------------------
(* The network. *)

\* In a destroy a handler only ends; in a deployment it deletes nothing but
\* what was replaced, and is never gone.
NetTurn ==
    /\ destroying => pc'.net \in Ending
    /\ ~destroying => pc'.net \notin Deletion \cup {"gone"}

LEMMA SetNetType ==
    ASSUME TypeOK, NEW status \in Status, SetNet(status)
    PROVE  CloudType' /\ UNCHANGED <<nat, eip, snat>> /\ net'.status = status
BY DEF TypeOK, SetNet, CloudType, Network

LEMMA NetStepDoes ==
    ASSUME TypeOK, OrderInv, NetInv, NetStep
    PROVE  /\ CloudType' /\ UNCHANGED <<nat, eip, snat, engine, history>>
           /\ \E step : Moves("net", step)
           /\ NetTurn /\ NetInv'
<1> USE DEF Step, Rest, Ending, Deletion, Waiting
<1>1. /\ net \in Network /\ CloudType
      /\ "net" \in Res /\ "nat" \in Res
      /\ pc \in [Res -> Step]
  BY TypeParts DEF Res, CloudType
<1>2. destroying => pc.net \in Ending
  BY <1>1 DEF OrderInv
<1>3. ~destroying => pc.net \notin Deletion \cup {"gone"}
  BY <1>1 DEF OrderInv
<1>4. ASSUME UNCHANGED net, UNCHANGED nat, UNCHANGED destroying, pc'.nat = pc.nat,
             pc'.net \in {"created", "final", "planned", "done"} => net.status # "unborn",
             pc'.net = "gone" => ~Live(net)
      PROVE  NetInv'
  BY <1>4 DEF NetInv, LiveNat, Live
<1>5. CASE PlanNet
  <2>1. \E step : Moves("net", step)
    BY <1>1, <1>5, GotoType DEF PlanNet, Moves, TypeOK, Cur
  <2>2. pc'.net = IF pc.net = "planned" THEN "done" ELSE "observe"
    BY <1>1, <1>5, GotoType DEF PlanNet
  <2>3. NetInv'
    BY <1>1, <1>4, <1>5, <2>1, <2>2 DEF PlanNet, cloud, engine, NetInv, Moves
  <2> QED BY <1>1, <1>5, <2>1, <2>2, <2>3 DEF PlanNet, cloud, engine, CloudType, NetTurn
<1>6. CASE ObserveNet
  <2>1. \E step : Moves("net", step)
    BY <1>1, <1>6, GotoType DEF ObserveNet, Moves, TypeOK, Cur
  <2>2. pc'.net = IF Live(net) THEN "final" ELSE "create"
    BY <1>1, <1>6, GotoType DEF ObserveNet
  <2>3. NetInv'
    BY <1>1, <1>4, <1>6, <2>1, <2>2 DEF ObserveNet, cloud, engine, NetInv, Moves, Live
  <2> QED BY <1>1, <1>2, <1>6, <2>1, <2>2, <2>3 DEF ObserveNet, cloud, engine, CloudType, NetTurn
<1>7. CASE CreateVpc
  <2> DEFINE effect == IF Live(net) THEN UNCHANGED cloud ELSE SetNet("Pending")
  <2>1. Call("net", TRUE, effect, "created")
    BY <1>7 DEF CreateVpc
  <2>2. effect \/ UNCHANGED cloud
    <3> HIDE DEF effect
    <3> QED BY <2>1 DEF Call
  <2>3. Moves("net", "created") /\ ~destroying /\ UNCHANGED <<engine, history>>
    <3> HIDE DEF effect
    <3> QED BY <1>1, <1>2, <1>7, <2>1, CallMoves DEF CreateVpc
  <2>4. pc'.net \in {"created", "create", "failed"} /\ pc'.nat = pc.nat
    BY <1>1, <1>7, <2>3 DEF Moves, CreateVpc
  <2>5. pc'.net = "created" => (effect /\ ~Live(net)) \/ (Live(net) /\ UNCHANGED cloud)
    BY <1>1, <1>7, <2>1, <2>4, EndType, GotoType DEF Call, Fail, Lost, CreateVpc
  <2>6. CASE SetNet("Pending") /\ ~Live(net)
    <3>1. CloudType' /\ UNCHANGED <<nat, eip, snat>> /\ net'.status = "Pending"
      BY <2>6, SetNetType DEF Status
    <3>2. NetInv'
      BY <2>3, <2>4, <3>1 DEF NetInv, LiveNat, Live, engine
    <3> QED BY <2>3, <2>4, <3>1, <3>2 DEF NetTurn
  <2>7. CASE UNCHANGED cloud
    <3>1. NetInv'
      BY <1>4, <2>3, <2>4, <2>5, <2>7, SetNetType DEF NetInv, cloud, engine, Live, Status
    <3> QED BY <1>1, <2>3, <2>4, <2>7, <3>1 DEF NetTurn, cloud, CloudType
  <2> QED BY <2>2, <2>6, <2>7
<1>8. CASE AwaitNet
  <2>1. PICK next \in {"final", "done"} :
          Wait("net", net.status = "Available", NetBusy, next)
    BY <1>8 DEF AwaitNet
  <2>2. /\ Moves("net", next) /\ UNCHANGED cloud
        /\ pc'.net \in {next, "failed"}
    BY <1>1, <2>1, WaitMoves
  <2>3. UNCHANGED <<engine, history>> /\ pc.net \in {"created", "final"} /\ ~destroying
    BY <1>2, <1>8 DEF AwaitNet
  <2>4. NetInv'
    BY <1>1, <1>4, <2>2, <2>3 DEF NetInv, Moves, cloud, engine
  <2> QED BY <1>1, <2>2, <2>3, <2>4 DEF cloud, CloudType, NetTurn
<1>9. CASE StartDeleteNet
  <2>1. \E step : Moves("net", step)
    BY <1>1, <1>9, GotoType DEF StartDeleteNet, Moves, TypeOK, Cur
  <2>2. pc'.net = "dRead"
    BY <1>1, <1>9, GotoType DEF StartDeleteNet
  <2>3. NetInv'
    BY <1>1, <1>4, <1>9, <2>1, <2>2 DEF StartDeleteNet, cloud, engine, Moves
  <2> QED BY <1>1, <1>9, <2>1, <2>2, <2>3 DEF StartDeleteNet, cloud, engine, CloudType, NetTurn
<1>10. CASE DeleteVpc
  <2>1. pc.net = "dRead" /\ destroying /\ UNCHANGED <<engine, history>>
    BY <1>3, <1>10 DEF DeleteVpc
  <2>2. \/ Proceed("net", "dAbsent") /\ UNCHANGED cloud
        \/ Wait("net", FALSE, net.straggler \/ NetBusy, "dAbsent")
        \/ /\ Live(net) /\ net.status # "Deleting" /\ ~Occupied
           /\ Call("net", TRUE, SetNet("Deleting"), "dAbsent")
    BY <1>10 DEF DeleteVpc
  <2>3. /\ Moves("net", "dAbsent")
        /\ \/ UNCHANGED cloud
           \/ SetNet("Deleting") /\ LiveNat = {}
    <3>1. CASE Proceed("net", "dAbsent") /\ UNCHANGED cloud
      BY <1>1, <3>1, ProceedMoves
    <3>2. CASE Wait("net", FALSE, net.straggler \/ NetBusy, "dAbsent")
      BY <1>1, <3>2, WaitMoves
    <3>3. CASE ~Occupied /\ Call("net", TRUE, SetNet("Deleting"), "dAbsent")
      <4>1. Moves("net", "dAbsent")
        BY <1>1, <3>3, CallMoves
      <4> QED BY <3>3, <4>1 DEF Occupied, Call
    <3> QED BY <2>2, <3>1, <3>2, <3>3
  <2>4. pc'.net \in {"dAbsent", "dRead", "failed"} /\ pc'.nat = pc.nat
    BY <1>1, <2>1, <2>3 DEF Moves
  <2>5. CASE UNCHANGED cloud
    <3>1. NetInv'
      BY <1>4, <2>1, <2>4, <2>5 DEF cloud, engine
    <3> QED BY <1>1, <2>1, <2>3, <2>4, <2>5, <3>1 DEF NetTurn, cloud, CloudType
  <2>6. CASE SetNet("Deleting") /\ LiveNat = {}
    <3>1. CloudType' /\ UNCHANGED <<nat, eip, snat>> /\ net'.status = "Deleting"
      BY <2>6, SetNetType DEF Status
    <3>2. NetInv'
      BY <2>1, <2>4, <2>6, <3>1 DEF NetInv, LiveNat, Live, engine
    <3> QED BY <2>1, <2>3, <2>4, <3>1, <3>2 DEF NetTurn
  <2> QED BY <2>3, <2>5, <2>6
<1>11. CASE NetAbsent
  <2>1. Wait("net", ~Live(net), NetBusy, "gone") /\ UNCHANGED <<engine, history>>
    BY <1>11 DEF NetAbsent
  <2>2. /\ Moves("net", "gone") /\ UNCHANGED cloud
        /\ pc'.net \in {"gone", "failed"} /\ (pc'.net = "failed" \/ ~Live(net))
    BY <1>1, <2>1, WaitMoves
  <2>3. destroying
    BY <1>3, <1>11 DEF NetAbsent
  <2>4. NetInv'
    BY <1>1, <1>4, <2>1, <2>2 DEF Moves, cloud, engine
  <2> QED BY <1>1, <2>1, <2>2, <2>3, <2>4 DEF cloud, CloudType, NetTurn
<1> QED BY <1>5, <1>6, <1>7, <1>8, <1>9, <1>10, <1>11 DEF NetStep

LEMMA NetStepKeeps ==
    ASSUME StateInv, NetStep
    PROVE  StateInv'
<1>1. PICK step : Moves("net", step)
  BY NetStepDoes DEF StateInv
<1>2. CloudType' /\ UNCHANGED <<nat, eip, snat, engine, history>> /\ NetTurn /\ NetInv'
  BY NetStepDoes DEF StateInv
<1>3. TypeOK'
  BY <1>1, <1>2, StepType, TypeParts DEF StateInv, EngineType, engine
<1>4. NatApart /\ EipApart /\ SnatApart
  BY <1>1, <1>2 DEF Moves, NatApart, EipApart, SnatApart, engine, history, Res
<1>5. NatInv' /\ EipInv' /\ SnatInv' /\ FitInv' /\ CloudInv'
  BY <1>2, <1>4, NatSame, EipSame, SnatSame, FitSame, CloudSame DEF StateInv, engine
<1>6. \A q \in Res : q # "net" => pc'[q] = pc[q]
  BY <1>1 DEF Moves
<1>7. OrderInv'
  <2>1. UNCHANGED <<destroying, retire>>
    BY <1>2 DEF engine
  <2>2. CASE destroying
    BY <1>2, <1>6, <2>1, <2>2 DEF StateInv, OrderInv, NetTurn
  <2>3. CASE ~destroying
    <3>1. \A r \in Res : pc'[r] # "gone"
      BY <1>2, <1>6, <2>3 DEF StateInv, OrderInv, NetTurn
    <3>2. pc'.nat = pc.nat /\ pc'.eip = pc.eip /\ pc'.att = pc.att /\ pc'.snat = pc.snat
      BY <1>6 DEF Res
    <3> QED BY <1>2, <2>1, <2>3, <3>1, <3>2 DEF StateInv, OrderInv, NetTurn
  <2> QED BY <2>2, <2>3
<1> QED BY <1>2, <1>3, <1>5, <1>7 DEF StateInv

-----------------------------------------------------------------------------
(* The gateways. *)

\* What the handler of the gateways leaves alone.
NatLeaves ==
    /\ UNCHANGED <<net, eip, snat, want, destroying, history>>
    /\ gen'.eip = gen.eip /\ gen'.snat = gen.snat
    /\ saved'.eip = saved.eip /\ saved'.attEip = saved.attEip /\ saved'.attNat = saved.attNat
    /\ saved'.snat = saved.snat /\ saved'.table = saved.table
    /\ outgoing'.eip = outgoing.eip
    /\ retire' = retire \/ retire' = retire \ {"nat"}

\* How the handler of a gateway or an address goes on, seen from the others.
Turn(r) ==
    /\ destroying => pc'[r] \in Ending
    /\ ~destroying => \/ pc'[r] = pc[r]
                      \/ AllDone /\ pc'[r] \in Deletion
                      \/ /\ pc[r] # "done" /\ pc'[r] # "gone"
                         /\ pc[r] \in Finished => pc'[r] \in Finished

LEMMA OrderTurn ==
    ASSUME TypeOK, OrderInv, NEW r \in {"nat", "eip"}, NEW step, Moves(r, step), Turn(r),
           UNCHANGED destroying, retire' \subseteq retire
    PROVE  OrderInv'
<1>1. \A q \in Res : q # r => pc'[q] = pc[q]
  BY DEF Moves
<1>2. CASE destroying
  BY <1>1, <1>2 DEF OrderInv, Turn
<1>3. CASE ~destroying /\ pc'[r] = pc[r]
  <2>1. pc' = pc
    BY <1>1, <1>3 DEF Moves, TypeOK
  <2> QED BY <1>3, <2>1 DEF OrderInv
<1>4. CASE ~destroying /\ AllDone /\ pc'[r] \in Deletion
  <2>1. \A q \in Res : q # r => pc'[q] = "done"
    BY <1>1, <1>4 DEF AllDone
  <2> QED BY <1>4, <2>1 DEF OrderInv, Res, AttWork, Work, HeldStep, Finished, Deletion
<1>5. CASE /\ ~destroying /\ pc[r] # "done" /\ pc'[r] # "gone"
           /\ pc[r] \in Finished => pc'[r] \in Finished
  <2>1. \A q \in Res : pc'[q] # "gone"
    BY <1>1, <1>5 DEF OrderInv
  <2>2. /\ pc'.net = pc.net /\ pc'.att = pc.att /\ pc'.snat = pc.snat
        /\ pc.att \notin AttWork /\ (pc.att = "done" => pc.snat = "done")
    BY <1>1, <1>5 DEF OrderInv, Res
  <2>3. pc.snat = "done" => pc'.nat \in Finished /\ pc'.eip \in Finished
    BY <1>1, <1>5 DEF OrderInv, Res
  <2> QED BY <1>5, <2>1, <2>2, <2>3 DEF OrderInv
<1> QED BY <1>2, <1>3, <1>4, <1>5 DEF Turn

NatKeeps ==
    /\ CloudType' /\ EngineType' /\ (\E step : Moves("nat", step))
    /\ NatLeaves /\ Turn("nat")
    /\ NatInv' /\ CloudInv' /\ NetInv' /\ SnatInv'

\* Nothing but the step of the handler changes.
LEMMA NatGoes ==
    ASSUME StateInv, UNCHANGED <<cloud, engine, history>>, NEW step, Moves("nat", step),
           Turn("nat"), pc'.nat \in Work => pc.nat \in Work,
           NatHold'
    PROVE  NatKeeps
<1>1. /\ UNCHANGED <<net, nat, eip, snat>>
      /\ UNCHANGED <<want, gen, retire, saved, outgoing, destroying, touched, released>>
  BY DEF cloud, engine, history
<1>2. CloudType' /\ EngineType'
  BY <1>1, TypeParts DEF StateInv, CloudType, EngineType
<1>3. NatInv'
  BY <1>1 DEF StateInv, NatInv, LiveNat, Line, Live
<1>4. NetApart /\ SnatApart
  BY <1>1 DEF NetApart, SnatApart, Moves, Res, LiveNat, Live
<1>5. CloudInv' /\ NetInv' /\ SnatInv'
  BY <1>1, <1>4, CloudSame, NetSame, SnatSame DEF StateInv
<1>6. NatLeaves
  BY <1>1 DEF NatLeaves, history
<1> QED BY <1>2, <1>3, <1>5, <1>6 DEF NatKeeps

LEMMA NatWork ==
    ASSUME StateInv, pc.nat \in Work
    PROVE  ~destroying /\ "nat" \notin retire /\ net.status \notin {"unborn", "Deleting", "gone"}
<1>1. pc.nat \notin Ending /\ pc.nat \notin Waiting
  BY DEF Work, HeldStep, Ending, Waiting, Deletion
<1>2. ~destroying
  BY <1>1 DEF StateInv, OrderInv, Res
<1> QED BY <1>1, <1>2 DEF StateInv, NatInv, NatHold, NetInv

LEMMA ObserveNatKeeps ==
    ASSUME StateInv, ObserveNat
    PROVE  NatKeeps
<1>1. /\ pc.nat = "observe" /\ UNCHANGED <<cloud, engine, history, upsets>>
      /\ TypeOK /\ EngineType
  BY TypeParts DEF ObserveNat, StateInv
<1>2. ~destroying /\ "nat" \notin retire
  BY <1>1, NatWork DEF Work
<1>3. \A n \in FoundNat : n \in LiveNat /\ nat[n].gen = gen.nat
  BY DEF FoundNat, StateInv, NatInv, Line
<1>4. CASE Goto("nat", "create") /\ UNCHANGED cur
  <2>1. Moves("nat", "create") /\ pc'.nat = "create"
    BY <1>1, <1>4, GotoType DEF Moves, TypeOK, Cur, Res, Step
  <2>2. Turn("nat")
    BY <1>1, <1>2, <2>1 DEF Turn, Finished, Deletion
  <2>3. NatHold'
    BY <1>1, <1>2, <2>1 DEF NatHold, engine, HeldStep, Deletion
  <2> QED BY <1>1, <2>1, <2>2, <2>3, NatGoes DEF Work
<1>5. CASE Fail("nat")
  <2>1. Moves("nat", "failed") /\ pc'.nat = "failed"
    BY <1>1, <1>5, EndType DEF Moves, Fail, TypeOK, Res, Step, Rest
  <2>2. Turn("nat")
    BY <1>1, <1>2, <2>1 DEF Turn, Finished, Deletion
  <2>3. NatHold'
    BY <1>1, <1>2, <2>1 DEF NatHold, engine, HeldStep, Deletion
  <2> QED BY <1>1, <2>1, <2>2, <2>3, NatGoes DEF Work
<1>6. ASSUME NEW n \in FoundNat, cur' = [cur EXCEPT !.nat = n], Goto("nat", "tune")
      PROVE  NatKeeps
  <2>1. n \in LiveNat /\ nat[n].gen = gen.nat /\ n \in Ngw
    BY <1>3 DEF LiveNat
  <2>2. pc'.nat = "tune" /\ \A q \in Res : q # "nat" => pc'[q] = pc[q]
    BY <1>1, <1>6, GotoType DEF Res, Step
  <2>3. cur' \in Cur /\ cur'.nat = n /\ cur'.eip = cur.eip /\ cur'.snat = cur.snat
    BY <1>1, <1>6, <2>1 DEF TypeOK, Cur
  <2>4. pc' \in [Res -> Step]
    BY <1>1, <1>6, GotoType DEF Res, Step
  <2>5. Turn("nat")
    BY <1>1, <1>2, <2>2 DEF Turn, Finished, Deletion
  <2>6. Moves("nat", "tune")
    BY <1>1, <2>2, <2>3, <2>4 DEF Moves, TypeOK
  <2>7. NatHold'
    BY <1>1, <1>2, <2>1, <2>2, <2>3, NoneAssumption
    DEF NatHold, engine, cloud, HeldStep, Deletion, LiveNat, Live
  <2> QED BY <1>1, <2>5, <2>6, <2>7, NatGoes DEF Work
<1> QED BY <1>1, <1>4, <1>5, <1>6 DEF ObserveNat

\* The gateways change, and nothing else but the handler's step.
LEMMA NatChanges ==
    ASSUME StateInv, UNCHANGED <<net, eip, snat, engine, history>>, nat' \in [Ngw -> Gateway],
           NEW step, Moves("nat", step),
           \A n \in Ngw, e \in Eip : eip[e].on = n => nat'[n].status = "Available"
    PROVE  CloudType' /\ EngineType' /\ NatLeaves /\ CloudInv' /\ SnatInv'
<1>1. UNCHANGED <<want, gen, retire, saved, outgoing, destroying, touched, released>>
  BY DEF engine, history
<1>2. CloudType' /\ EngineType'
  BY <1>1, TypeParts DEF StateInv, CloudType, EngineType
<1>3. CloudInv'
  BY DEF StateInv, CloudInv, LiveSnat, Live
<1>4. SnatApart
  BY <1>1 DEF SnatApart, Moves, Res
<1>5. SnatInv'
  BY <1>1, <1>4, SnatSame DEF StateInv
<1> QED BY <1>1, <1>2, <1>3, <1>5 DEF NatLeaves, history

LEMMA NatAges ==
    ASSUME StateInv, UNCHANGED <<net, eip, snat, engine, history>>, nat' \in [Ngw -> Gateway],
           NEW step, Moves("nat", step), Turn("nat"), NatHold',
           pc'.nat \in Work => pc.nat \in Work,
           Ages(nat, nat', Ngw),
           \A n \in Ngw : /\ nat'[n].place = nat[n].place
                          /\ Live(nat[n]) => Live(nat'[n])
                          /\ nat'[n].status = "Deleting" /\ nat[n].gen = gen.nat => destroying
                          /\ \A e \in Eip : eip[e].on = n => nat'[n].status = "Available"
    PROVE  NatKeeps
<1>1. UNCHANGED <<want, gen, retire, saved, outgoing, destroying, touched, released>>
  BY DEF engine, history
<1>2. CloudType' /\ EngineType' /\ NatLeaves /\ CloudInv' /\ SnatInv'
  BY NatChanges
<1>3. LiveNat' = LiveNat /\ \A n \in Ngw : nat'[n].gen = nat[n].gen
  BY DEF LiveNat, Ages
<1>4. NetInv'
  BY <1>1, <1>3, NetSame DEF StateInv, NetApart, Moves, Res
<1>5. Line(nat', Ngw, gen.nat, saved.nat, outgoing.nat, destroying, released)
  <2>1. /\ saved.nat \in Ngw \cup {None} /\ outgoing.nat \in Ngw \cup {None}
        /\ destroying \in BOOLEAN
    BY DEF StateInv, TypeOK
  <2> QED BY <2>1, NoneAssumption, LineAges DEF StateInv, NatInv
<1>6. NatInv'
  BY <1>1, <1>3, <1>5 DEF StateInv, NatInv, LiveNat
<1> QED BY <1>2, <1>4, <1>6 DEF NatKeeps

LEMMA CreateNatGatewayKeeps ==
    ASSUME StateInv, CreateNatGateway
    PROVE  NatKeeps
<1>1. pc.nat = "create" /\ UNCHANGED <<engine, history>> /\ TypeOK
  BY DEF CreateNatGateway, StateInv
<1>2. /\ ~destroying /\ "nat" \notin retire
      /\ net.status \notin {"unborn", "Deleting", "gone"}
  BY <1>1, NatWork DEF Work
<1>3. UNCHANGED <<want, gen, retire, saved, outgoing, destroying, touched, released>>
  BY <1>1 DEF engine, history
<1>4. ASSUME Lost("nat"), UNCHANGED cloud
      PROVE  NatKeeps
  <2>1. Moves("nat", "created") /\ pc'.nat \in {"create", "failed"}
    BY <1>1, <1>4, LostMoves DEF Res, Step
  <2>2. Turn("nat") /\ NatHold'
    BY <1>1, <1>2, <1>3, <2>1 DEF Turn, Finished, Deletion, NatHold, HeldStep
  <2> QED BY <1>1, <1>4, <2>1, <2>2, NatGoes DEF Work
<1>5. ASSUME NEW n \in Ngw, CreateNat(n),
             \/ cur' = [cur EXCEPT !.nat = n] /\ Goto("nat", "created") /\ Calm
             \/ Lost("nat")
      PROVE  NatKeeps
  <2> DEFINE bought == { m \in LiveNat : nat[m].gen = gen.nat }
             new == [status |-> "Pending", gen |-> gen.nat, place |-> want.place, tuned |-> TRUE]
  <2>1. /\ Moves("nat", "created") /\ pc'.nat \in {"created", "create", "failed"}
        /\ pc'.nat = "created" => cur'.nat = n
    <3>1. CASE cur' = [cur EXCEPT !.nat = n] /\ Goto("nat", "created") /\ Calm
      BY <1>1, <3>1, GotoType, UpsetType DEF Moves, TypeOK, Cur, Res, Step
    <3>2. CASE Lost("nat")
      BY <1>1, <3>2, LostMoves DEF Res, Step
    <3> QED BY <1>5, <3>1, <3>2
  <2>2. Turn("nat")
    BY <1>1, <1>2, <2>1 DEF Turn, Finished, Deletion
  <2>3. n # None
    BY NoneAssumption
  <2>4. n \in bought \/ (bought = {} /\ nat[n].status = "unborn")
    BY <1>5, FreshType DEF CreateNat
  <2>5. CASE Live(nat[n])
    <3>1. UNCHANGED cloud /\ nat[n].gen = gen.nat /\ nat[n].status # "unborn"
      BY <1>5, <2>4, <2>5 DEF CreateNat, Live
    <3>2. NatHold'
      BY <1>1, <1>2, <1>3, <2>1, <2>3, <3>1 DEF NatHold, HeldStep, Deletion, cloud
    <3> QED BY <1>1, <2>1, <2>2, <3>1, <3>2, NatGoes DEF Work
  <2>6. CASE ~Live(nat[n])
    <3>1. SetNat(n, new) /\ nat[n].status = "unborn" /\ bought = {}
      BY <1>5, <2>4, <2>6 DEF CreateNat, LiveNat
    <3>2. new \in Gateway
      BY <1>1 DEF TypeOK, Gateway, Status
    <3>3. /\ UNCHANGED <<net, eip, snat>> /\ nat' \in [Ngw -> Gateway]
          /\ \A m \in Ngw : nat'[m] = IF m = n THEN new ELSE nat[m]
      BY <1>1, <3>1, <3>2, SetNatType
    <3>4. \A m \in Ngw, e \in Eip : eip[e].on = m => nat'[m].status = "Available"
      BY <3>1, <3>3 DEF StateInv, CloudInv
    <3>5. CloudType' /\ EngineType' /\ NatLeaves /\ CloudInv' /\ SnatInv'
      BY <1>1, <2>1, <3>3, <3>4, NatChanges
    <3>6. Line(nat', Ngw, gen.nat, saved.nat, outgoing.nat, destroying, released)
      <4>1. /\ saved.nat \in Ngw \cup {None} /\ outgoing.nat \in Ngw \cup {None}
            /\ gen.nat \in Nat
        BY <1>1 DEF TypeOK, Generation
      <4>2. Line(nat, Ngw, gen.nat, saved.nat, outgoing.nat, destroying, released)
        BY DEF StateInv, NatInv
      <4>3. Live(nat'[n]) /\ nat'[n].gen = gen.nat /\ \A m \in Ngw : m # n => nat'[m] = nat[m]
        BY <3>3 DEF Live
      <4>4. \A m \in Ngw : Live(nat[m]) => nat[m].gen # gen.nat
        BY <3>1 DEF LiveNat
      <4> QED BY <1>2, <3>1, <4>1, <4>2, <4>3, <4>4, NoneAssumption, LineBirth
    <3>7. NatHold'
      BY <1>1, <1>2, <1>3, <2>1, <2>3, <3>3 DEF NatHold, HeldStep, Deletion
    <3>8. NatInv'
      <4>1. \A m \in Ngw : nat'[m].status = "Deleting" /\ nat'[m].gen = gen.nat => destroying
        BY <1>2, <3>3 DEF StateInv, NatInv
      <4>2. \A m \in LiveNat' : nat'[m].gen = gen.nat => nat'[m].place = want.place
        BY <3>1, <3>3 DEF LiveNat
      <4> QED BY <1>2, <1>3, <3>6, <3>7, <4>1, <4>2 DEF NatInv
    <3>9. NetInv'
      BY <1>1, <1>2, <1>3, <2>1, <3>3 DEF StateInv, NetInv, Moves, Res, Work
    <3> QED BY <2>1, <2>2, <3>5, <3>8, <3>9 DEF NatKeeps
  <2> QED BY <2>5, <2>6
<1> QED BY <1>4, <1>5 DEF CreateNatGateway

LEMMA AwaitNatKeeps ==
    ASSUME StateInv, AwaitNat
    PROVE  NatKeeps
<1>1. /\ pc.nat = "created" /\ UNCHANGED <<engine, history>> /\ TypeOK
      /\ Wait("nat", nat[cur.nat].status = "Available", NatBusy(cur.nat), "tune")
  BY DEF AwaitNat, StateInv
<1>2. /\ Moves("nat", "tune") /\ Holds("nat") /\ UNCHANGED cloud
      /\ pc'.nat \in {"tune", "failed"}
  BY <1>1, WaitMoves DEF Res, Step
<1>3. ~destroying /\ "nat" \notin retire
  BY <1>1, NatWork DEF Work, HeldStep
<1>4. Turn("nat")
  BY <1>1, <1>2, <1>3 DEF Turn, Finished, Deletion
<1>5. NatHold'
  BY <1>1, <1>2, <1>3 DEF StateInv, NatInv, NatHold, Holds, HeldStep, Deletion, engine, cloud
<1> QED BY <1>1, <1>2, <1>4, <1>5, NatGoes DEF Work, HeldStep

LEMMA TuneNatKeeps ==
    ASSUME StateInv, TuneNat
    PROVE  NatKeeps
<1> DEFINE n == cur.nat
           new == [nat[n] EXCEPT !.tuned = TRUE]
<1>1. pc.nat = "tune" /\ UNCHANGED <<engine, history>> /\ TypeOK
  BY DEF TuneNat, StateInv
<1>2. ~destroying /\ "nat" \notin retire
  BY <1>1, NatWork DEF Work, HeldStep
<1>3. \/ Proceed("nat", "final") /\ UNCHANGED cloud
      \/ Call("nat", Live(nat[n]), SetNat(n, new), "final")
  BY DEF TuneNat
<1>4. Moves("nat", "final") /\ Holds("nat") /\ (SetNat(n, new) \/ UNCHANGED cloud)
  BY <1>1, <1>3, ProceedMoves, CallMoves DEF Holds, Res, Step, Rest
<1>5. /\ pc'.nat \in {"final", "tune", "failed"}
      /\ pc'.nat \in {"final", "tune"} => cur' = cur
  BY <1>1, <1>4 DEF Moves, Holds
<1>6. Turn("nat")
  BY <1>1, <1>2, <1>5 DEF Turn, Finished, Deletion
<1>7. n \in Ngw /\ nat[n].status # "unborn" /\ nat[n].gen = gen.nat
  BY <1>1 DEF StateInv, NatInv, NatHold, HeldStep, TypeOK
<1>8. CASE UNCHANGED cloud
  <2>1. NatHold'
    BY <1>1, <1>2, <1>5, <1>7, <1>8, NoneAssumption DEF NatHold, HeldStep, Deletion, engine, cloud
  <2> QED BY <1>1, <1>4, <1>5, <1>6, <1>8, <2>1, NatGoes DEF Work, HeldStep
<1>9. CASE SetNat(n, new)
  <2>1. nat[n] \in Gateway
    BY <1>1, <1>7 DEF TypeOK
  <2>2. new \in Gateway /\ new.gen = nat[n].gen /\ new.status = nat[n].status /\ new.place = nat[n].place
    BY <2>1 DEF Gateway
  <2> HIDE DEF new
  <2>3. /\ UNCHANGED <<net, eip, snat>> /\ nat' \in [Ngw -> Gateway]
        /\ \A m \in Ngw : nat'[m] = IF m = n THEN new ELSE nat[m]
    BY <1>1, <1>9, <2>2, SetNatType
  <2>4. \A m \in Ngw : /\ nat'[m].gen = nat[m].gen /\ nat'[m].status = nat[m].status
                       /\ nat'[m].place = nat[m].place
    BY <2>2, <2>3
  <2>5. NatHold'
    BY <1>1, <1>2, <1>5, <1>7, <2>4, NoneAssumption DEF NatHold, HeldStep, Deletion, engine
  <2>6. \A m \in Ngw : /\ nat'[m].status = "Deleting" /\ nat[m].gen = gen.nat => destroying
                       /\ \A e \in Eip : eip[e].on = m => nat'[m].status = "Available"
    BY <2>4 DEF StateInv, NatInv, CloudInv
  <2>7. Ages(nat, nat', Ngw) /\ \A m \in Ngw : Live(nat[m]) => Live(nat'[m])
    BY <2>4 DEF Ages, Live
  <2> QED BY <1>1, <1>4, <1>5, <1>6, <2>3, <2>4, <2>5, <2>6, <2>7, NatAges DEF Work, HeldStep
<1> QED BY <1>4, <1>8, <1>9

\* The handler registers something: the entries know their gateway by its output.
LEMMA NatRegisters ==
    ASSUME StateInv, UNCHANGED cloud, NatLeaves, NEW step, Moves("nat", step),
           pc.snat \notin HeldStep,
           ~Removed => \A s \in LiveSnat : snat[s].gen = gen.snat =>
               snat[s].table = saved'.nat /\ "nat" \notin retire'
    PROVE  CloudType' /\ CloudInv' /\ SnatInv'
<1>1. UNCHANGED <<net, nat, eip, snat>> /\ UNCHANGED <<destroying, released>>
  BY DEF cloud, NatLeaves, history
<1>2. CloudType' /\ CloudInv'
  BY <1>1, CloudSame, TypeParts DEF StateInv, CloudType
<1>3. /\ pc'.snat = pc.snat /\ cur'.snat = cur.snat /\ gen'.snat = gen.snat
      /\ saved'.snat = saved.snat /\ saved'.table = saved.table
      /\ "snat" \in retire' <=> "snat" \in retire
      /\ "table" \in retire' <=> "table" \in retire
  BY DEF Moves, Res, NatLeaves
<1>4. Removed' <=> Removed
  BY <1>1, <1>3 DEF Removed
<1>5. LiveSnat' = LiveSnat
  BY <1>1 DEF LiveSnat, Live
<1>6. SnatHold'
  BY <1>1, <1>3, <1>4, <1>5 DEF StateInv, SnatInv, SnatHold
<1>7. Line(snat, Snat, gen.snat, saved.snat, None, Removed', released)
  BY <1>4 DEF StateInv, SnatInv, Line
<1>8. SnatInv'
  BY <1>1, <1>3, <1>4, <1>5, <1>6, <1>7 DEF StateInv, SnatInv
<1> QED BY <1>2, <1>8

\* An entry that is live is in a gateway that is live.
LEMMA EntryInGateway ==
    ASSUME CloudInv, NEW s \in LiveSnat
    PROVE  /\ snat[s].table \in LiveNat /\ nat[snat[s].table].status = "Available"
           /\ snat[s].ip \in LiveEip /\ eip[snat[s].ip].on = snat[s].table
           /\ eip[snat[s].ip].status = "InUse"
BY DEF CloudInv, LiveNat, LiveEip, LiveSnat, Live

LEMMA FinalNatKeeps ==
    ASSUME StateInv, FinalNat
    PROVE  NatKeeps
<1> DEFINE n == cur.nat
<1>1. /\ pc.nat = "final" /\ TypeOK
      /\ UNCHANGED <<cloud, want, gen, retire, outgoing, destroying, history>>
  BY DEF FinalNat, StateInv
<1>2. ~destroying /\ "nat" \notin retire
  BY <1>1, NatWork DEF Work, HeldStep
<1>3. CASE Fail("nat") /\ (IF NatBusy(n) THEN Upset ELSE Calm) /\ UNCHANGED saved
  <2>1. Upset \/ Calm
    BY <1>3
  <2>2. Moves("nat", "failed") /\ pc'.nat = "failed"
    BY <1>1, <1>3, <2>1, FailMoves DEF Res
  <2>3. Turn("nat") /\ UNCHANGED engine
    BY <1>1, <1>2, <1>3, <2>2 DEF Turn, Finished, Deletion, engine
  <2>4. NatHold'
    BY <1>1, <1>2, <1>3, <2>2 DEF NatHold, HeldStep, Deletion
  <2> QED BY <1>1, <2>2, <2>3, <2>4, NatGoes DEF Work, HeldStep
<1>4. CASE NatFits(n) /\ End("nat", "done") /\ Calm /\ saved' = [saved EXCEPT !.nat = n]
  <2>1. n \in Ngw /\ nat[n].gen = gen.nat /\ n # None
    BY <1>1, NoneAssumption DEF StateInv, NatInv, NatHold, HeldStep, TypeOK
  <2>2. Live(nat[n]) /\ n \in LiveNat
    BY <1>4, <2>1 DEF NatFits, Live, LiveNat
  <2>3. /\ Moves("nat", "done") /\ pc'.nat = "done"
    BY <1>1, <1>4, EndType, UpsetType DEF Moves, Res, Step, Rest
  <2>4. /\ saved \in Output /\ saved' \in Output /\ saved'.nat = n
        /\ saved'.eip = saved.eip /\ saved'.attEip = saved.attEip /\ saved'.attNat = saved.attNat
        /\ saved'.snat = saved.snat /\ saved'.table = saved.table
    BY <1>1, <1>4, <2>1, TypeParts DEF Output, EngineType
  <2>5. EngineType'
    BY <1>1, <2>4, TypeParts DEF EngineType
  <2>6. NatLeaves
    BY <1>1, <2>4 DEF NatLeaves, cloud, history
  <2>7. Turn("nat")
    BY <1>1, <1>2, <2>3 DEF Turn, Finished
  <2>8. NatInv'
    <3>1. Line(nat, Ngw, gen.nat, n, outgoing.nat, destroying, released)
      BY <2>1, <2>2, LineSave DEF StateInv, NatInv
    <3>2. NatHold'
      BY <1>1, <1>2, <2>1, <2>3, <2>4 DEF NatHold, HeldStep, Deletion
    <3> QED BY <1>1, <2>4, <3>1, <3>2 DEF StateInv, NatInv, cloud, history, LiveNat, Live
  <2>9. NetInv'
    BY <1>1, <2>3, NetSame DEF StateInv, NetApart, cloud, Moves, Res, LiveNat, Live, Work, HeldStep
  <2>10. pc.snat \notin HeldStep
    BY <1>1, <1>2 DEF StateInv, OrderInv, Work, HeldStep
  <2>11. ASSUME ~Removed, NEW s \in LiveSnat, snat[s].gen = gen.snat
         PROVE  snat[s].table = saved'.nat /\ "nat" \notin retire'
    <3>1. snat[s].table = saved.nat /\ saved.nat \in LiveNat
      BY <2>11, EntryInGateway DEF StateInv, SnatInv
    <3>2. nat[saved.nat].gen = gen.nat
      BY <3>1, NoneAssumption DEF StateInv, NatInv, Line, LiveNat
    <3>3. saved.nat = n
      BY <2>1, <2>2, <3>1, <3>2 DEF StateInv, NatInv, Line, LiveNat
    <3> QED BY <1>1, <1>2, <2>4, <3>1, <3>3
  <2>12. CloudType' /\ CloudInv' /\ SnatInv'
    BY <1>1, <2>3, <2>6, <2>10, <2>11, NatRegisters
  <2> QED BY <2>3, <2>5, <2>6, <2>7, <2>8, <2>9, <2>12 DEF NatKeeps
<1> QED BY <1>3, <1>4 DEF FinalNat

LEMMA StartDeleteNatKeeps ==
    ASSUME StateInv, StartDeleteNat
    PROVE  NatKeeps
<1> DEFINE n == IF outgoing.nat # None THEN outgoing.nat ELSE saved.nat
<1>1. /\ UNCHANGED <<cloud, engine, history, upsets>> /\ TypeOK /\ EngineType
      /\ cur' = [cur EXCEPT !.nat = n] /\ Goto("nat", "dRead")
  BY TypeParts DEF StartDeleteNat, StateInv
<1>2. /\ destroying => pc.nat = "idle"
      /\ ~destroying => outgoing.nat # None /\ AllDone
  BY DEF StartDeleteNat
<1>3. n \in Ngw \cup {None}
  BY <1>1 DEF EngineType, Output
<1> HIDE DEF n
<1>4. /\ pc' \in [Res -> Step] /\ pc'.nat = "dRead" /\ \A q \in Res : q # "nat" => pc'[q] = pc[q]
  BY <1>1, GotoType DEF Res, Step
<1>5. cur' \in Cur /\ cur'.nat = n /\ cur'.eip = cur.eip /\ cur'.snat = cur.snat
  BY <1>1, <1>3 DEF TypeOK, Cur
<1>6. Moves("nat", "dRead")
  BY <1>1, <1>4, <1>5 DEF Moves, TypeOK
<1>7. Turn("nat")
  BY <1>2, <1>4 DEF Turn, Ending, Deletion
<1>8. "nat" \notin retire
  <2>1. CASE destroying
    BY <2>1 DEF StateInv, OrderInv
  <2>2. CASE AllDone
    BY <2>2 DEF StateInv, NatInv, NatHold, AllDone, Res, Waiting
  <2> QED BY <1>2, <2>1, <2>2
<1>9. ~destroying => saved.nat # None
  BY <1>2 DEF StateInv, NatInv, NatHold, AllDone, Res
<1>10. NatHold'
  BY <1>1, <1>2, <1>4, <1>5, <1>8, <1>9 DEF NatHold, HeldStep, Deletion, engine, n
<1> QED BY <1>1, <1>4, <1>6, <1>7, <1>10, NatGoes DEF Work, HeldStep

LEMMA DeleteNatGatewayKeeps ==
    ASSUME StateInv, DeleteNatGateway
    PROVE  NatKeeps
<1> DEFINE n == cur.nat
           new == [nat[n] EXCEPT !.status = "Deleting"]
<1>1. pc.nat = "dRead" /\ UNCHANGED <<engine, history>> /\ TypeOK
  BY DEF DeleteNatGateway, StateInv
<1>2. /\ n = IF outgoing.nat # None THEN outgoing.nat ELSE saved.nat
      /\ destroying \/ outgoing.nat # None
      /\ "nat" \notin retire /\ (~destroying => saved.nat # None)
  BY <1>1 DEF StateInv, NatInv, NatHold, Deletion, Waiting
<1>3. \/ Proceed("nat", "dAbsent") /\ UNCHANGED cloud
      \/ n \in LiveNat /\ Call("nat", CanDeleteNat(n), SetNat(n, new), "dAbsent")
  BY DEF DeleteNatGateway
<1>4. /\ Moves("nat", "dAbsent") /\ Holds("nat")
      /\ (n \in LiveNat /\ CanDeleteNat(n) /\ SetNat(n, new)) \/ UNCHANGED cloud
  BY <1>1, <1>3, ProceedMoves, CallMoves DEF Holds, Res, Step, Rest
<1>5. /\ pc'.nat \in {"dRead", "dAbsent", "failed"}
      /\ pc'.nat \in {"dRead", "dAbsent"} => cur' = cur
  BY <1>1, <1>4 DEF Moves, Holds
<1>6. Turn("nat")
  BY <1>1, <1>5 DEF Turn, Finished, Ending, Deletion
<1>7. NatHold'
  BY <1>1, <1>2, <1>5 DEF NatHold, HeldStep, Deletion, engine
<1>8. CASE UNCHANGED cloud
  BY <1>1, <1>4, <1>5, <1>6, <1>7, <1>8, NatGoes DEF Work, HeldStep
<1>9. CASE n \in LiveNat /\ CanDeleteNat(n) /\ SetNat(n, new)
  <2>1. nat[n] \in Gateway /\ n \in Ngw
    BY <1>1, <1>9 DEF TypeOK, LiveNat
  <2>2. new \in Gateway /\ new.gen = nat[n].gen /\ new.status = "Deleting" /\ new.place = nat[n].place
    BY <2>1 DEF Gateway, Status
  <2> HIDE DEF new
  <2>3. /\ UNCHANGED <<net, eip, snat>> /\ nat' \in [Ngw -> Gateway]
        /\ \A m \in Ngw : nat'[m] = IF m = n THEN new ELSE nat[m]
    BY <1>1, <1>9, <2>2, SetNatType
  <2>4. \A m \in Ngw : /\ nat'[m].gen = nat[m].gen /\ nat'[m].place = nat[m].place
                       /\ nat'[m].status = IF m = n THEN "Deleting" ELSE nat[m].status
    BY <2>2, <2>3
  <2>5. \A m \in Ngw : nat'[m].status = "Deleting" /\ nat[m].gen = gen.nat => destroying
    <3>1. ~destroying => nat[n].gen # gen.nat
      <4>1. ~destroying => n = outgoing.nat /\ outgoing.nat # None
        BY <1>2
      <4>2. nat[n].gen \in Nat /\ gen.nat \in Nat
        BY <1>1, <2>1 DEF Gateway, Generation, TypeOK
      <4> QED BY <4>1, <4>2 DEF StateInv, NatInv, Line
    <3> QED BY <2>4, <3>1 DEF StateInv, NatInv
  <2>6. \A m \in Ngw : \A e \in Eip : eip[e].on = m => nat'[m].status = "Available"
    <3> TAKE m \in Ngw
    <3> TAKE e \in Eip
    <3> HAVE eip[e].on = m
    <3>1. e \in LiveEip /\ nat[m].status = "Available"
      BY NoneAssumption DEF StateInv, CloudInv, LiveEip, Live
    <3>2. m # n
      BY <1>9, <3>1 DEF CanDeleteNat
    <3> QED BY <2>4, <3>1, <3>2
  <2>7. Ages(nat, nat', Ngw) /\ \A m \in Ngw : Live(nat[m]) => Live(nat'[m])
    BY <1>9, <2>4 DEF Ages, Live, LiveNat
  <2> QED BY <1>1, <1>4, <1>5, <1>6, <1>7, <2>3, <2>4, <2>5, <2>6, <2>7, NatAges DEF Work, HeldStep
<1> QED BY <1>4, <1>8, <1>9

LEMMA NatAbsentKeeps ==
    ASSUME StateInv, NatAbsent
    PROVE  NatKeeps
<1>1. /\ pc.nat = "dAbsent" /\ TypeOK
      /\ UNCHANGED <<cloud, want, gen, retire, saved, destroying, history>>
  BY DEF NatAbsent, StateInv
<1>2. /\ cur.nat = IF outgoing.nat # None THEN outgoing.nat ELSE saved.nat
      /\ destroying \/ outgoing.nat # None
      /\ "nat" \notin retire /\ (~destroying => saved.nat # None)
  BY <1>1 DEF StateInv, NatInv, NatHold, Deletion, Waiting
<1>3. CASE Fail("nat") /\ Upset /\ UNCHANGED outgoing
  <2>1. Moves("nat", "failed") /\ pc'.nat = "failed"
    BY <1>1, <1>3, FailMoves DEF Res
  <2>2. Turn("nat") /\ UNCHANGED engine
    BY <1>1, <1>3, <2>1 DEF Turn, Finished, Ending, Deletion, engine
  <2>3. NatHold'
    BY <1>1, <1>2, <1>3, <2>1 DEF NatHold, HeldStep, Deletion
  <2> QED BY <1>1, <2>1, <2>2, <2>3, NatGoes DEF Work, HeldStep
<1>4. CASE /\ cur.nat \notin LiveNat /\ Calm
           /\ End("nat", IF ~destroying THEN "done"
                         ELSE IF outgoing.nat # None THEN "idle" ELSE "gone")
           /\ outgoing' = [outgoing EXCEPT !.nat = None]
  <2> DEFINE step == IF ~destroying THEN "done"
                     ELSE IF outgoing.nat # None THEN "idle" ELSE "gone"
  <2>1. step \in Step
    BY DEF Step, Rest
  <2>2. Moves("nat", step) /\ pc'.nat = step
    <3> HIDE DEF step
    <3>1. End("nat", step)
      BY <1>4 DEF step
    <3> QED BY <1>1, <1>4, <2>1, <3>1, EndType, UpsetType DEF Moves, Res
  <2>3. /\ outgoing' \in [nat : Ngw \cup {None}, eip : Eip \cup {None}]
        /\ outgoing'.nat = None /\ outgoing'.eip = outgoing.eip
    BY <1>1, <1>4 DEF TypeOK
  <2>4. EngineType'
    BY <1>1, <2>3, TypeParts DEF EngineType
  <2>5. NatLeaves
    BY <1>1, <2>3 DEF NatLeaves, cloud, history
  <2>6. Turn("nat")
    BY <1>1, <2>2 DEF Turn, Finished, Ending, Deletion
  <2>7. NatInv'
    <3>1. outgoing.nat \in Ngw => ~Live(nat[outgoing.nat])
      BY <1>2, <1>4, NoneAssumption DEF LiveNat
    <3>2. Line(nat, Ngw, gen.nat, saved.nat, None, destroying, released)
      BY <3>1, LineDrop DEF StateInv, NatInv
    <3>3. NatHold'
      BY <1>1, <1>2, <2>2, <2>3 DEF NatHold, HeldStep, Deletion
    <3> QED BY <1>1, <2>3, <3>2, <3>3 DEF StateInv, NatInv, cloud, history, LiveNat, Live
  <2>8. NetInv'
    BY <1>1, <2>2, NetSame DEF StateInv, NetApart, cloud, Moves, Res, LiveNat, Live, Work, HeldStep
  <2>9. CloudType' /\ CloudInv'
    BY <1>1, CloudSame, TypeParts DEF StateInv, CloudType, cloud
  <2>10. SnatApart
    BY <1>1, <2>2 DEF SnatApart, Moves, Res, cloud, history
  <2>11. SnatInv'
    BY <1>1, <2>10, SnatSame DEF StateInv
  <2> QED BY <2>2, <2>4, <2>5, <2>6, <2>7, <2>8, <2>9, <2>11 DEF NatKeeps
<1> QED BY <1>3, <1>4 DEF NatAbsent

LEMMA PlanNatKeeps ==
    ASSUME StateInv, PlanNat
    PROVE  NatKeeps
<1>1. /\ pc.nat \in {"idle", "planned"} /\ pc.net = "done" /\ TypeOK
      /\ UNCHANGED <<cloud, want, destroying, cur, history, upsets>>
  BY DEF PlanNat, StateInv
<1>2. ~destroying
  BY <1>1 DEF StateInv, OrderInv, Ending, Deletion, Res
<1>3. net.status # "unborn"
  BY <1>1 DEF StateInv, NetInv
<1>4. ASSUME NEW step \in Step, Goto("nat", step)
      PROVE  Moves("nat", step) /\ pc'.nat = step
  BY <1>1, <1>4, GotoType DEF Moves, TypeOK, Cur, Res
<1>5. ASSUME NEW step \in {"done", "observe"}, Moves("nat", step), pc'.nat = step,
             net' = net, LiveNat' = LiveNat, destroying' = destroying
      PROVE  Turn("nat") /\ NetInv'
  <2>1. Turn("nat")
    BY <1>1, <1>2, <1>5 DEF Turn, Finished, Deletion
  <2>2. pc'.net = pc.net
    BY <1>5 DEF Moves, Res
  <2>3. NetInv'
    BY <1>3, <1>5, <2>2 DEF StateInv, NetInv, Live
  <2> QED BY <2>1, <2>3
<1>6. CASE "nat" \notin retire
  <2> DEFINE step == IF pc.nat = "planned" /\ saved.nat \in LiveNat /\ nat[saved.nat].tuned
                     THEN "done" ELSE "observe"
  <2>1. UNCHANGED <<cloud, engine, history>> /\ Goto("nat", step)
    BY <1>1, <1>6 DEF PlanNat, engine
  <2>2. step \in {"done", "observe"} /\ (step = "done" => saved.nat # None)
    BY NoneAssumption DEF LiveNat
  <2> HIDE DEF step
  <2>3. Moves("nat", step) /\ pc'.nat = step
    BY <1>4, <2>1, <2>2 DEF Step, Rest
  <2>4. Turn("nat") /\ NetInv'
    BY <1>5, <2>1, <2>2, <2>3 DEF cloud, engine, LiveNat, Live
  <2>5. UNCHANGED <<net, nat, eip, snat>> /\ UNCHANGED <<gen, retire, saved, outgoing>>
    BY <2>1 DEF cloud, engine
  <2>6. NatHold'
    BY <1>1, <1>2, <1>6, <2>2, <2>3, <2>5 DEF NatHold, HeldStep, Deletion
  <2>7. NatInv'
    BY <1>1, <2>5, <2>6 DEF StateInv, NatInv, LiveNat, Live, history
  <2>8. CloudType' /\ EngineType' /\ NatLeaves
    BY <1>1, <2>5, TypeParts DEF CloudType, EngineType, NatLeaves
  <2>9. SnatApart
    BY <1>1, <2>3, <2>5 DEF SnatApart, Moves, Res, history
  <2>10. CloudInv' /\ SnatInv'
    BY <2>5, <2>9, CloudSame, SnatSame DEF StateInv
  <2> QED BY <2>3, <2>4, <2>7, <2>8, <2>10 DEF NatKeeps
<1>7. CASE "nat" \in retire
  <2>1. /\ retire' = retire \ {"nat"}
        /\ outgoing' = [outgoing EXCEPT !.nat = saved.nat]
        /\ saved' = [saved EXCEPT !.nat = None]
        /\ gen' = [gen EXCEPT !.nat = @ + 1]
        /\ Goto("nat", "observe")
    BY <1>7 DEF PlanNat
  <2>2. Moves("nat", "observe") /\ pc'.nat = "observe"
    BY <1>4, <2>1 DEF Step
  <2>3. Turn("nat") /\ NetInv'
    BY <1>1, <1>5, <2>2 DEF cloud, LiveNat, Live
  <2>4. outgoing.nat = None /\ saved.nat \in Ngw
    BY <1>1, <1>7 DEF StateInv, NatInv, NatHold, TypeOK
  <2>5. /\ outgoing' \in [nat : Ngw \cup {None}, eip : Eip \cup {None}]
        /\ outgoing'.nat = saved.nat /\ outgoing'.eip = outgoing.eip
    BY <1>1, <2>1, <2>4 DEF TypeOK
  <2>6. /\ saved' \in Output /\ saved'.nat = None
        /\ saved'.eip = saved.eip /\ saved'.attEip = saved.attEip /\ saved'.attNat = saved.attNat
        /\ saved'.snat = saved.snat /\ saved'.table = saved.table
    <3>1. saved \in Output
      BY <1>1, TypeParts DEF EngineType
    <3> QED BY <2>1, <3>1 DEF Output
  <2>7. /\ gen' \in [{"nat", "eip", "snat"} -> Generation]
        /\ gen.nat \in Nat /\ gen'.nat = gen.nat + 1
        /\ gen'.eip = gen.eip /\ gen'.snat = gen.snat
    BY <1>1, <2>1 DEF TypeOK, Generation
  <2>8. EngineType'
    BY <1>1, <2>1, <2>5, <2>6, <2>7, TypeParts DEF EngineType
  <2>9. NatLeaves
    BY <1>1, <2>1, <2>5, <2>6, <2>7 DEF NatLeaves, cloud, history
  <2>10. /\ Line(nat, Ngw, gen.nat + 1, None, saved.nat, destroying, released)
         /\ \A n \in Ngw : nat[n].status # "unborn" => nat[n].gen # gen.nat + 1
    <3>1. \A n \in Ngw : nat[n].gen \in Nat
      BY <1>1 DEF TypeOK, Gateway, Generation
    <3> QED BY <1>2, <2>4, <2>7, <3>1, NoneAssumption, LineRetire DEF StateInv, NatInv
  <2>11. NatHold'
    BY <1>1, <2>1, <2>2 DEF NatHold, HeldStep, Deletion
  <2>12. NatInv'
    BY <1>1, <2>5, <2>6, <2>7, <2>10, <2>11 DEF NatInv, LiveNat, Live, cloud, history
  <2>13. pc.snat \notin HeldStep
    BY <1>1, <1>2 DEF StateInv, OrderInv, Work, HeldStep
  <2>14. ~Removed => \A s \in LiveSnat : snat[s].gen # gen.snat
    BY <1>7 DEF StateInv, SnatInv
  <2>15. CloudType' /\ CloudInv' /\ SnatInv'
    BY <1>1, <2>2, <2>9, <2>13, <2>14, NatRegisters
  <2> QED BY <2>2, <2>3, <2>8, <2>9, <2>12, <2>15 DEF NatKeeps
<1> QED BY <1>6, <1>7

LEMMA NatStepDoes ==
    ASSUME StateInv, NatStep
    PROVE  NatKeeps
BY PlanNatKeeps, ObserveNatKeeps, CreateNatGatewayKeeps, AwaitNatKeeps, TuneNatKeeps,
   FinalNatKeeps, StartDeleteNatKeeps, DeleteNatGatewayKeeps, NatAbsentKeeps
DEF NatStep

LEMMA NatStepKeeps ==
    ASSUME StateInv, NatStep
    PROVE  StateInv'
<1>1. NatKeeps
  BY NatStepDoes
<1>2. PICK step : Moves("nat", step)
  BY <1>1 DEF NatKeeps
<1>3. TypeOK'
  BY <1>1, <1>2, StepType DEF StateInv, NatKeeps, NatLeaves
<1>4. EipApart /\ SnatApart /\ saved'.eip = saved.eip
  BY <1>1, <1>2 DEF NatKeeps, NatLeaves, Moves, EipApart, SnatApart, history, Res
<1>5. EipInv' /\ FitInv'
  BY <1>4, EipSame, FitSame DEF StateInv
<1>6. OrderInv'
  BY <1>1, <1>2, OrderTurn DEF StateInv, NatKeeps, NatLeaves
<1> QED BY <1>1, <1>3, <1>5, <1>6 DEF StateInv, NatKeeps

-----------------------------------------------------------------------------
(* The addresses. *)

EipLeaves ==
    /\ UNCHANGED <<net, nat, snat, want, destroying, history>>
    /\ gen'.nat = gen.nat /\ gen'.snat = gen.snat
    /\ saved'.nat = saved.nat /\ saved'.attEip = saved.attEip /\ saved'.attNat = saved.attNat
    /\ saved'.snat = saved.snat /\ saved'.table = saved.table
    /\ saved'.eip = saved.eip \/ pc.snat # "done"
    /\ outgoing'.nat = outgoing.nat
    /\ retire' = retire \/ retire' = retire \ {"eip"}

EipKeeps ==
    /\ CloudType' /\ EngineType' /\ (\E step : Moves("eip", step))
    /\ EipLeaves /\ Turn("eip")
    /\ EipInv' /\ CloudInv'

LEMMA EipGoes ==
    ASSUME StateInv, UNCHANGED <<cloud, engine, history>>, NEW step, Moves("eip", step),
           Turn("eip"), EipHold'
    PROVE  EipKeeps
<1>1. /\ UNCHANGED <<net, nat, eip, snat>>
      /\ UNCHANGED <<want, gen, retire, saved, outgoing, destroying, touched, released>>
  BY DEF cloud, engine, history
<1>2. CloudType' /\ EngineType'
  BY <1>1, TypeParts DEF StateInv, CloudType, EngineType
<1>3. EipInv'
  BY <1>1 DEF StateInv, EipInv, LiveEip, Live
<1>4. CloudInv'
  BY <1>1, CloudSame DEF StateInv
<1>5. EipLeaves
  BY <1>1 DEF EipLeaves, history
<1> QED BY <1>2, <1>3, <1>4, <1>5 DEF EipKeeps

LEMMA EipWork ==
    ASSUME StateInv, pc.eip \in Work
    PROVE  ~destroying /\ "eip" \notin retire /\ pc.snat # "done"
<1>1. pc.eip \notin Ending /\ pc.eip \notin Waiting /\ pc.eip \notin Finished
  BY DEF Work, HeldStep, Ending, Waiting, Deletion, Finished
<1>2. ~destroying
  BY <1>1 DEF StateInv, OrderInv, Res
<1> QED BY <1>1, <1>2 DEF StateInv, EipInv, EipHold, OrderInv

\* The handler changes no address that is bound, but for its settings.
LEMMA EipChanges ==
    ASSUME StateInv, UNCHANGED <<net, nat, snat, engine, history>>, eip' \in [Eip -> Address],
           \A e \in Eip : /\ eip'[e].on = eip[e].on
                          /\ eip'[e].status = eip[e].status \/ eip[e].on = None
    PROVE  CloudType' /\ EngineType' /\ EipLeaves /\ CloudInv'
<1>1. UNCHANGED <<want, gen, retire, saved, outgoing, destroying, touched, released>>
  BY DEF engine, history
<1>2. CloudType' /\ EngineType'
  BY <1>1, TypeParts DEF StateInv, CloudType, EngineType
<1>3. CloudInv'
  <2>1. LiveSnat' = LiveSnat
    BY DEF LiveSnat, Live
  <2>2. \A e \in Eip : eip'[e].on # None => eip'[e].status = eip[e].status
    OBVIOUS
  <2>3. \A s \in LiveSnat : eip[snat[s].ip].on # None
    BY NoneAssumption DEF StateInv, CloudInv
  <2> QED BY <2>1, <2>2, <2>3, NoneAssumption DEF StateInv, CloudInv
<1> QED BY <1>1, <1>2, <1>3 DEF EipLeaves, history

LEMMA EipAges ==
    ASSUME StateInv, UNCHANGED <<engine, released>>, EipHold', Ages(eip, eip', Eip),
           \A e \in Eip : eip'[e].billing = eip[e].billing,
           \A e \in Eip : e = saved.eip /\ Live(eip[e]) => Live(eip'[e]) \/ destroying
    PROVE  EipInv'
<1>1. UNCHANGED <<want, gen, retire, saved, outgoing, destroying>>
  BY DEF engine
<1>2. LiveEip' \subseteq LiveEip /\ \A e \in Eip : eip'[e].gen = eip[e].gen
  BY DEF LiveEip, Ages
<1>3. Line(eip', Eip, gen.eip, saved.eip, outgoing.eip, destroying, released)
  <2>1. /\ saved.eip \in Eip \cup {None} /\ outgoing.eip \in Eip \cup {None}
        /\ destroying \in BOOLEAN
    BY DEF StateInv, TypeOK
  <2> QED BY <2>1, NoneAssumption, LineAges DEF StateInv, EipInv
<1> QED BY <1>1, <1>2, <1>3 DEF StateInv, EipInv, LiveEip

LEMMA ObserveEipKeeps ==
    ASSUME StateInv, ObserveEip
    PROVE  EipKeeps
<1>1. /\ pc.eip = "observe" /\ UNCHANGED <<cloud, engine, history, upsets>>
      /\ TypeOK /\ EngineType
  BY TypeParts DEF ObserveEip, StateInv
<1>2. ~destroying /\ "eip" \notin retire
  BY <1>1, EipWork DEF Work
<1>3. \A e \in FoundEip : e \in LiveEip /\ eip[e].gen = gen.eip
  BY DEF FoundEip, StateInv, EipInv, Line
<1>4. CASE Goto("eip", "create") /\ UNCHANGED cur
  <2>1. Moves("eip", "create") /\ pc'.eip = "create"
    BY <1>1, <1>4, GotoType DEF Moves, TypeOK, Cur, Res, Step
  <2>2. Turn("eip")
    BY <1>1, <1>2, <2>1 DEF Turn, Finished, Deletion
  <2>3. EipHold'
    BY <1>1, <1>2, <2>1 DEF EipHold, engine, HeldStep, Deletion
  <2> QED BY <1>1, <2>1, <2>2, <2>3, EipGoes
<1>5. ASSUME NEW e \in FoundEip, cur' = [cur EXCEPT !.eip = e], Goto("eip", "tune")
      PROVE  EipKeeps
  <2>1. e \in LiveEip /\ eip[e].gen = gen.eip /\ e \in Eip
    BY <1>3 DEF LiveEip
  <2>2. /\ pc' \in [Res -> Step] /\ pc'.eip = "tune"
        /\ \A q \in Res : q # "eip" => pc'[q] = pc[q]
    BY <1>1, <1>5, GotoType DEF Res, Step
  <2>3. cur' \in Cur /\ cur'.eip = e /\ cur'.nat = cur.nat /\ cur'.snat = cur.snat
    BY <1>1, <1>5, <2>1 DEF TypeOK, Cur
  <2>4. Turn("eip")
    BY <1>1, <1>2, <2>2 DEF Turn, Finished, Deletion
  <2>5. Moves("eip", "tune")
    BY <1>1, <2>2, <2>3 DEF Moves, TypeOK
  <2>6. EipHold'
    BY <1>1, <1>2, <2>1, <2>2, <2>3, NoneAssumption
    DEF EipHold, engine, cloud, HeldStep, Deletion, LiveEip, Live
  <2> QED BY <1>1, <2>4, <2>5, <2>6, EipGoes
<1> QED BY <1>1, <1>4, <1>5 DEF ObserveEip

LEMMA AllocateEipAddressKeeps ==
    ASSUME StateInv, AllocateEipAddress
    PROVE  EipKeeps
<1>1. pc.eip = "create" /\ UNCHANGED <<engine, history>> /\ TypeOK
  BY DEF AllocateEipAddress, StateInv
<1>2. ~destroying /\ "eip" \notin retire
  BY <1>1, EipWork DEF Work
<1>3. UNCHANGED <<want, gen, retire, saved, outgoing, destroying, touched, released>>
  BY <1>1 DEF engine, history
<1>4. ASSUME Lost("eip"), UNCHANGED cloud
      PROVE  EipKeeps
  <2>1. Moves("eip", "created") /\ pc'.eip \in {"create", "failed"}
    BY <1>1, <1>4, LostMoves DEF Res, Step
  <2>2. Turn("eip") /\ EipHold'
    BY <1>1, <1>2, <1>3, <2>1 DEF Turn, Finished, Deletion, EipHold, HeldStep
  <2> QED BY <1>1, <1>4, <2>1, <2>2, EipGoes
<1>5. ASSUME NEW e \in Eip, AllocateEip(e),
             \/ cur' = [cur EXCEPT !.eip = e] /\ Goto("eip", "created") /\ Calm
             \/ Lost("eip")
      PROVE  EipKeeps
  <2> DEFINE bought == { f \in LiveEip : eip[f].gen = gen.eip }
             new == [status |-> "Available", gen |-> gen.eip, billing |-> want.billing,
                     tuned |-> TRUE, on |-> None]
  <2>1. /\ Moves("eip", "created") /\ pc'.eip \in {"created", "create", "failed"}
        /\ pc'.eip = "created" => cur'.eip = e
    <3>1. CASE cur' = [cur EXCEPT !.eip = e] /\ Goto("eip", "created") /\ Calm
      BY <1>1, <3>1, GotoType, UpsetType DEF Moves, TypeOK, Cur, Res, Step
    <3>2. CASE Lost("eip")
      BY <1>1, <3>2, LostMoves DEF Res, Step
    <3> QED BY <1>5, <3>1, <3>2
  <2>2. Turn("eip")
    BY <1>1, <1>2, <2>1 DEF Turn, Finished, Deletion
  <2>3. e # None
    BY NoneAssumption
  <2>4. e \in bought \/ (bought = {} /\ eip[e].status = "unborn")
    BY <1>5, FreshType DEF AllocateEip
  <2>5. CASE Live(eip[e])
    <3>1. UNCHANGED cloud /\ eip[e].gen = gen.eip /\ eip[e].status # "unborn"
      BY <1>5, <2>4, <2>5 DEF AllocateEip, Live
    <3>2. EipHold'
      BY <1>1, <1>2, <1>3, <2>1, <2>3, <3>1 DEF EipHold, HeldStep, Deletion, cloud
    <3> QED BY <1>1, <2>1, <2>2, <3>1, <3>2, EipGoes
  <2>6. CASE ~Live(eip[e])
    <3>1. SetEip(e, new) /\ eip[e].status = "unborn" /\ bought = {}
      BY <1>5, <2>4, <2>6 DEF AllocateEip, LiveEip
    <3>2. new \in Address
      BY <1>1 DEF TypeOK, Address, EipStatus
    <3>3. /\ UNCHANGED <<net, nat, snat>> /\ eip' \in [Eip -> Address]
          /\ \A f \in Eip : eip'[f] = IF f = e THEN new ELSE eip[f]
      BY <1>1, <3>1, <3>2, SetEipType
    <3>4. \A f \in Eip : /\ eip'[f].on = eip[f].on
                         /\ eip'[f].status = eip[f].status \/ eip[f].on = None
      BY <3>1, <3>3 DEF StateInv, CloudInv
    <3>5. CloudType' /\ EngineType' /\ EipLeaves /\ CloudInv'
      BY <1>1, <3>3, <3>4, EipChanges
    <3>6. Line(eip', Eip, gen.eip, saved.eip, outgoing.eip, destroying, released)
      <4>1. /\ saved.eip \in Eip \cup {None} /\ outgoing.eip \in Eip \cup {None}
            /\ gen.eip \in Nat
        BY <1>1 DEF TypeOK, Generation
      <4>2. Line(eip, Eip, gen.eip, saved.eip, outgoing.eip, destroying, released)
        BY DEF StateInv, EipInv
      <4>3. Live(eip'[e]) /\ eip'[e].gen = gen.eip /\ \A f \in Eip : f # e => eip'[f] = eip[f]
        BY <3>3 DEF Live
      <4>4. \A f \in Eip : Live(eip[f]) => eip[f].gen # gen.eip
        BY <3>1 DEF LiveEip
      <4> QED BY <1>2, <3>1, <4>1, <4>2, <4>3, <4>4, NoneAssumption, LineBirth
    <3>7. EipHold'
      BY <1>1, <1>2, <1>3, <2>1, <2>3, <3>3 DEF EipHold, HeldStep, Deletion
    <3>8. EipInv'
      <4>1. \A f \in LiveEip' : eip'[f].gen = gen.eip => eip'[f].billing = want.billing
        BY <3>1, <3>3 DEF LiveEip
      <4> QED BY <1>2, <1>3, <3>6, <3>7, <4>1 DEF EipInv
    <3> QED BY <2>1, <2>2, <3>5, <3>8 DEF EipKeeps
  <2> QED BY <2>5, <2>6
<1> QED BY <1>4, <1>5 DEF AllocateEipAddress

LEMMA AwaitEipKeeps ==
    ASSUME StateInv, AwaitEip
    PROVE  EipKeeps
<1>1. /\ pc.eip = "created" /\ UNCHANGED <<engine, history>> /\ TypeOK
      /\ Wait("eip", EipReady(cur.eip), EipBusy(cur.eip), "tune")
  BY DEF AwaitEip, StateInv
<1>2. /\ Moves("eip", "tune") /\ Holds("eip") /\ UNCHANGED cloud
      /\ pc'.eip \in {"tune", "failed"}
  BY <1>1, WaitMoves DEF Res, Step
<1>3. ~destroying /\ "eip" \notin retire
  BY <1>1, EipWork DEF Work, HeldStep
<1>4. Turn("eip")
  BY <1>1, <1>2, <1>3 DEF Turn, Finished, Deletion
<1>5. EipHold'
  BY <1>1, <1>2, <1>3 DEF StateInv, EipInv, EipHold, Holds, HeldStep, Deletion, engine, cloud
<1> QED BY <1>1, <1>2, <1>4, <1>5, EipGoes

LEMMA TuneEipKeeps ==
    ASSUME StateInv, TuneEip
    PROVE  EipKeeps
<1> DEFINE e == cur.eip
           new == [eip[e] EXCEPT !.tuned = TRUE]
<1>1. pc.eip = "tune" /\ UNCHANGED <<engine, history>> /\ TypeOK
  BY DEF TuneEip, StateInv
<1>2. ~destroying /\ "eip" \notin retire
  BY <1>1, EipWork DEF Work, HeldStep
<1>3. \/ Proceed("eip", "final") /\ UNCHANGED cloud
      \/ Call("eip", Live(eip[e]), SetEip(e, new), "final")
  BY DEF TuneEip
<1>4. Moves("eip", "final") /\ Holds("eip") /\ (SetEip(e, new) \/ UNCHANGED cloud)
  BY <1>1, <1>3, ProceedMoves, CallMoves DEF Holds, Res, Step, Rest
<1>5. /\ pc'.eip \in {"final", "tune", "failed"}
      /\ pc'.eip \in {"final", "tune"} => cur' = cur
  BY <1>1, <1>4 DEF Moves, Holds
<1>6. Turn("eip")
  BY <1>1, <1>2, <1>5 DEF Turn, Finished, Deletion
<1>7. e \in Eip /\ eip[e].status # "unborn" /\ eip[e].gen = gen.eip
  BY <1>1 DEF StateInv, EipInv, EipHold, HeldStep, TypeOK
<1>8. CASE UNCHANGED cloud
  <2>1. EipHold'
    BY <1>1, <1>2, <1>5, <1>7, <1>8, NoneAssumption DEF EipHold, HeldStep, Deletion, engine, cloud
  <2> QED BY <1>1, <1>4, <1>6, <1>8, <2>1, EipGoes
<1>9. CASE SetEip(e, new)
  <2>1. eip[e] \in Address
    BY <1>1, <1>7 DEF TypeOK
  <2>2. /\ new \in Address /\ new.gen = eip[e].gen /\ new.status = eip[e].status
        /\ new.billing = eip[e].billing /\ new.on = eip[e].on
    BY <2>1 DEF Address
  <2> HIDE DEF new
  <2>3. /\ UNCHANGED <<net, nat, snat>> /\ eip' \in [Eip -> Address]
        /\ \A f \in Eip : eip'[f] = IF f = e THEN new ELSE eip[f]
    BY <1>1, <1>9, <2>2, SetEipType
  <2>4. \A f \in Eip : /\ eip'[f].gen = eip[f].gen /\ eip'[f].status = eip[f].status
                       /\ eip'[f].billing = eip[f].billing /\ eip'[f].on = eip[f].on
    BY <2>2, <2>3
  <2>5. EipHold'
    BY <1>1, <1>2, <1>5, <1>7, <2>4, NoneAssumption DEF EipHold, HeldStep, Deletion, engine
  <2>6. Ages(eip, eip', Eip) /\ \A f \in Eip : Live(eip[f]) => Live(eip'[f])
    BY <2>4 DEF Ages, Live
  <2>7. CloudType' /\ EngineType' /\ EipLeaves /\ CloudInv'
    BY <1>1, <2>3, <2>4, EipChanges
  <2>8. EipInv'
    BY <1>1, <2>4, <2>5, <2>6, EipAges DEF history
  <2> QED BY <1>4, <1>6, <2>7, <2>8 DEF EipKeeps
<1> QED BY <1>4, <1>8, <1>9

LEMMA FinalEipKeeps ==
    ASSUME StateInv, FinalEip
    PROVE  EipKeeps
<1> DEFINE e == cur.eip
<1>1. /\ pc.eip = "final" /\ TypeOK
      /\ UNCHANGED <<cloud, want, gen, retire, outgoing, destroying, history>>
  BY DEF FinalEip, StateInv
<1>2. ~destroying /\ "eip" \notin retire /\ pc.snat # "done"
  BY <1>1, EipWork DEF Work, HeldStep
<1>3. CASE Fail("eip") /\ (IF EipBusy(e) THEN Upset ELSE Calm) /\ UNCHANGED saved
  <2>1. Upset \/ Calm
    BY <1>3
  <2>2. Moves("eip", "failed") /\ pc'.eip = "failed"
    BY <1>1, <1>3, <2>1, FailMoves DEF Res
  <2>3. Turn("eip") /\ UNCHANGED engine
    BY <1>1, <1>2, <1>3, <2>2 DEF Turn, Finished, Deletion, engine
  <2>4. EipHold'
    BY <1>1, <1>2, <1>3, <2>2 DEF EipHold, HeldStep, Deletion
  <2> QED BY <1>1, <2>2, <2>3, <2>4, EipGoes
<1>4. CASE EipReady(e) /\ End("eip", "done") /\ Calm /\ saved' = [saved EXCEPT !.eip = e]
  <2>1. e \in Eip /\ eip[e].gen = gen.eip /\ e # None
    BY <1>1, NoneAssumption DEF StateInv, EipInv, EipHold, HeldStep, TypeOK
  <2>2. Live(eip[e]) /\ e \in LiveEip
    BY <1>4, <2>1 DEF EipReady, Live, LiveEip
  <2>3. /\ Moves("eip", "done") /\ pc'.eip = "done"
    BY <1>1, <1>4, EndType, UpsetType DEF Moves, Res, Step, Rest
  <2>4. /\ saved \in Output /\ saved' \in Output /\ saved'.eip = e
        /\ saved'.nat = saved.nat /\ saved'.attEip = saved.attEip /\ saved'.attNat = saved.attNat
        /\ saved'.snat = saved.snat /\ saved'.table = saved.table
    BY <1>1, <1>4, <2>1, TypeParts DEF Output, EngineType
  <2>5. EngineType'
    BY <1>1, <2>4, TypeParts DEF EngineType
  <2>6. EipLeaves
    BY <1>1, <1>2, <2>4 DEF EipLeaves, cloud, history
  <2>7. Turn("eip")
    BY <1>1, <1>2, <2>3 DEF Turn, Finished
  <2>8. EipInv'
    <3>1. Line(eip, Eip, gen.eip, e, outgoing.eip, destroying, released)
      BY <2>1, <2>2, LineSave DEF StateInv, EipInv
    <3>2. EipHold'
      BY <1>1, <1>2, <2>1, <2>3, <2>4 DEF EipHold, HeldStep, Deletion
    <3> QED BY <1>1, <1>2, <2>4, <3>1, <3>2 DEF StateInv, EipInv, cloud, history, LiveEip, Live
  <2>9. CloudType' /\ CloudInv'
    BY <1>1, CloudSame, TypeParts DEF StateInv, CloudType, cloud
  <2> QED BY <2>3, <2>5, <2>6, <2>7, <2>8, <2>9 DEF EipKeeps
<1> QED BY <1>3, <1>4 DEF FinalEip

LEMMA StartDeleteEipKeeps ==
    ASSUME StateInv, StartDeleteEip
    PROVE  EipKeeps
<1> DEFINE e == IF outgoing.eip # None THEN outgoing.eip ELSE saved.eip
<1>1. /\ UNCHANGED <<cloud, engine, history, upsets>> /\ TypeOK /\ EngineType
      /\ cur' = [cur EXCEPT !.eip = e] /\ Goto("eip", "dRead")
  BY TypeParts DEF StartDeleteEip, StateInv
<1>2. /\ destroying => pc.eip = "idle"
      /\ ~destroying => outgoing.eip # None /\ AllDone
  BY DEF StartDeleteEip
<1>3. e \in Eip \cup {None}
  BY <1>1 DEF EngineType, Output
<1> HIDE DEF e
<1>4. /\ pc' \in [Res -> Step] /\ pc'.eip = "dRead" /\ \A q \in Res : q # "eip" => pc'[q] = pc[q]
  BY <1>1, GotoType DEF Res, Step
<1>5. cur' \in Cur /\ cur'.eip = e /\ cur'.nat = cur.nat /\ cur'.snat = cur.snat
  BY <1>1, <1>3 DEF TypeOK, Cur
<1>6. Moves("eip", "dRead")
  BY <1>1, <1>4, <1>5 DEF Moves, TypeOK
<1>7. Turn("eip")
  BY <1>2, <1>4 DEF Turn, Ending, Deletion
<1>8. "eip" \notin retire
  <2>1. CASE destroying
    BY <2>1 DEF StateInv, OrderInv
  <2>2. CASE AllDone
    BY <2>2 DEF StateInv, EipInv, EipHold, AllDone, Res, Waiting
  <2> QED BY <1>2, <2>1, <2>2
<1>9. ~destroying => saved.eip # None
  BY <1>2 DEF StateInv, EipInv, EipHold, AllDone, Res
<1>10. EipHold'
  BY <1>1, <1>2, <1>4, <1>5, <1>8, <1>9 DEF EipHold, HeldStep, Deletion, engine, e
<1> QED BY <1>1, <1>6, <1>7, <1>10, EipGoes

LEMMA ReleaseEipAddressKeeps ==
    ASSUME StateInv, ReleaseEipAddress
    PROVE  EipKeeps
<1> DEFINE e == cur.eip
           new == [eip[e] EXCEPT !.status = "gone"]
<1>1. pc.eip = "dRead" /\ UNCHANGED <<engine, history>> /\ TypeOK
  BY DEF ReleaseEipAddress, StateInv
<1>2. /\ e = IF outgoing.eip # None THEN outgoing.eip ELSE saved.eip
      /\ destroying \/ outgoing.eip # None
      /\ "eip" \notin retire /\ (~destroying => saved.eip # None)
  BY <1>1 DEF StateInv, EipInv, EipHold, Deletion, Waiting
<1>3. \/ e \notin LiveEip /\ Proceed("eip", "dAbsent") /\ UNCHANGED cloud
      \/ e \in LiveEip /\ Call("eip", eip[e].status = "Available", SetEip(e, new), "dAbsent")
  BY DEF ReleaseEipAddress
<1>4. /\ Moves("eip", "dAbsent") /\ Holds("eip")
      /\ \/ e \in LiveEip /\ eip[e].status = "Available" /\ SetEip(e, new)
         \/ UNCHANGED cloud /\ (pc'.eip = "dAbsent" => e \notin LiveEip)
  <2>1. CASE e \notin LiveEip /\ Proceed("eip", "dAbsent") /\ UNCHANGED cloud
    BY <1>1, <2>1, ProceedMoves DEF Holds, Res, Step
  <2>2. CASE e \in LiveEip /\ Call("eip", eip[e].status = "Available", SetEip(e, new), "dAbsent")
    <3>1. Moves("eip", "dAbsent") /\ Holds("eip")
      BY <1>1, <2>2, CallMoves DEF Res, Step
    <3>2. CASE eip[e].status = "Available" /\ SetEip(e, new)
      BY <2>2, <3>1, <3>2
    <3>3. CASE Fail("eip") /\ Calm /\ UNCHANGED cloud
      BY <1>1, <3>1, <3>3, FailMoves DEF Res
    <3>4. CASE Lost("eip") /\ UNCHANGED cloud
      BY <1>1, <3>1, <3>4, LostMoves DEF Res
    <3> QED BY <2>2, <3>2, <3>3, <3>4 DEF Call
  <2> QED BY <1>3, <2>1, <2>2
<1>5. /\ pc'.eip \in {"dRead", "dAbsent", "failed"}
      /\ pc'.eip \in {"dRead", "dAbsent"} => cur' = cur
  BY <1>1, <1>4 DEF Moves, Holds
<1>6. Turn("eip")
  BY <1>1, <1>5 DEF Turn, Finished, Ending, Deletion
<1>7. CASE UNCHANGED cloud /\ (pc'.eip = "dAbsent" => e \notin LiveEip)
  <2>1. EipHold'
    BY <1>1, <1>2, <1>5, <1>7 DEF EipHold, HeldStep, Deletion, engine, cloud, LiveEip, Live
  <2> QED BY <1>1, <1>4, <1>6, <1>7, <2>1, EipGoes
<1>8. CASE e \in LiveEip /\ eip[e].status = "Available" /\ SetEip(e, new)
  <2>1. eip[e] \in Address /\ e \in Eip
    BY <1>1, <1>8 DEF TypeOK, LiveEip
  <2>2. /\ new \in Address /\ new.gen = eip[e].gen /\ new.status = "gone"
        /\ new.billing = eip[e].billing /\ new.on = eip[e].on
    BY <2>1 DEF Address, EipStatus
  <2> HIDE DEF new
  <2>3. /\ UNCHANGED <<net, nat, snat>> /\ eip' \in [Eip -> Address]
        /\ \A f \in Eip : eip'[f] = IF f = e THEN new ELSE eip[f]
    BY <1>1, <1>8, <2>2, SetEipType
  <2>4. eip[e].on = None
    BY <1>8, <2>1 DEF StateInv, CloudInv
  <2>5. \A f \in Eip : /\ eip'[f].gen = eip[f].gen /\ eip'[f].on = eip[f].on
                       /\ eip'[f].billing = eip[f].billing
                       /\ eip'[f].status = IF f = e THEN "gone" ELSE eip[f].status
    BY <2>2, <2>3
  <2>6. \A f \in Eip : f = saved.eip /\ Live(eip[f]) => Live(eip'[f]) \/ destroying
    <3>1. ~destroying => saved.eip # e
      <4>1. ~destroying => e = outgoing.eip /\ outgoing.eip # None /\ saved.eip # None
        BY <1>2
      <4>2. eip[e].gen \in Nat /\ gen.eip \in Nat
        BY <1>1, <2>1 DEF Address, Generation, TypeOK
      <4> QED BY <4>1, <4>2 DEF StateInv, EipInv, Line
    <3> QED BY <2>5, <3>1 DEF Live
  <2>7. EipHold'
    BY <1>1, <1>2, <1>5, <2>5 DEF EipHold, HeldStep, Deletion, engine, LiveEip, Live
  <2>8. Ages(eip, eip', Eip)
    BY <1>8, <2>5 DEF Ages, Live, LiveEip
  <2>9. CloudType' /\ EngineType' /\ EipLeaves /\ CloudInv'
    BY <1>1, <2>3, <2>4, <2>5, EipChanges
  <2>10. EipInv'
    BY <1>1, <2>5, <2>6, <2>7, <2>8, EipAges DEF history
  <2> QED BY <1>4, <1>6, <2>9, <2>10 DEF EipKeeps
<1> QED BY <1>4, <1>7, <1>8

LEMMA EipAbsentKeeps ==
    ASSUME StateInv, EipAbsent
    PROVE  EipKeeps
<1> DEFINE step == IF ~destroying THEN "done"
                   ELSE IF outgoing.eip # None THEN "idle" ELSE "gone"
<1>1. /\ pc.eip = "dAbsent" /\ TypeOK /\ End("eip", step)
      /\ outgoing' = [outgoing EXCEPT !.eip = None]
      /\ UNCHANGED <<cloud, want, gen, retire, saved, destroying, history, upsets>>
  BY DEF EipAbsent, StateInv
<1>2. /\ cur.eip = IF outgoing.eip # None THEN outgoing.eip ELSE saved.eip
      /\ cur.eip \notin LiveEip
      /\ destroying \/ outgoing.eip # None
      /\ "eip" \notin retire /\ (~destroying => saved.eip # None)
  BY <1>1 DEF StateInv, EipInv, EipHold, Deletion, Waiting
<1>3. step \in Step
  BY DEF Step, Rest
<1>4. Moves("eip", step) /\ pc'.eip = step
  <2> HIDE DEF step
  <2> QED BY <1>1, <1>3, EndType DEF Moves, Res, TypeOK
<1>5. /\ outgoing' \in [nat : Ngw \cup {None}, eip : Eip \cup {None}]
      /\ outgoing'.eip = None /\ outgoing'.nat = outgoing.nat
  BY <1>1 DEF TypeOK
<1>6. EngineType'
  BY <1>1, <1>5, TypeParts DEF EngineType
<1>7. EipLeaves
  BY <1>1, <1>5 DEF EipLeaves, cloud, history
<1>8. Turn("eip")
  BY <1>1, <1>4 DEF Turn, Finished, Ending, Deletion
<1>9. EipInv'
  <2>1. outgoing.eip \in Eip => ~Live(eip[outgoing.eip])
    BY <1>2, NoneAssumption DEF LiveEip
  <2>2. Line(eip, Eip, gen.eip, saved.eip, None, destroying, released)
    BY <2>1, LineDrop DEF StateInv, EipInv
  <2>3. EipHold'
    BY <1>1, <1>2, <1>4, <1>5 DEF EipHold, HeldStep, Deletion, cloud, LiveEip, Live
  <2> QED BY <1>1, <1>5, <2>2, <2>3 DEF StateInv, EipInv, cloud, history, LiveEip, Live
<1>10. CloudType' /\ CloudInv'
  BY <1>1, CloudSame, TypeParts DEF StateInv, CloudType, cloud
<1> QED BY <1>4, <1>6, <1>7, <1>8, <1>9, <1>10 DEF EipKeeps

LEMMA PlanEipKeeps ==
    ASSUME StateInv, PlanEip
    PROVE  EipKeeps
<1>1. /\ pc.eip \in {"idle", "planned"} /\ ~destroying /\ TypeOK
      /\ UNCHANGED <<cloud, want, destroying, cur, history, upsets>>
  BY DEF PlanEip, StateInv
<1>2. pc.snat # "done"
  BY <1>1 DEF StateInv, OrderInv, Finished, Deletion
<1>3. ASSUME NEW step \in Step, Goto("eip", step)
      PROVE  Moves("eip", step) /\ pc'.eip = step
  BY <1>1, <1>3, GotoType DEF Moves, TypeOK, Cur, Res
<1>4. CASE "eip" \notin retire
  <2> DEFINE step == IF pc.eip = "planned" /\ saved.eip \in LiveEip /\ eip[saved.eip].tuned
                     THEN "done" ELSE "observe"
  <2>1. UNCHANGED <<cloud, engine, history>> /\ Goto("eip", step)
    BY <1>1, <1>4 DEF PlanEip, engine
  <2>2. step \in {"done", "observe"} /\ (step = "done" => saved.eip # None)
    BY NoneAssumption DEF LiveEip
  <2> HIDE DEF step
  <2>3. Moves("eip", step) /\ pc'.eip = step
    BY <1>3, <2>1, <2>2 DEF Step, Rest
  <2>4. Turn("eip")
    BY <1>1, <2>2, <2>3 DEF Turn, Finished, Deletion
  <2>5. EipHold'
    BY <1>1, <1>4, <2>1, <2>2, <2>3 DEF EipHold, HeldStep, Deletion, engine
  <2> QED BY <2>1, <2>3, <2>4, <2>5, EipGoes
<1>5. CASE "eip" \in retire
  <2>1. /\ retire' = retire \ {"eip"}
        /\ outgoing' = [outgoing EXCEPT !.eip = saved.eip]
        /\ saved' = [saved EXCEPT !.eip = None]
        /\ gen' = [gen EXCEPT !.eip = @ + 1]
        /\ Goto("eip", "observe")
    BY <1>5 DEF PlanEip
  <2>2. Moves("eip", "observe") /\ pc'.eip = "observe"
    BY <1>3, <2>1 DEF Step
  <2>3. Turn("eip")
    BY <1>1, <2>2 DEF Turn, Finished, Deletion
  <2>4. outgoing.eip = None /\ saved.eip \in Eip
    BY <1>1, <1>5 DEF StateInv, EipInv, EipHold, TypeOK
  <2>5. /\ outgoing' \in [nat : Ngw \cup {None}, eip : Eip \cup {None}]
        /\ outgoing'.eip = saved.eip /\ outgoing'.nat = outgoing.nat
    BY <1>1, <2>1, <2>4 DEF TypeOK
  <2>6. /\ saved' \in Output /\ saved'.eip = None
        /\ saved'.nat = saved.nat /\ saved'.attEip = saved.attEip /\ saved'.attNat = saved.attNat
        /\ saved'.snat = saved.snat /\ saved'.table = saved.table
    <3>1. saved \in Output
      BY <1>1, TypeParts DEF EngineType
    <3> QED BY <2>1, <3>1 DEF Output
  <2>7. /\ gen' \in [{"nat", "eip", "snat"} -> Generation]
        /\ gen.eip \in Nat /\ gen'.eip = gen.eip + 1
        /\ gen'.nat = gen.nat /\ gen'.snat = gen.snat
    BY <1>1, <2>1 DEF TypeOK, Generation
  <2>8. EngineType'
    BY <1>1, <2>1, <2>5, <2>6, <2>7, TypeParts DEF EngineType
  <2>9. EipLeaves
    BY <1>1, <1>2, <2>1, <2>5, <2>6, <2>7 DEF EipLeaves, cloud, history
  <2>10. /\ Line(eip, Eip, gen.eip + 1, None, saved.eip, destroying, released)
         /\ \A e \in Eip : eip[e].status # "unborn" => eip[e].gen # gen.eip + 1
    <3>1. \A e \in Eip : eip[e].gen \in Nat
      BY <1>1 DEF TypeOK, Address, Generation
    <3> QED BY <1>1, <2>4, <2>7, <3>1, NoneAssumption, LineRetire DEF StateInv, EipInv
  <2>11. EipHold'
    BY <1>1, <2>1, <2>2 DEF EipHold, HeldStep, Deletion
  <2>12. EipInv'
    BY <1>1, <2>5, <2>6, <2>7, <2>10, <2>11 DEF EipInv, LiveEip, Live, cloud, history
  <2>13. CloudType' /\ CloudInv'
    BY <1>1, CloudSame, TypeParts DEF StateInv, CloudType, cloud
  <2> QED BY <2>2, <2>3, <2>8, <2>9, <2>12, <2>13 DEF EipKeeps
<1> QED BY <1>4, <1>5

LEMMA EipStepDoes ==
    ASSUME StateInv, EipStep
    PROVE  EipKeeps
BY PlanEipKeeps, ObserveEipKeeps, AllocateEipAddressKeeps, AwaitEipKeeps, TuneEipKeeps,
   FinalEipKeeps, StartDeleteEipKeeps, ReleaseEipAddressKeeps, EipAbsentKeeps
DEF EipStep

LEMMA EipStepKeeps ==
    ASSUME StateInv, EipStep
    PROVE  StateInv'
<1>1. EipKeeps
  BY EipStepDoes
<1>2. PICK step : Moves("eip", step)
  BY <1>1 DEF EipKeeps
<1>3. TypeOK'
  BY <1>1, <1>2, StepType DEF StateInv, EipKeeps, EipLeaves
<1>4. /\ NatApart /\ SnatApart /\ NetApart
      /\ saved'.nat = saved.nat /\ ("nat" \in retire' <=> "nat" \in retire)
  BY <1>1, <1>2
  DEF EipKeeps, EipLeaves, Moves, NatApart, SnatApart, NetApart, history, Res, LiveNat, Live
<1>5. NatInv' /\ SnatInv' /\ NetInv'
  BY <1>4, NatSame, SnatSame, NetSame DEF StateInv
<1>6. FitInv'
  BY <1>1, <1>4 DEF StateInv, FitInv, SnatApart, EipKeeps, EipLeaves
<1>7. OrderInv'
  BY <1>1, <1>2, OrderTurn DEF StateInv, EipKeeps, EipLeaves
<1> QED BY <1>1, <1>3, <1>5, <1>6, <1>7 DEF StateInv, EipKeeps

-----------------------------------------------------------------------------
(* The association. *)

AttLeaves ==
    /\ UNCHANGED <<net, nat, snat, want, gen, outgoing, destroying, history>>
    /\ saved'.nat = saved.nat /\ saved'.eip = saved.eip
    /\ saved'.snat = saved.snat /\ saved'.table = saved.table
    /\ retire' = retire \/ retire' = retire \ {"att"}

AttTurn ==
    /\ destroying => pc'.att \in Ending
    /\ ~destroying => /\ pc'.att # "gone"
                      /\ \/ pc'.att = pc.att
                         \/ /\ pc.att # "done"
                            /\ pc'.att \in AttWork \cup {"done"} => pc.nat = "done" /\ pc.eip = "done"

\* An address is bound or unbound: it remains what it is.
Rebinds ==
    \A e \in Eip : /\ eip'[e].gen = eip[e].gen /\ eip'[e].billing = eip[e].billing
                   /\ eip'[e].status = "unborn" <=> eip[e].status = "unborn"
                   /\ Live(eip'[e]) <=> Live(eip[e])

AttKeeps ==
    /\ CloudType' /\ EngineType' /\ (\E step : Moves("att", step))
    /\ AttLeaves /\ AttTurn /\ Rebinds /\ CloudInv'

LEMMA AttGoes ==
    ASSUME StateInv, UNCHANGED <<cloud, history, want, gen, outgoing, destroying>>,
           EngineType', AttLeaves, NEW step, Moves("att", step), AttTurn
    PROVE  AttKeeps
<1>1. UNCHANGED <<net, nat, eip, snat>>
  BY DEF cloud
<1>2. CloudType' /\ CloudInv' /\ Rebinds
  BY <1>1, CloudSame, TypeParts DEF StateInv, CloudType, Rebinds
<1> QED BY <1>2 DEF AttKeeps

\* What a change of one binding must heed.
LEMMA AttBinds ==
    ASSUME StateInv, UNCHANGED <<engine, history>>, NEW e \in Eip \cup {None},
           NEW status \in {"Associating", "Unassociating"}, NEW n \in Ngw \cup {None, Foreign},
           n \notin Ngw => status = "Unassociating",
           SetEip(e, [eip[e] EXCEPT !.status = status, !.on = n]),
           e \in Eip => Live(eip[e]) /\ UsedBy(e) = {},
           e \in Eip /\ n \in Ngw => nat[n].status = "Available",
           NEW step, Moves("att", step), AttTurn
    PROVE  AttKeeps
<1> DEFINE new == [eip[e] EXCEPT !.status = status, !.on = n]
<1>1. TypeOK /\ EngineType /\ eip \in [Eip -> Address]
  BY TypeParts DEF StateInv, CloudType
<1>2. ASSUME e \in Eip
      PROVE  /\ new \in Address /\ new.gen = eip[e].gen /\ new.status = status
             /\ new.billing = eip[e].billing /\ new.on = n
  BY <1>1, <1>2 DEF Address, EipStatus
<1> HIDE DEF new
<1>3. SetEip(e, new)
  BY DEF new
<1>4. /\ UNCHANGED <<net, nat, snat>> /\ eip' \in [Eip -> Address]
      /\ \A f \in Eip : eip'[f] = IF f = e THEN new ELSE eip[f]
  BY <1>1, <1>2, <1>3, SetEipType
<1>5. UNCHANGED <<want, gen, retire, saved, outgoing, destroying, touched, released>>
  BY DEF engine, history
<1>6. CloudType' /\ EngineType' /\ AttLeaves
  BY <1>1, <1>4, <1>5, TypeParts DEF CloudType, EngineType, AttLeaves, history
<1>7. Rebinds
  <2> SUFFICES ASSUME NEW f \in Eip
               PROVE  /\ eip'[f].gen = eip[f].gen /\ eip'[f].billing = eip[f].billing
                      /\ eip'[f].status = "unborn" <=> eip[f].status = "unborn"
                      /\ Live(eip'[f]) <=> Live(eip[f])
    BY DEF Rebinds
  <2>1. CASE f = e
    BY <1>2, <1>4, <2>1 DEF Live
  <2>2. CASE f # e
    BY <1>4, <2>2
  <2> QED BY <2>1, <2>2
<1>8. CloudInv'
  <2>1. LiveSnat' = LiveSnat
    BY <1>4 DEF LiveSnat, Live
  <2>2. Foreign \notin Ngw /\ None \notin Ngw
    BY NoneAssumption
  <2>3. \A f \in Eip : eip'[f] = eip[f] \/ (f = e /\ eip'[f].status = status /\ eip'[f].on = n)
    BY <1>2, <1>4
  <2>4. \A s \in LiveSnat : snat[s].ip # e
    <3> TAKE s \in LiveSnat
    <3>1. snat[s].ip \in Eip
      BY DEF StateInv, CloudInv
    <3> QED BY <3>1 DEF UsedBy
  <2>5. \A f \in Eip : eip'[f].on # None => eip'[f].status \in {"Associating", "InUse", "Unassociating"}
    BY <2>3 DEF StateInv, CloudInv
  <2>6. \A f \in Eip : eip'[f].on = Foreign => eip'[f].status \in {"InUse", "Unassociating"}
    BY <2>2, <2>3 DEF StateInv, CloudInv
  <2>7. \A f \in Eip, m \in Ngw : eip'[f].on = m => nat'[m].status = "Available"
    BY <1>4, <2>3, NoneAssumption DEF StateInv, CloudInv
  <2>8. \A s \in LiveSnat : /\ snat[s].table \in Ngw /\ snat[s].ip \in Eip
                            /\ eip'[snat[s].ip].status = "InUse"
                            /\ eip'[snat[s].ip].on = snat[s].table
    BY <2>3, <2>4 DEF StateInv, CloudInv
  <2> QED BY <1>4, <2>1, <2>5, <2>6, <2>7, <2>8 DEF StateInv, CloudInv
<1> QED BY <1>6, <1>7, <1>8 DEF AttKeeps

LEMMA PlanAttKeeps ==
    ASSUME StateInv, PlanAtt
    PROVE  AttKeeps
<1>1. /\ pc.att \in {"idle", "planned"} /\ ~destroying /\ TypeOK /\ EngineType
      /\ UNCHANGED <<cloud, engine, cur, history, upsets>>
  BY TypeParts DEF PlanAtt, StateInv
<1>2. AttLeaves /\ EngineType' /\ UNCHANGED <<want, gen, outgoing, destroying>>
  BY <1>1 DEF AttLeaves, EngineType, engine, cloud, history
<1>3. PICK step \in {"dRead", "done", "previous"} :
        /\ Goto("att", step)
        /\ step # "dRead" => pc.nat = "done" /\ pc.eip = "done"
  BY DEF PlanAtt
<1>4. Moves("att", step) /\ pc'.att = step
  BY <1>1, <1>3, GotoType DEF Moves, TypeOK, Cur, Res, Step, Rest
<1>5. AttTurn
  BY <1>1, <1>3, <1>4 DEF AttTurn, AttWork
<1> QED BY <1>1, <1>2, <1>4, <1>5, AttGoes

LEMMA AttWorking ==
    ASSUME StateInv, pc.att \in AttWork
    PROVE  ~destroying /\ pc.nat = "done" /\ pc.eip = "done"
BY DEF StateInv, OrderInv, AttWork, Ending, Deletion, Res

\* A step that only looks.
LEMMA AttLooks ==
    ASSUME StateInv, NEW step \in Step, Goto("att", step),
           UNCHANGED <<cloud, engine, cur, history, upsets>>,
           pc'.att = step => AttTurn
    PROVE  AttKeeps
<1>1. TypeOK /\ EngineType
  BY TypeParts DEF StateInv
<1>2. AttLeaves /\ EngineType' /\ UNCHANGED <<want, gen, outgoing, destroying>>
  BY <1>1 DEF AttLeaves, EngineType, engine, cloud, history
<1>3. Moves("att", step) /\ pc'.att = step
  BY <1>1, GotoType DEF Moves, TypeOK, Cur, Res
<1> QED BY <1>2, <1>3, AttGoes

LEMMA ReadPreviousKeeps ==
    ASSUME StateInv, ReadPrevious
    PROVE  AttKeeps
<1>1. /\ pc.att \in {"previous", "detached"}
      /\ UNCHANGED <<cloud, engine, cur, history, upsets>>
  BY DEF ReadPrevious
<1>2. ~destroying /\ pc.nat = "done" /\ pc.eip = "done"
  BY <1>1, AttWorking DEF AttWork
<1>3. PICK step \in {"detach", "look"} : Goto("att", step)
  BY DEF ReadPrevious
<1>4. pc'.att = step => AttTurn
  BY <1>1, <1>2 DEF AttTurn
<1> QED BY <1>1, <1>3, <1>4, AttLooks DEF Step

\* The association is done: its output says what is bound.
LEMMA BoundKeeps ==
    ASSUME StateInv, pc.att \in AttWork, End("att", "done"), Calm, saved' = AttSaved,
           UNCHANGED <<cloud, want, gen, retire, outgoing, destroying, history>>
    PROVE  AttKeeps
<1>1. TypeOK /\ EngineType
  BY TypeParts DEF StateInv
<1>2. ~destroying /\ pc.nat = "done" /\ pc.eip = "done"
  BY AttWorking
<1>3. Moves("att", "done") /\ pc'.att = "done"
  BY <1>1, EndType, UpsetType DEF Moves, Res, Step, Rest
<1>4. AttTurn
  BY <1>2, <1>3 DEF AttTurn, AttWork
<1>5. /\ saved' \in Output
      /\ saved'.nat = saved.nat /\ saved'.eip = saved.eip
      /\ saved'.snat = saved.snat /\ saved'.table = saved.table
  BY <1>1 DEF EngineType, Output, AttSaved
<1>6. AttLeaves /\ EngineType'
  BY <1>1, <1>5 DEF AttLeaves, EngineType, cloud, history
<1> QED BY <1>3, <1>4, <1>6, AttGoes

LEMMA AttFails ==
    ASSUME StateInv, pc.att \in AttWork \cup Deletion, Fail("att"), Upset \/ Calm,
           UNCHANGED <<cloud, engine, history>>
    PROVE  AttKeeps
<1>1. TypeOK /\ EngineType
  BY TypeParts DEF StateInv
<1>2. Moves("att", "failed") /\ pc'.att = "failed"
  BY <1>1, FailMoves DEF Res
<1>3. AttTurn
  BY <1>2 DEF AttTurn, AttWork, Deletion, Ending
<1>4. AttLeaves /\ EngineType' /\ UNCHANGED <<want, gen, outgoing, destroying>>
  BY <1>1 DEF AttLeaves, EngineType, engine, cloud, history
<1> QED BY <1>2, <1>3, <1>4, AttGoes

LEMMA AssociateEipAddressKeeps ==
    ASSUME StateInv, AssociateEipAddress
    PROVE  AttKeeps
<1> DEFINE e == saved.eip
           n == saved.nat
           new == [eip[e] EXCEPT !.status = "Associating", !.on = n]
<1>1. /\ pc.att = "look" /\ TypeOK /\ EngineType
      /\ UNCHANGED <<want, gen, retire, outgoing, destroying, history>>
  BY TypeParts DEF AssociateEipAddress, StateInv
<1>2. ~destroying /\ pc.nat = "done" /\ pc.eip = "done"
  BY <1>1, AttWorking DEF AttWork
<1>3. CASE Bound(e, n) /\ End("att", "done") /\ Calm /\ UNCHANGED cloud /\ saved' = AttSaved
  BY <1>1, <1>3, BoundKeeps DEF AttWork
<1>4. CASE UNCHANGED saved /\ eip[e].on # None /\ Fail("att") /\ Calm /\ UNCHANGED cloud
  BY <1>1, <1>4, AttFails DEF AttWork, engine
<1>5. CASE UNCHANGED saved /\ Call("att", CanBind(e, n), SetEip(e, new), "attached")
  <2>1. /\ Moves("att", "attached")
        /\ (CanBind(e, n) /\ SetEip(e, new)) \/ UNCHANGED cloud
    <3> HIDE DEF new
    <3> QED BY <1>1, <1>5, CallMoves DEF Res, Step
  <2>2. AttTurn
    BY <1>1, <1>2, <2>1 DEF AttTurn, Moves
  <2>3. UNCHANGED engine
    BY <1>1, <1>5 DEF engine
  <2>4. CASE UNCHANGED cloud
    <3>1. AttLeaves /\ EngineType'
      BY <1>1, <1>5, <2>4 DEF AttLeaves, EngineType, cloud, history
    <3> QED BY <1>1, <2>1, <2>2, <2>4, <3>1, AttGoes
  <2>5. CASE CanBind(e, n) /\ SetEip(e, new)
    <3>1. e \in Eip \cup {None} /\ n \in Ngw /\ nat[n].status = "Available"
      BY <1>1, <2>5 DEF EngineType, Output, CanBind, LiveNat
    <3>2. e \in Eip => Live(eip[e]) /\ UsedBy(e) = {}
      BY <2>5 DEF CanBind, Live, UsedBy, StateInv, CloudInv
    <3> HIDE DEF e, n
    <3> QED BY <1>1, <2>1, <2>2, <2>3, <2>5, <3>1, <3>2, AttBinds
  <2> QED BY <2>1, <2>4, <2>5
<1> QED BY <1>3, <1>4, <1>5 DEF AssociateEipAddress

LEMMA AwaitBoundKeeps ==
    ASSUME StateInv, AwaitBound
    PROVE  AttKeeps
<1>1. /\ pc.att = "attached"
      /\ UNCHANGED <<cloud, want, gen, retire, outgoing, destroying, history>>
  BY DEF AwaitBound
<1>2. CASE End("att", "done") /\ Calm /\ saved' = AttSaved
  BY <1>1, <1>2, BoundKeeps DEF AttWork
<1>3. CASE Fail("att") /\ (IF EipBusy(saved.eip) THEN Upset ELSE Calm) /\ UNCHANGED saved
  <2>1. Upset \/ Calm
    BY <1>3
  <2> QED BY <1>1, <1>3, <2>1, AttFails DEF AttWork, engine
<1> QED BY <1>2, <1>3 DEF AwaitBound

LEMMA StartDeleteAttKeeps ==
    ASSUME StateInv, StartDeleteAtt
    PROVE  AttKeeps
<1>1. /\ pc.att = "idle" /\ destroying /\ TypeOK /\ EngineType /\ Goto("att", "dRead")
      /\ UNCHANGED <<cloud, engine, cur, history, upsets>>
  BY TypeParts DEF StartDeleteAtt, StateInv
<1>2. AttLeaves /\ EngineType' /\ UNCHANGED <<want, gen, outgoing, destroying>>
  BY <1>1 DEF AttLeaves, EngineType, engine, cloud, history
<1>3. Moves("att", "dRead") /\ pc'.att = "dRead"
  BY <1>1, GotoType DEF Moves, TypeOK, Cur, Res, Step
<1>4. AttTurn
  BY <1>1, <1>3 DEF AttTurn, Ending, Deletion
<1> QED BY <1>1, <1>2, <1>3, <1>4, AttGoes

LEMMA ReadBindingKeeps ==
    ASSUME StateInv, ReadBinding
    PROVE  AttKeeps
<1>1. /\ pc.att = "dRead" /\ Goto("att", "dSend")
      /\ UNCHANGED <<cloud, engine, cur, history, upsets>>
  BY DEF ReadBinding
<1>2. pc'.att = "dSend" => AttTurn
  BY <1>1 DEF AttTurn, Ending, Deletion, AttWork
<1> QED BY <1>1, <1>2, AttLooks DEF Step

\* Whoever the address is bound to by now, it is not used, and it is not yet
\* somebody else's to bind.
LEMMA UnassociateEipAddressKeeps ==
    ASSUME StateInv, UnassociateEipAddress
    PROVE  AttKeeps
<1> DEFINE e == Old.eip
           next == IF pc.att = "dSend" THEN "dAbsent" ELSE "detached"
           allowed == IF e \in LiveEip THEN eip[e].status = "Available" ELSE pc.att = "dSend"
           new == [eip[e] EXCEPT !.status = "Unassociating"]
<1>1. /\ pc.att \in Sending /\ UNCHANGED <<engine, history>>
      /\ TypeOK /\ EngineType /\ eip \in [Eip -> Address] /\ next \in Step
  BY TypeParts DEF UnassociateEipAddress, StateInv, CloudType, Step
<1>2. ASSUME pc'.att \in {next, pc.att, "failed"}
      PROVE  AttTurn
  <2>1. CASE pc.att = "detach"
    <3>1. ~destroying /\ pc.nat = "done" /\ pc.eip = "done"
      BY <2>1, AttWorking DEF AttWork
    <3> QED BY <1>2, <2>1, <3>1 DEF AttTurn
  <2>2. CASE pc.att = "dSend"
    BY <1>2, <2>2 DEF AttTurn, Ending, Deletion, AttWork
  <2> QED BY <1>1, <2>1, <2>2 DEF Sending
<1>3. ASSUME Moves("att", next), UNCHANGED cloud
      PROVE  AttKeeps
  <2>1. AttLeaves /\ EngineType' /\ UNCHANGED <<want, gen, outgoing, destroying>>
    BY <1>1, <1>3 DEF AttLeaves, EngineType, engine, cloud, history
  <2>2. AttTurn
    <3> HIDE DEF next
    <3> QED BY <1>2, <1>3 DEF Moves
  <2> HIDE DEF next
  <2> QED BY <1>1, <1>3, <2>1, <2>2, AttGoes
<1>4. ASSUME Fail("att"), Upset \/ Calm, UNCHANGED cloud
      PROVE  AttKeeps
  BY <1>1, <1>4, AttFails DEF Sending, AttWork, Deletion
<1>5. ASSUME e \in LiveEip, CanUnbind(e), Call("att", TRUE, SetEip(e, new), next)
      PROVE  AttKeeps
  <2>1. Moves("att", next) /\ (SetEip(e, new) \/ UNCHANGED cloud)
    <3> HIDE DEF new, next
    <3> QED BY <1>1, <1>5, ProceedMoves, LostMoves DEF Call, Res
  <2>2. CASE SetEip(e, new)
    <3>1. e \in Eip /\ eip[e] \in Address /\ Live(eip[e])
      BY <1>1, <1>5 DEF LiveEip
    <3> DEFINE n == eip[e].on
    <3>2. n \in Ngw \cup {None, Foreign}
      BY <3>1 DEF Address
    <3>3. new = [eip[e] EXCEPT !.status = "Unassociating", !.on = n]
      BY <3>1 DEF Address
    <3>4. /\ UsedBy(e) = {}
          /\ n \in Ngw => nat[n].status = "Available"
      BY <1>5, <3>1 DEF CanUnbind, StateInv, CloudInv
    <3>5. AttTurn
      <4> HIDE DEF next
      <4> QED BY <1>2, <2>1 DEF Moves
    <3> HIDE DEF new, next, e, n
    <3> QED BY <1>1, <2>1, <2>2, <3>1, <3>2, <3>3, <3>4, <3>5, AttBinds
  <2>3. CASE UNCHANGED cloud
    BY <1>3, <2>1, <2>3
  <2> QED BY <2>1, <2>2, <2>3
<1>6. ASSUME Call("att", allowed, UNCHANGED cloud, next)
      PROVE  AttKeeps
  <2>1. Moves("att", next) /\ UNCHANGED cloud
    <3> HIDE DEF next, allowed
    <3> QED BY <1>1, <1>6, CallMoves DEF Res
  <2> QED BY <1>3, <2>1
<1> QED BY <1>4, <1>5, <1>6 DEF UnassociateEipAddress

LEMMA AttAbsentKeeps ==
    ASSUME StateInv, AttAbsent
    PROVE  AttKeeps
<1>1. /\ TypeOK /\ EngineType /\ pc.att \in Deletion \cup {"detached"}
      /\ UNCHANGED <<cloud, want, gen, outgoing, destroying, history>>
  BY TypeParts DEF AttAbsent, StateInv, Deletion
<1>2. CASE Fail("att") /\ Upset /\ UNCHANGED <<retire, saved>>
  BY <1>1, <1>2, AttFails DEF engine, AttWork
<1>3. CASE /\ pc.att \in Deletion
           /\ Proceed("att", IF destroying THEN "gone" ELSE "idle")
           /\ retire' = retire \ {"att"}
           /\ saved' = [saved EXCEPT !.attEip = None, !.attNat = None]
  <2> DEFINE step == IF destroying THEN "gone" ELSE "idle"
  <2>1. step \in Step
    BY DEF Step, Rest
  <2>2. Moves("att", step) /\ pc'.att = step
    <3>1. Proceed("att", step)
      BY <1>3
    <3> HIDE DEF step
    <3> QED BY <1>1, <2>1, <3>1, ProceedMoves DEF Res
  <2>3. AttTurn
    BY <1>1, <1>3, <2>2 DEF AttTurn, Ending, Deletion, AttWork
  <2>4. /\ saved' \in Output
        /\ saved'.nat = saved.nat /\ saved'.eip = saved.eip
        /\ saved'.snat = saved.snat /\ saved'.table = saved.table
    BY <1>1, <1>3 DEF EngineType, Output
  <2>5. AttLeaves /\ EngineType'
    BY <1>1, <1>3, <2>4 DEF AttLeaves, EngineType, cloud, history
  <2> QED BY <1>1, <2>2, <2>3, <2>5, AttGoes
<1> QED BY <1>1, <1>2, <1>3 DEF AttAbsent, Deletion

LEMMA AttStepDoes ==
    ASSUME StateInv, AttStep
    PROVE  AttKeeps
BY PlanAttKeeps, ReadPreviousKeeps, AssociateEipAddressKeeps, AwaitBoundKeeps,
   StartDeleteAttKeeps, ReadBindingKeeps, UnassociateEipAddressKeeps, AttAbsentKeeps
DEF AttStep

LEMMA AttStepKeeps ==
    ASSUME StateInv, AttStep
    PROVE  StateInv'
<1>1. AttKeeps
  BY AttStepDoes
<1>2. PICK step : Moves("att", step)
  BY <1>1 DEF AttKeeps
<1>3. TypeOK'
  BY <1>1, <1>2, StepType DEF StateInv, AttKeeps, AttLeaves
<1>4. /\ NatApart /\ SnatApart /\ NetApart
      /\ saved'.nat = saved.nat /\ saved'.eip = saved.eip
      /\ ("nat" \in retire' <=> "nat" \in retire)
  BY <1>1, <1>2
  DEF AttKeeps, AttLeaves, Moves, NatApart, SnatApart, NetApart, history, Res, LiveNat, Live
<1>5. NatInv' /\ SnatInv' /\ NetInv' /\ FitInv'
  BY <1>4, NatSame, SnatSame, NetSame, FitSame DEF StateInv
<1>6. EipInv'
  <2>1. /\ pc'.eip = pc.eip /\ cur'.eip = cur.eip
        /\ UNCHANGED <<want, gen, outgoing, destroying, released>>
        /\ saved'.eip = saved.eip /\ ("eip" \in retire' <=> "eip" \in retire)
        /\ Rebinds
    BY <1>1, <1>2 DEF AttKeeps, AttLeaves, Moves, history, Res
  <2>2. LiveEip' = LiveEip
    BY <2>1 DEF Rebinds, LiveEip
  <2>3. /\ \A e \in Eip : /\ eip'[e].status = "unborn" <=> eip[e].status = "unborn"
                          /\ eip'[e].gen = eip[e].gen
        /\ (cur.eip \in Eip \cup {None})
    BY <1>3, <2>1, TypeParts DEF Rebinds, StateInv, Cur
  <2>4. EipHold'
    BY <2>1, <2>2, <2>3 DEF StateInv, EipInv, EipHold
  <2>5. Ages(eip, eip', Eip)
    BY <2>1 DEF Rebinds, Ages
  <2>6. Line(eip', Eip, gen.eip, saved.eip, outgoing.eip, destroying, released)
    <3>1. /\ saved.eip \in Eip \cup {None} /\ outgoing.eip \in Eip \cup {None}
          /\ None \notin Eip /\ destroying \in BOOLEAN
      BY NoneAssumption DEF StateInv, TypeOK
    <3>2. Line(eip, Eip, gen.eip, saved.eip, outgoing.eip, destroying, released)
      BY DEF StateInv, EipInv
    <3>3. \A i \in Eip \cap released : i \in released \/ eip'[i].status = "gone"
      OBVIOUS
    <3>4. saved.eip # None /\ Live(eip[saved.eip])
            => Live(eip'[saved.eip]) \/ saved.eip \in released \/ destroying
      BY <2>1, <3>1 DEF Rebinds
    <3>5. released \subseteq released
      OBVIOUS
    <3> QED BY <2>5, <3>1, <3>2, <3>3, <3>4, <3>5, LineAges
  <2>7. \A e \in LiveEip : eip'[e].gen = eip[e].gen /\ eip'[e].billing = eip[e].billing
    BY <2>1 DEF Rebinds, LiveEip
  <2> QED BY <2>1, <2>2, <2>4, <2>6, <2>7 DEF StateInv, EipInv
<1>7. OrderInv'
  <2>1. /\ UNCHANGED destroying /\ AttTurn /\ retire' \subseteq retire
        /\ pc'.net = pc.net /\ pc'.nat = pc.nat /\ pc'.eip = pc.eip /\ pc'.snat = pc.snat
        /\ \A q \in Res : q # "att" => pc'[q] = pc[q]
    BY <1>1, <1>2 DEF AttKeeps, AttLeaves, Moves, Res
  <2>2. CASE destroying
    BY <2>1, <2>2 DEF StateInv, OrderInv, AttTurn
  <2>3. CASE ~destroying
    <3>1. \A r \in Res : pc'[r] # "gone"
      BY <2>1, <2>3 DEF StateInv, OrderInv, AttTurn
    <3> QED BY <2>1, <2>3, <3>1 DEF StateInv, OrderInv, AttTurn, AttWork
  <2> QED BY <2>2, <2>3
<1> QED BY <1>1, <1>3, <1>5, <1>6, <1>7 DEF StateInv, AttKeeps

-----------------------------------------------------------------------------
(* The entries. *)

SnatLeaves ==
    /\ UNCHANGED <<net, nat, eip, want, outgoing, destroying, history>>
    /\ gen'.nat = gen.nat /\ gen'.eip = gen.eip
    /\ saved'.nat = saved.nat /\ saved'.eip = saved.eip
    /\ saved'.attEip = saved.attEip /\ saved'.attNat = saved.attNat
    /\ retire' \in {retire, retire \ {"snat"}, retire \ {"table"}}

SnatTurn ==
    /\ destroying => pc'.snat \in Ending
    /\ ~destroying => /\ pc.snat # "done" /\ pc'.snat # "gone"
                      /\ pc'.snat \in Work \cup {"done"} => pc.att = "done"

SnatKeeps ==
    /\ CloudType' /\ EngineType' /\ (\E step : Moves("snat", step))
    /\ SnatLeaves /\ SnatTurn
    /\ SnatInv' /\ CloudInv' /\ FitInv'

\* Nothing but the step of the handler changes.
LEMMA SnatGoes ==
    ASSUME StateInv, UNCHANGED <<cloud, engine, history>>, NEW step, Moves("snat", step),
           SnatTurn, SnatHold', FitInv'
    PROVE  SnatKeeps
<1>1. /\ UNCHANGED <<net, nat, eip, snat>>
      /\ UNCHANGED <<want, gen, retire, saved, outgoing, destroying, touched, released>>
  BY DEF cloud, engine, history
<1>2. CloudType' /\ EngineType'
  BY <1>1, TypeParts DEF StateInv, CloudType, EngineType
<1>3. SnatInv'
  BY <1>1 DEF StateInv, SnatInv, Removed, LiveSnat, Line, Live
<1>4. CloudInv'
  BY <1>1, CloudSame DEF StateInv
<1>5. SnatLeaves
  BY <1>1 DEF SnatLeaves, history
<1> QED BY <1>2, <1>3, <1>4, <1>5 DEF SnatKeeps

LEMMA SnatWork ==
    ASSUME StateInv, pc.snat \in Work
    PROVE  /\ ~destroying /\ retire \cap {"nat", "snat", "table"} = {} /\ ~Removed
           /\ pc.att = "done" /\ saved.nat \in Ngw
<1>1. pc.snat \notin Ending /\ pc.snat \notin Waiting \cup Deletion
  BY DEF Work, HeldStep, Ending, Waiting, Deletion
<1>2. ~destroying /\ "snat" \notin retire /\ "table" \notin retire
  BY <1>1 DEF StateInv, OrderInv, Res, SnatInv, SnatHold
<1>3. pc.att = "done" /\ pc.nat = "done"
  BY <1>2 DEF StateInv, OrderInv, Work, HeldStep
<1>4. "nat" \notin retire /\ saved.nat # None
  BY <1>2, <1>3 DEF StateInv, NatInv, NatHold, Waiting
<1>5. saved.nat \in Ngw
  BY <1>4 DEF StateInv, TypeOK
<1> QED BY <1>2, <1>3, <1>4, <1>5 DEF Removed

\* The entries change: those that are live use a bound address.
LEMMA SnatChanges ==
    ASSUME StateInv, UNCHANGED <<net, nat, eip, engine, history>>, snat' \in [Snat -> Entry],
           \A s \in Snat : Live(snat'[s]) =>
              \/ /\ Live(snat[s])
                 /\ snat'[s].table = snat[s].table /\ snat'[s].ip = snat[s].ip
              \/ /\ snat'[s].table \in Ngw /\ snat'[s].ip \in Eip
                 /\ CanUse(snat'[s].ip, snat'[s].table),
           \A s \in Snat : snat'[s].status = "unborn" =>
              snat[s].status = "unborn" /\ snat'[s].table = snat[s].table
    PROVE  CloudType' /\ EngineType' /\ SnatLeaves /\ CloudInv'
<1>1. UNCHANGED <<want, gen, retire, saved, outgoing, destroying, touched, released>>
  BY DEF engine, history
<1>2. CloudType' /\ EngineType' /\ SnatLeaves
  BY <1>1, TypeParts DEF StateInv, CloudType, EngineType, SnatLeaves, history
<1>3. CloudInv'
  <2>1. \A s \in LiveSnat' : /\ snat'[s].table \in Ngw /\ snat'[s].ip \in Eip
                             /\ eip[snat'[s].ip].status = "InUse"
                             /\ eip[snat'[s].ip].on = snat'[s].table
    BY DEF StateInv, CloudInv, LiveSnat, CanUse, Bound
  <2> QED BY <2>1 DEF StateInv, CloudInv
<1> QED BY <1>2, <1>3

\* An entry is changed in its place.
LEMMA SnatAges ==
    ASSUME StateInv, UNCHANGED <<engine, history>>, SnatHold',
           \A s \in Snat : /\ snat'[s].gen = snat[s].gen /\ snat'[s].table = snat[s].table
                           /\ snat'[s].status = "unborn" <=> snat[s].status = "unborn"
                           /\ Live(snat'[s]) <=> Live(snat[s])
                           /\ snat'[s].status = "Deleting" => snat[s].status = "Deleting" \/ Removed
    PROVE  SnatInv'
<1>1. UNCHANGED <<gen, retire, saved, destroying, released>>
  BY DEF engine, history
<1>2. LiveSnat' = LiveSnat /\ (Removed' <=> Removed)
  BY <1>1 DEF LiveSnat, Removed
<1>3. Ages(snat, snat', Snat)
  BY DEF Ages
<1>4. Line(snat', Snat, gen.snat, saved.snat, None, Removed, released)
  <2>1. saved.snat \in Snat \cup {None} /\ None \notin Snat /\ Removed \in BOOLEAN
    BY NoneAssumption DEF StateInv, TypeOK, Removed
  <2>2. Line(snat, Snat, gen.snat, saved.snat, None, Removed, released)
    BY DEF StateInv, SnatInv
  <2>3. \A i \in Snat \cap released : i \in released \/ snat'[i].status = "gone"
    OBVIOUS
  <2>4. saved.snat # None /\ Live(snat[saved.snat])
          => Live(snat'[saved.snat]) \/ saved.snat \in released \/ Removed
    BY <2>1
  <2>5. released \subseteq released
    OBVIOUS
  <2> HIDE DEF Removed
  <2> QED BY <1>3, <2>1, <2>2, <2>3, <2>4, <2>5, LineAges
<1>5. saved.snat # None => saved.table = snat'[saved.snat].table
  BY DEF StateInv, SnatInv, TypeOK
<1>6. \A s \in Snat : snat'[s].status = "Deleting" /\ snat'[s].gen = gen.snat => Removed
  BY DEF StateInv, SnatInv
<1>7. ~Removed => \A s \in LiveSnat : snat'[s].gen = gen.snat =>
                     snat'[s].table = saved.nat /\ "nat" \notin retire
  BY DEF StateInv, SnatInv, LiveSnat
<1>8. Line(snat', Snat, gen'.snat, saved'.snat, None, Removed', released')
  <2>1. gen'.snat = gen.snat /\ saved'.snat = saved.snat /\ Removed' = Removed /\ released' = released
    BY <1>1 DEF Removed
  <2> HIDE DEF Removed
  <2> QED BY <1>4, <2>1
<1> QED BY <1>1, <1>2, <1>5, <1>6, <1>7, <1>8 DEF SnatInv

LEMMA ObserveSnatKeeps ==
    ASSUME StateInv, ObserveSnat
    PROVE  SnatKeeps
<1>1. /\ pc.snat = "observe" /\ UNCHANGED <<cloud, engine, history, upsets>>
      /\ TypeOK /\ EngineType
  BY TypeParts DEF ObserveSnat, StateInv
<1>2. /\ ~destroying /\ retire \cap {"nat", "snat", "table"} = {} /\ ~Removed
      /\ pc.att = "done" /\ saved.nat \in Ngw
  BY <1>1, SnatWork DEF Work
<1>3. ASSUME NEW step \in {"create", "tune", "failed"}, Moves("snat", step), pc'.snat = step,
             step = "tune" => /\ cur'.snat \in LiveSnat /\ snat[cur'.snat].gen = gen.snat
                              /\ snat[cur'.snat].table = saved.nat
      PROVE  SnatKeeps
  <2>1. SnatTurn
    BY <1>1, <1>2, <1>3 DEF SnatTurn
  <2>2. FitInv'
    BY <1>3 DEF FitInv
  <2>3. SnatHold'
    BY <1>1, <1>2, <1>3, NoneAssumption
    DEF SnatHold, engine, cloud, HeldStep, Deletion, LiveSnat, Live
  <2> QED BY <1>1, <1>3, <2>1, <2>2, <2>3, SnatGoes
<1>4. CASE Fail("snat")
  <2>1. Moves("snat", "failed") /\ pc'.snat = "failed"
    BY <1>1, <1>4, EndType DEF Moves, Fail, TypeOK, Res, Step, Rest
  <2> QED BY <1>3, <2>1
<1>5. CASE Goto("snat", "create") /\ UNCHANGED cur
  <2>1. Moves("snat", "create") /\ pc'.snat = "create"
    BY <1>1, <1>5, GotoType DEF Moves, TypeOK, Cur, Res, Step
  <2> QED BY <1>3, <2>1
<1>6. ASSUME NEW s \in FoundSnat, saved.snat # None \/ snat[s].gen = gen.snat,
             cur' = [cur EXCEPT !.snat = s], Goto("snat", "tune")
      PROVE  SnatKeeps
  <2>1. s \in LiveSnat /\ s \in Snat /\ snat[s].table = saved.nat /\ snat[s].gen = gen.snat
    BY <1>6 DEF FoundSnat, LiveSnat, StateInv, SnatInv, Line
  <2>2. /\ pc'.snat = "tune" /\ (\A q \in Res : q # "snat" => pc'[q] = pc[q])
        /\ pc' \in [Res -> Step]
    BY <1>1, <1>6, GotoType DEF Res, Step
  <2>3. cur' \in Cur /\ cur'.snat = s /\ cur'.eip = cur.eip /\ cur'.nat = cur.nat
    BY <1>1, <1>6, <2>1 DEF TypeOK, Cur
  <2>4. Moves("snat", "tune")
    BY <1>1, <2>2, <2>3 DEF Moves, TypeOK
  <2> QED BY <1>3, <2>1, <2>2, <2>3, <2>4
<1> QED BY <1>1, <1>4, <1>5, <1>6 DEF ObserveSnat

LEMMA CreateSnatEntryKeeps ==
    ASSUME StateInv, CreateSnatEntry
    PROVE  SnatKeeps
<1>1. pc.snat = "create" /\ UNCHANGED <<engine, history>> /\ TypeOK
  BY DEF CreateSnatEntry, StateInv
<1>2. /\ ~destroying /\ retire \cap {"nat", "snat", "table"} = {} /\ ~Removed
      /\ pc.att = "done" /\ saved.nat \in Ngw
  BY <1>1, SnatWork DEF Work
<1>3. UNCHANGED <<want, gen, retire, saved, outgoing, destroying, touched, released>>
  BY <1>1 DEF engine, history
<1>4. ASSUME pc'.snat \in {"create", "failed"}, Moves("snat", "created"), UNCHANGED cloud
      PROVE  SnatKeeps
  <2>1. SnatTurn /\ SnatHold' /\ FitInv'
    BY <1>1, <1>2, <1>3, <1>4 DEF SnatTurn, Deletion, SnatHold, HeldStep, FitInv
  <2> QED BY <1>1, <1>4, <2>1, SnatGoes
<1>5. CASE Lost("snat") /\ UNCHANGED cloud
  BY <1>1, <1>4, <1>5, LostMoves DEF Res, Step
<1>6. CASE Fail("snat") /\ Calm /\ UNCHANGED cloud
  BY <1>1, <1>4, <1>6, FailMoves DEF Res, Step
<1>7. ASSUME NEW s \in Snat, CanUse(saved.eip, saved.nat), CreateSnat(s),
             \/ cur' = [cur EXCEPT !.snat = s] /\ Goto("snat", "created") /\ Calm
             \/ Lost("snat")
      PROVE  SnatKeeps
  <2> DEFINE bought == { t \in LiveSnat : snat[t].gen = gen.snat }
             new == [status |-> "Pending", gen |-> gen.snat,
                     table |-> saved.nat, ip |-> saved.eip, tuned |-> TRUE]
  <2>1. /\ Moves("snat", "created") /\ pc'.snat \in {"created", "create", "failed"}
        /\ pc'.snat = "created" => cur'.snat = s
    <3>1. CASE cur' = [cur EXCEPT !.snat = s] /\ Goto("snat", "created") /\ Calm
      BY <1>1, <3>1, GotoType, UpsetType DEF Moves, TypeOK, Cur, Res, Step
    <3>2. CASE Lost("snat")
      BY <1>1, <3>2, LostMoves DEF Res, Step
    <3> QED BY <1>7, <3>1, <3>2
  <2>2. SnatTurn /\ FitInv'
    BY <1>1, <1>2, <2>1 DEF SnatTurn, FitInv
  <2>3. s # None
    BY NoneAssumption
  <2>4. s \in bought \/ (bought = {} /\ snat[s].status = "unborn")
    BY <1>7, FreshType DEF CreateSnat
  <2>5. CASE Live(snat[s])
    <3>1. UNCHANGED cloud /\ snat[s].gen = gen.snat /\ snat[s].status # "unborn"
      BY <1>7, <2>4, <2>5 DEF CreateSnat, Live
    <3>2. snat[s].table = saved.nat
      BY <1>2, <2>5, <3>1 DEF StateInv, SnatInv, LiveSnat
    <3>3. SnatHold'
      BY <1>1, <1>2, <1>3, <2>1, <2>3, <3>1, <3>2 DEF SnatHold, HeldStep, Deletion, cloud
    <3> QED BY <1>1, <2>1, <2>2, <3>1, <3>3, SnatGoes
  <2>6. CASE ~Live(snat[s])
    <3>1. SetSnat(s, new) /\ snat[s].status = "unborn" /\ bought = {}
      BY <1>7, <2>4, <2>6 DEF CreateSnat, LiveSnat
    <3>2. new \in Entry
      BY <1>1 DEF TypeOK, Entry, Status
    <3>3. /\ UNCHANGED <<net, nat, eip>> /\ snat' \in [Snat -> Entry]
          /\ \A t \in Snat : snat'[t] = IF t = s THEN new ELSE snat[t]
      BY <1>1, <3>1, <3>2, SetSnatType
    <3>4. saved.eip \in Eip
      BY <1>1, <1>7 DEF TypeOK, CanUse, Bound
    <3>5. CloudType' /\ EngineType' /\ SnatLeaves /\ CloudInv'
      BY <1>1, <1>2, <1>7, <3>3, <3>4, SnatChanges
    <3>6. Line(snat', Snat, gen.snat, saved.snat, None, Removed, released)
      <4>1. saved.snat \in Snat \cup {None} /\ gen.snat \in Nat
        BY <1>1 DEF TypeOK, Generation
      <4>2. Line(snat, Snat, gen.snat, saved.snat, None, Removed, released)
        BY DEF StateInv, SnatInv
      <4>3. Live(snat'[s]) /\ snat'[s].gen = gen.snat /\ \A t \in Snat : t # s => snat'[t] = snat[t]
        BY <3>3 DEF Live
      <4>4. \A t \in Snat : Live(snat[t]) => snat[t].gen # gen.snat
        BY <3>1 DEF LiveSnat
      <4> HIDE DEF Removed
      <4> QED BY <1>2, <3>1, <4>1, <4>2, <4>3, <4>4, NoneAssumption, LineBirth
    <3>7. SnatHold'
      BY <1>1, <1>2, <1>3, <2>1, <2>3, <3>3 DEF SnatHold, HeldStep, Deletion
    <3>8. SnatInv'
      <4>1. \A t \in Snat : ~(snat'[t].status = "Deleting" /\ snat'[t].gen = gen.snat)
        BY <1>2, <3>3 DEF StateInv, SnatInv
      <4>2. \A t \in LiveSnat' : snat'[t].gen = gen.snat => snat'[t].table = saved.nat
        BY <3>1, <3>3 DEF LiveSnat
      <4>3. saved.snat # None => saved.table = snat'[saved.snat].table
        <5>1. saved.snat # None => saved.snat \in Snat /\ saved.snat # s
          BY <1>1, <3>1 DEF StateInv, SnatInv, Line, TypeOK
        <5> QED BY <3>3, <5>1 DEF StateInv, SnatInv
      <4>4. Removed' = Removed
        BY <1>3 DEF Removed
      <4>5. Line(snat', Snat, gen'.snat, saved'.snat, None, Removed', released')
        <5> HIDE DEF Removed
        <5> QED BY <1>3, <3>6, <4>4
      <4> QED BY <1>2, <1>3, <3>7, <4>1, <4>2, <4>3, <4>4, <4>5 DEF SnatInv
    <3> QED BY <2>1, <2>2, <3>5, <3>8 DEF SnatKeeps
  <2> QED BY <2>5, <2>6
<1> QED BY <1>5, <1>6, <1>7 DEF CreateSnatEntry

LEMMA AwaitSnatKeeps ==
    ASSUME StateInv, AwaitSnat
    PROVE  SnatKeeps
<1>1. /\ pc.snat = "created" /\ UNCHANGED <<engine, history>> /\ TypeOK
      /\ Wait("snat", snat[cur.snat].status = "Available", SnatBusy(cur.snat), "tune")
  BY DEF AwaitSnat, StateInv
<1>2. /\ ~destroying /\ retire \cap {"nat", "snat", "table"} = {} /\ ~Removed
      /\ pc.att = "done"
  BY <1>1, SnatWork DEF Work, HeldStep
<1>3. /\ Moves("snat", "tune") /\ Holds("snat") /\ UNCHANGED cloud
      /\ pc'.snat \in {"tune", "failed"}
  BY <1>1, WaitMoves DEF Res, Step
<1>4. SnatTurn /\ FitInv'
  BY <1>1, <1>2, <1>3 DEF SnatTurn, FitInv
<1>5. SnatHold'
  BY <1>1, <1>2, <1>3 DEF StateInv, SnatInv, SnatHold, HeldStep, Deletion, Holds, engine, cloud
<1> QED BY <1>1, <1>3, <1>4, <1>5, SnatGoes

LEMMA ModifySnatEntryKeeps ==
    ASSUME StateInv, ModifySnatEntry
    PROVE  SnatKeeps
<1> DEFINE s == cur.snat
           new == [snat[s] EXCEPT !.tuned = TRUE, !.ip = saved.eip]
<1>1. pc.snat = "tune" /\ UNCHANGED <<engine, history>> /\ TypeOK
  BY DEF ModifySnatEntry, StateInv
<1>2. /\ ~destroying /\ retire \cap {"nat", "snat", "table"} = {} /\ ~Removed
      /\ pc.att = "done" /\ saved.nat \in Ngw
  BY <1>1, SnatWork DEF Work, HeldStep
<1>3. /\ s \in Snat /\ snat[s].status # "unborn" /\ snat[s].gen = gen.snat
      /\ snat[s].table = saved.nat
  BY <1>1 DEF StateInv, SnatInv, SnatHold, HeldStep, TypeOK
<1>4. \/ Proceed("snat", "final") /\ UNCHANGED cloud
      \/ Call("snat", Live(snat[s]) /\ CanUse(saved.eip, saved.nat), SetSnat(s, new), "final")
  BY DEF ModifySnatEntry
<1>5. /\ Moves("snat", "final") /\ Holds("snat")
      /\ \/ UNCHANGED cloud
         \/ Live(snat[s]) /\ CanUse(saved.eip, saved.nat) /\ SetSnat(s, new)
  <2> DEFINE allowed == Live(snat[s]) /\ CanUse(saved.eip, saved.nat)
  <2>1. CASE Proceed("snat", "final") /\ UNCHANGED cloud
    BY <1>1, <2>1, ProceedMoves DEF Holds, Res, Step
  <2>2. CASE Call("snat", allowed, SetSnat(s, new), "final")
    <3>1. Moves("snat", "final") /\ Holds("snat") /\ ((allowed /\ SetSnat(s, new)) \/ UNCHANGED cloud)
      <4> HIDE DEF new, allowed
      <4> QED BY <1>1, <2>2, CallMoves DEF Res, Step
    <3> QED BY <3>1
  <2> QED BY <1>4, <2>1, <2>2
<1>6. pc'.snat \in {"tune", "final", "failed"} /\ (pc'.snat # "failed" => cur' = cur)
  BY <1>1, <1>5 DEF Moves, Holds
<1>7. SnatTurn /\ FitInv'
  BY <1>1, <1>2, <1>6 DEF SnatTurn, FitInv
<1>8. CASE UNCHANGED cloud
  <2>1. SnatHold'
    BY <1>1, <1>2, <1>3, <1>6, <1>8, NoneAssumption DEF SnatHold, HeldStep, Deletion, engine, cloud
  <2> QED BY <1>1, <1>5, <1>7, <1>8, <2>1, SnatGoes
<1>9. CASE Live(snat[s]) /\ CanUse(saved.eip, saved.nat) /\ SetSnat(s, new)
  <2>1. saved.eip \in Eip /\ snat[s] \in Entry
    BY <1>1, <1>3, <1>9 DEF TypeOK, CanUse, Bound
  <2>2. /\ new \in Entry /\ new.gen = snat[s].gen /\ new.status = snat[s].status
        /\ new.table = snat[s].table /\ new.ip = saved.eip
    BY <2>1 DEF Entry
  <2> HIDE DEF new
  <2>3. /\ UNCHANGED <<net, nat, eip>> /\ snat' \in [Snat -> Entry]
        /\ \A t \in Snat : snat'[t] = IF t = s THEN new ELSE snat[t]
    BY <1>1, <1>9, <2>2, SetSnatType
  <2>4. \A t \in Snat : /\ snat'[t].gen = snat[t].gen /\ snat'[t].table = snat[t].table
                        /\ snat'[t].status = snat[t].status
                        /\ snat'[t].ip = IF t = s THEN saved.eip ELSE snat[t].ip
    BY <2>2, <2>3
  <2>5. CloudType' /\ EngineType' /\ SnatLeaves /\ CloudInv'
    <3>1. \A t \in Snat : Live(snat'[t]) =>
              \/ /\ Live(snat[t])
                 /\ snat'[t].table = snat[t].table /\ snat'[t].ip = snat[t].ip
              \/ /\ snat'[t].table \in Ngw /\ snat'[t].ip \in Eip
                 /\ CanUse(snat'[t].ip, snat'[t].table)
      BY <1>2, <1>3, <1>9, <2>1, <2>4 DEF Live
    <3> QED BY <1>1, <2>3, <2>4, <3>1, SnatChanges
  <2>6. SnatHold'
    BY <1>1, <1>2, <1>3, <1>6, <2>4, NoneAssumption DEF SnatHold, HeldStep, Deletion, engine
  <2>7. SnatInv'
    BY <1>1, <2>4, <2>6, SnatAges DEF Live
  <2> QED BY <1>5, <1>7, <2>5, <2>7 DEF SnatKeeps
<1> QED BY <1>5, <1>8, <1>9

LEMMA FinalSnatKeeps ==
    ASSUME StateInv, FinalSnat
    PROVE  SnatKeeps
<1> DEFINE s == cur.snat
<1>1. /\ pc.snat = "final" /\ TypeOK
      /\ UNCHANGED <<cloud, want, gen, retire, outgoing, destroying, history>>
  BY DEF FinalSnat, StateInv
<1>2. /\ ~destroying /\ retire \cap {"nat", "snat", "table"} = {} /\ ~Removed
      /\ pc.att = "done" /\ saved.nat \in Ngw
  BY <1>1, SnatWork DEF Work, HeldStep
<1>3. /\ s \in Snat /\ s # None /\ snat[s].status # "unborn" /\ snat[s].gen = gen.snat
      /\ snat[s].table = saved.nat
  BY <1>1 DEF StateInv, SnatInv, SnatHold, HeldStep, TypeOK
<1>4. CASE Fail("snat") /\ (IF SnatBusy(s) THEN Upset ELSE Calm) /\ UNCHANGED saved
  <2>1. Upset \/ Calm
    BY <1>4
  <2>2. Moves("snat", "failed") /\ pc'.snat = "failed" /\ UNCHANGED engine
    BY <1>1, <1>4, <2>1, FailMoves DEF Res, engine
  <2>3. SnatTurn /\ SnatHold' /\ FitInv'
    BY <1>1, <1>2, <2>2 DEF SnatTurn, SnatHold, FitInv, HeldStep, Deletion, Work, engine
  <2> QED BY <1>1, <2>2, <2>3, SnatGoes
<1>5. CASE /\ SnatFits(s) /\ End("snat", "done") /\ Calm
           /\ saved' = [saved EXCEPT !.snat = s, !.table = saved.nat]
  <2>1. Moves("snat", "done") /\ pc'.snat = "done"
    BY <1>1, <1>5, EndType, UpsetType DEF Moves, Res, Step, Rest
  <2>2. /\ saved' \in Output /\ saved'.snat = s /\ saved'.table = saved.nat
        /\ saved'.nat = saved.nat /\ saved'.eip = saved.eip
        /\ saved'.attEip = saved.attEip /\ saved'.attNat = saved.attNat
    <3>1. saved \in Output
      BY <1>1, TypeParts DEF EngineType
    <3> QED BY <1>2, <1>3, <1>5, <3>1 DEF Output
  <2>3. EngineType' /\ CloudType' /\ CloudInv'
    BY <1>1, <2>2, TypeParts, CloudSame DEF EngineType, StateInv, CloudType, cloud
  <2>4. SnatLeaves /\ SnatTurn
    BY <1>1, <1>2, <2>1, <2>2 DEF SnatLeaves, SnatTurn, cloud, history
  <2>5. FitInv'
    BY <1>1, <1>3, <1>5, <2>2 DEF FitInv, SnatFits, cloud
  <2>6. SnatHold'
    BY <1>1, <1>2, <1>3, <2>1, <2>2 DEF SnatHold, HeldStep, Deletion, cloud
  <2>7. Line(snat, Snat, gen.snat, s, None, Removed, released)
    <3>1. Line(snat, Snat, gen.snat, saved.snat, None, Removed, released)
      BY DEF StateInv, SnatInv
    <3>2. Live(snat[s])
      BY <1>5 DEF SnatFits, Live
    <3> HIDE DEF Removed
    <3> QED BY <1>3, <3>1, <3>2, LineSave
  <2>8. SnatInv'
    <3>1. Removed' = Removed /\ LiveSnat' = LiveSnat /\ snat' = snat /\ released' = released
          /\ UNCHANGED <<gen, retire, destroying>>
      BY <1>1 DEF Removed, LiveSnat, Live, cloud, history
    <3>2. Line(snat', Snat, gen'.snat, saved'.snat, None, Removed', released')
      <4> HIDE DEF Removed
      <4> QED BY <2>2, <2>7, <3>1
    <3> QED BY <1>2, <1>3, <2>2, <2>6, <3>1, <3>2 DEF StateInv, SnatInv
  <2> QED BY <2>1, <2>3, <2>4, <2>5, <2>8 DEF SnatKeeps
<1> QED BY <1>4, <1>5 DEF FinalSnat

LEMMA StartDeleteSnatKeeps ==
    ASSUME StateInv, StartDeleteSnat
    PROVE  SnatKeeps
<1>1. /\ destroying /\ pc.snat = "idle" /\ TypeOK
      /\ cur' = [cur EXCEPT !.snat = saved.snat] /\ Goto("snat", "dRead")
      /\ UNCHANGED <<cloud, engine, history, upsets>>
  BY DEF StartDeleteSnat, StateInv
<1>2. /\ Moves("snat", "dRead") /\ pc'.snat = "dRead" /\ cur'.snat = saved.snat
  BY <1>1, GotoType DEF Moves, TypeOK, Cur, Res, Step
<1>3. SnatTurn /\ FitInv'
  BY <1>1, <1>2 DEF SnatTurn, FitInv, Ending, Deletion
<1>4. retire = {}
  BY <1>1 DEF StateInv, OrderInv
<1>5. SnatHold'
  BY <1>1, <1>2, <1>4 DEF SnatHold, HeldStep, Deletion, Removed, engine
<1> QED BY <1>1, <1>2, <1>3, <1>5, SnatGoes

LEMMA DeleteSnatEntryKeeps ==
    ASSUME StateInv, DeleteSnatEntry
    PROVE  SnatKeeps
<1> DEFINE s == cur.snat
           new == [snat[s] EXCEPT !.status = "Deleting"]
<1>1. pc.snat = "dRead" /\ UNCHANGED <<engine, history>> /\ TypeOK
  BY DEF DeleteSnatEntry, StateInv
<1>2. s = saved.snat /\ Removed /\ "table" \notin retire
  BY <1>1 DEF StateInv, SnatInv, SnatHold, Deletion, Waiting
<1>3. \/ Proceed("snat", "dAbsent") /\ UNCHANGED cloud
      \/ s \in LiveSnat /\ Call("snat", snat[s].status = "Available", SetSnat(s, new), "dAbsent")
  BY DEF DeleteSnatEntry
<1>4. /\ Moves("snat", "dAbsent") /\ Holds("snat")
      /\ UNCHANGED cloud \/ (s \in LiveSnat /\ SetSnat(s, new))
  <2>1. CASE Proceed("snat", "dAbsent") /\ UNCHANGED cloud
    BY <1>1, <2>1, ProceedMoves DEF Holds, Res, Step
  <2>2. CASE s \in LiveSnat /\ Call("snat", snat[s].status = "Available", SetSnat(s, new), "dAbsent")
    <3> HIDE DEF new
    <3> QED BY <1>1, <2>2, CallMoves DEF Res, Step
  <2> QED BY <1>3, <2>1, <2>2
<1>5. pc'.snat \in {"dRead", "dAbsent", "failed"} /\ (pc'.snat # "failed" => cur' = cur)
  BY <1>1, <1>4 DEF Moves, Holds
<1>6. SnatTurn /\ FitInv'
  BY <1>1, <1>5 DEF SnatTurn, FitInv, Ending, Deletion, Work, HeldStep
<1>7. CASE UNCHANGED cloud
  <2>1. SnatHold'
    BY <1>1, <1>2, <1>5, <1>7
    DEF StateInv, SnatInv, SnatHold, HeldStep, Deletion, Waiting, Removed, engine, cloud
  <2> QED BY <1>1, <1>4, <1>6, <1>7, <2>1, SnatGoes
<1>8. CASE s \in LiveSnat /\ SetSnat(s, new)
  <2>1. s \in Snat /\ snat[s] \in Entry
    BY <1>1, <1>8 DEF TypeOK, LiveSnat
  <2>2. /\ new \in Entry /\ new.gen = snat[s].gen /\ new.status = "Deleting"
        /\ new.table = snat[s].table /\ new.ip = snat[s].ip
    BY <2>1 DEF Entry, Status
  <2> HIDE DEF new
  <2>3. /\ UNCHANGED <<net, nat, eip>> /\ snat' \in [Snat -> Entry]
        /\ \A t \in Snat : snat'[t] = IF t = s THEN new ELSE snat[t]
    BY <1>1, <1>8, <2>2, SetSnatType
  <2>4. \A t \in Snat : /\ snat'[t].gen = snat[t].gen /\ snat'[t].table = snat[t].table
                        /\ snat'[t].ip = snat[t].ip
                        /\ snat'[t].status = IF t = s THEN "Deleting" ELSE snat[t].status
    BY <2>2, <2>3
  <2>5. snat[s].status # "unborn" /\ Live(snat[s])
    BY <1>8 DEF LiveSnat, Live
  <2>6. CloudType' /\ EngineType' /\ SnatLeaves /\ CloudInv'
    BY <1>1, <2>3, <2>4, <2>5, SnatChanges DEF Live
  <2>7. SnatHold'
    <3>1. UNCHANGED <<retire, saved, destroying>>
      BY <1>1 DEF engine
    <3>2. "snat" \in retire => saved.snat # None
      BY DEF StateInv, SnatInv, SnatHold
    <3> QED BY <1>1, <1>2, <1>5, <3>1, <3>2 DEF SnatHold, HeldStep, Deletion, Waiting, Removed
  <2>8. SnatInv'
    BY <1>1, <1>2, <2>4, <2>5, <2>7, SnatAges DEF Live
  <2> QED BY <1>4, <1>6, <2>6, <2>8 DEF SnatKeeps
<1> QED BY <1>4, <1>7, <1>8

\* The saved entry is no more: a new generation begins.
LEMMA SnatTurns ==
    ASSUME StateInv, UNCHANGED <<cloud, want, outgoing, destroying, history>>,
           ~destroying, saved.snat # None, saved.snat \notin LiveSnat,
           saved' = [saved EXCEPT !.snat = None, !.table = None],
           gen' = [gen EXCEPT !.snat = @ + 1],
           retire' \in {retire \ {"snat"}, retire \ {"table"}}, "snat" \notin retire', "table" \notin retire',
           NEW step, Moves("snat", step), SnatTurn,
           pc'.snat \in {"observe", "idle"}
    PROVE  SnatKeeps
<1>1. TypeOK /\ EngineType /\ CloudType /\ UNCHANGED <<net, nat, eip, snat, touched, released>>
  BY TypeParts DEF StateInv, cloud, history
<1>2. saved.snat \in Snat /\ ~Live(snat[saved.snat])
  BY <1>1 DEF TypeOK, LiveSnat
<1>3. /\ saved' \in Output /\ saved'.snat = None
      /\ saved'.nat = saved.nat /\ saved'.eip = saved.eip
      /\ saved'.attEip = saved.attEip /\ saved'.attNat = saved.attNat
  BY <1>1 DEF EngineType, Output
<1>4. /\ gen' \in [{"nat", "eip", "snat"} -> Generation]
      /\ gen.snat \in Nat /\ gen'.snat = gen.snat + 1
      /\ gen'.nat = gen.nat /\ gen'.eip = gen.eip
  BY <1>1 DEF EngineType, Generation
<1>5. EngineType' /\ CloudType' /\ CloudInv'
  BY <1>1, <1>3, <1>4, CloudSame DEF EngineType, StateInv, CloudType
<1>6. SnatLeaves
  BY <1>1, <1>3, <1>4 DEF SnatLeaves, history
<1>7. /\ Line(snat, Snat, gen.snat + 1, None, None, FALSE, released)
      /\ \A s \in Snat : snat[s].status # "unborn" => snat[s].gen # gen.snat + 1
  <2>1. \A s \in Snat : snat[s].gen \in Nat
    BY <1>1 DEF CloudType, Entry, Generation
  <2>2. Line(snat, Snat, gen.snat, saved.snat, None, Removed, released)
    BY DEF StateInv, SnatInv
  <2>3. None \notin Snat /\ gen.snat \in Nat
    BY <1>4, NoneAssumption
  <2>4. ASSUME NEW g \in Nat, NEW s \in Snat, ~Live(snat[s]), NEW lost,
               Line(snat, Snat, g, s, None, lost, released)
        PROVE  /\ Line(snat, Snat, g + 1, None, None, FALSE, released)
               /\ \A t \in Snat : snat[t].status # "unborn" => snat[t].gen # g + 1
    BY <2>1, <2>3, <2>4, LineTurn
  <2> HIDE DEF Removed
  <2> QED BY <1>2, <2>2, <2>3, <2>4
<1>8. SnatHold' /\ FitInv'
  BY <1>3 DEF SnatHold, FitInv, HeldStep, Deletion
<1>9. SnatInv'
  <2>1. Removed' = FALSE /\ snat' = snat /\ released' = released
    BY <1>1 DEF Removed
  <2>2. Line(snat', Snat, gen'.snat, saved'.snat, None, Removed', released')
    BY <1>3, <1>4, <1>7, <2>1
  <2>3. /\ \A s \in Snat : ~(snat'[s].status = "Deleting" /\ snat'[s].gen = gen'.snat)
        /\ \A s \in LiveSnat' : snat'[s].gen # gen'.snat
    BY <1>4, <1>7, <2>1 DEF LiveSnat, Live
  <2> QED BY <1>3, <1>8, <2>2, <2>3 DEF SnatInv
<1> QED BY <1>5, <1>6, <1>8, <1>9 DEF SnatKeeps

LEMMA SnatAbsentKeeps ==
    ASSUME StateInv, SnatAbsent
    PROVE  SnatKeeps
<1>1. /\ pc.snat = "dAbsent" /\ TypeOK /\ EngineType
      /\ UNCHANGED <<cloud, want, outgoing, destroying, history>>
  BY TypeParts DEF SnatAbsent, StateInv
<1>2. cur.snat = saved.snat /\ Removed /\ "table" \notin retire
  BY <1>1 DEF StateInv, SnatInv, SnatHold, Deletion, Waiting
<1>3. CASE Fail("snat") /\ Upset /\ UNCHANGED <<saved, gen, retire>>
  <2>1. Moves("snat", "failed") /\ pc'.snat = "failed" /\ UNCHANGED engine
    BY <1>1, <1>3, FailMoves DEF Res, engine
  <2>2. SnatTurn /\ FitInv'
    BY <1>1, <2>1 DEF SnatTurn, FitInv, Ending, Deletion, Work, HeldStep
  <2>3. SnatHold'
    BY <1>1, <1>2, <2>1 DEF StateInv, SnatInv, SnatHold, HeldStep, Deletion, Waiting, engine
  <2> QED BY <1>1, <2>1, <2>2, <2>3, SnatGoes
<1>4. CASE /\ cur.snat \notin LiveSnat /\ Calm
           /\ End("snat", IF destroying THEN "gone" ELSE "idle")
           /\ saved' = [saved EXCEPT !.snat = None, !.table = None]
           /\ gen' = IF destroying THEN gen ELSE [gen EXCEPT !.snat = @ + 1]
           /\ retire' = retire \ {"snat"}
  <2> DEFINE step == IF destroying THEN "gone" ELSE "idle"
  <2>1. step \in Step
    BY DEF Step, Rest
  <2>2. Moves("snat", step) /\ pc'.snat = step
    <3>1. End("snat", step)
      BY <1>4
    <3> HIDE DEF step
    <3> QED BY <1>1, <1>4, <2>1, <3>1, EndType, UpsetType DEF Moves, Res
  <2>3. SnatTurn
    BY <1>1, <2>2 DEF SnatTurn, Ending, Work, HeldStep
  <2>4. CASE ~destroying
    <3>1. saved.snat # None
      BY <1>2, <2>4 DEF Removed, StateInv, SnatInv, SnatHold
    <3> QED BY <1>1, <1>2, <1>4, <2>2, <2>3, <2>4, <3>1, SnatTurns
  <2>5. CASE destroying
    <3>1. /\ saved' \in Output /\ saved'.snat = None
          /\ saved'.nat = saved.nat /\ saved'.eip = saved.eip
          /\ saved'.attEip = saved.attEip /\ saved'.attNat = saved.attNat
      BY <1>1, <1>4 DEF EngineType, Output
    <3>2. gen' = gen /\ retire' = {} /\ retire = {}
      BY <1>4, <2>5 DEF StateInv, OrderInv
    <3>3. EngineType' /\ CloudType' /\ CloudInv'
      BY <1>1, <3>1, <3>2, TypeParts, CloudSame DEF EngineType, StateInv, CloudType, cloud
    <3>4. SnatLeaves
      BY <1>1, <3>1, <3>2 DEF SnatLeaves, cloud, history
    <3>5. SnatHold' /\ FitInv'
      BY <2>2, <2>5, <3>1, <3>2, <1>1 DEF SnatHold, FitInv, HeldStep, Deletion
    <3>6. Line(snat, Snat, gen.snat, None, None, TRUE, released)
      <4>1. Line(snat, Snat, gen.snat, saved.snat, None, Removed, released)
        BY DEF StateInv, SnatInv
      <4> HIDE DEF Removed
      <4> QED BY <4>1, LineForget
    <3>7. SnatInv'
      <4>1. Removed' = TRUE /\ snat' = snat /\ released' = released
        BY <1>1, <2>5 DEF Removed, cloud, history
      <4>2. Line(snat', Snat, gen'.snat, saved'.snat, None, Removed', released')
        BY <3>1, <3>2, <3>6, <4>1
      <4> QED BY <3>1, <3>5, <4>1, <4>2 DEF SnatInv
    <3> QED BY <2>2, <2>3, <3>3, <3>4, <3>5, <3>7 DEF SnatKeeps
  <2> QED BY <2>4, <2>5
<1> QED BY <1>3, <1>4 DEF SnatAbsent

LEMMA PlanSnatKeeps ==
    ASSUME StateInv, PlanSnat
    PROVE  SnatKeeps
<1>1. /\ pc.snat \in {"idle", "planned"} /\ ~destroying /\ TypeOK
      /\ UNCHANGED <<cloud, want, outgoing, destroying, history, upsets>>
  BY DEF PlanSnat, StateInv
<1>2. CASE "snat" \in retire
  <2>1. /\ cur' = [cur EXCEPT !.snat = saved.snat] /\ Goto("snat", "dRead")
        /\ UNCHANGED engine
    BY <1>1, <1>2 DEF PlanSnat, engine
  <2>2. Moves("snat", "dRead") /\ pc'.snat = "dRead" /\ cur'.snat = saved.snat
    BY <1>1, <2>1, GotoType DEF Moves, TypeOK, Cur, Res, Step
  <2>3. SnatTurn /\ FitInv'
    BY <1>1, <2>2 DEF SnatTurn, FitInv, Work, HeldStep
  <2>4. saved.snat # None /\ "table" \notin retire
    BY <1>2 DEF StateInv, SnatInv, SnatHold
  <2>5. SnatHold'
    BY <1>2, <2>1, <2>2, <2>4 DEF SnatHold, HeldStep, Deletion, Removed, engine
  <2> QED BY <1>1, <2>1, <2>2, <2>3, <2>5, SnatGoes
<1>3. CASE "snat" \notin retire
  <2>1. pc.att = "done" /\ UNCHANGED cur
    BY <1>3 DEF PlanSnat
  <2>2. ASSUME NEW step \in Step, Goto("snat", step)
        PROVE  Moves("snat", step) /\ pc'.snat = step
    BY <1>1, <2>1, <2>2, GotoType DEF Moves, TypeOK, Cur, Res
  <2>3. CASE "table" \in retire
    <3>1. /\ retire' = retire \ {"table"}
          /\ saved' = [saved EXCEPT !.snat = None, !.table = None]
          /\ gen' = [gen EXCEPT !.snat = @ + 1]
          /\ Goto("snat", "observe")
      BY <1>3, <2>3 DEF PlanSnat
    <3>2. Moves("snat", "observe") /\ pc'.snat = "observe"
      BY <2>2, <3>1 DEF Step
    <3>3. SnatTurn
      BY <1>1, <2>1, <3>2 DEF SnatTurn
    <3>4. saved.snat # None /\ saved.snat \notin LiveSnat
      BY <2>3 DEF StateInv, SnatInv, SnatHold
    <3> QED BY <1>1, <1>3, <3>1, <3>2, <3>3, <3>4, SnatTurns
  <2>4. CASE "table" \notin retire
    <3> DEFINE step == IF /\ pc.snat = "planned" /\ saved.snat \in LiveSnat
                          /\ SnatFits(saved.snat)
                       THEN "done" ELSE "observe"
    <3>1. Goto("snat", step) /\ UNCHANGED engine
      BY <1>1, <1>3, <2>4 DEF PlanSnat, engine
    <3>2. /\ step \in {"done", "observe"}
          /\ step = "done" => saved.snat # None /\ SnatFits(saved.snat)
      BY NoneAssumption DEF LiveSnat
    <3> HIDE DEF step
    <3>3. Moves("snat", step) /\ pc'.snat = step
      BY <2>2, <3>1, <3>2 DEF Step, Rest
    <3>4. SnatTurn
      BY <1>1, <2>1, <3>2, <3>3 DEF SnatTurn
    <3>5. FitInv'
      BY <1>1, <3>1, <3>2, <3>3 DEF FitInv, SnatFits, cloud, engine
    <3>6. SnatHold'
      BY <1>3, <2>4, <3>1, <3>2, <3>3 DEF SnatHold, HeldStep, Deletion, engine
    <3> QED BY <1>1, <3>1, <3>3, <3>4, <3>5, <3>6, SnatGoes
  <2> QED BY <2>3, <2>4
<1> QED BY <1>2, <1>3

LEMMA SnatStepDoes ==
    ASSUME StateInv, SnatStep
    PROVE  SnatKeeps
BY PlanSnatKeeps, ObserveSnatKeeps, CreateSnatEntryKeeps, AwaitSnatKeeps, ModifySnatEntryKeeps,
   FinalSnatKeeps, StartDeleteSnatKeeps, DeleteSnatEntryKeeps, SnatAbsentKeeps
DEF SnatStep

LEMMA SnatStepKeeps ==
    ASSUME StateInv, SnatStep
    PROVE  StateInv'
<1>1. SnatKeeps
  BY SnatStepDoes
<1>2. PICK step : Moves("snat", step)
  BY <1>1 DEF SnatKeeps
<1>3. TypeOK'
  BY <1>1, <1>2, StepType DEF StateInv, SnatKeeps, SnatLeaves
<1>4. NatApart /\ EipApart /\ NetApart
  BY <1>1, <1>2
  DEF SnatKeeps, SnatLeaves, Moves, NatApart, EipApart, NetApart, history, Res, LiveNat, Live
<1>5. NatInv' /\ EipInv' /\ NetInv'
  BY <1>4, NatSame, EipSame, NetSame DEF StateInv
<1>6. OrderInv'
  <2>1. /\ UNCHANGED destroying /\ SnatTurn /\ retire' \subseteq retire
        /\ pc'.net = pc.net /\ pc'.nat = pc.nat /\ pc'.eip = pc.eip /\ pc'.att = pc.att
        /\ \A q \in Res : q # "snat" => pc'[q] = pc[q]
    BY <1>1, <1>2 DEF SnatKeeps, SnatLeaves, Moves, Res
  <2>2. CASE destroying
    BY <2>1, <2>2 DEF StateInv, OrderInv, SnatTurn
  <2>3. CASE ~destroying
    <3>1. \A r \in Res : pc'[r] # "gone"
      BY <2>1, <2>3 DEF StateInv, OrderInv, SnatTurn
    <3>2. pc'.snat \in Work \cup {"done"} => pc.att = "done" /\ pc.nat = "done" /\ pc.eip = "done"
      BY <2>1, <2>3 DEF StateInv, OrderInv, SnatTurn
    <3> QED BY <2>1, <2>3, <3>1, <3>2 DEF StateInv, OrderInv, SnatTurn, Finished
  <2> QED BY <2>2, <2>3
<1> QED BY <1>1, <1>3, <1>5, <1>6 DEF StateInv, SnatKeeps

-----------------------------------------------------------------------------
(* The cloud and the operator. *)

\* Things of one resource come to an end, of themselves or by hand.
Decays(old, new, Id, s, lost) ==
    \A i \in Id : /\ new[i].gen = old[i].gen
                  /\ new[i].status = "unborn" <=> old[i].status = "unborn"
                  /\ Live(new[i]) => Live(old[i])
                  /\ new[i].status = "Deleting" => old[i].status = "Deleting"
                  /\ i \in released' => i \in released \/ new[i].status = "gone"
                  /\ i = s /\ Live(old[i]) => Live(new[i]) \/ i \in released' \/ lost

\* They keep what they were made for.
SameMake ==
    /\ \A n \in Ngw : nat'[n].place = nat[n].place
    /\ \A e \in Eip : eip'[e].billing = eip[e].billing
    /\ \A s \in Snat : snat'[s].table = snat[s].table

NetDecays ==
    /\ net'.status = "unborn" <=> net.status = "unborn"
    /\ net'.status \in {"Deleting", "gone"} => net.status \in {"Deleting", "gone"}
    /\ Live(net') => Live(net)

Decline ==
    /\ Decays(nat, nat', Ngw, saved.nat, destroying)
    /\ Decays(eip, eip', Eip, saved.eip, destroying)
    /\ Decays(snat, snat', Snat, saved.snat, Removed)
    /\ SameMake /\ NetDecays

LEMMA LineDecays ==
    ASSUME NEW things, NEW things2, NEW Id, NEW g, NEW s \in Id \cup {None},
           NEW o \in Id \cup {None}, NEW lost \in BOOLEAN, None \notin Id,
           Line(things, Id, g, s, o, lost, released), Decays(things, things2, Id, s, lost),
           released \subseteq released'
    PROVE  Line(things2, Id, g, s, o, lost, released')
<1>1. Ages(things, things2, Id)
  BY DEF Decays, Ages
<1>2. \A i \in Id \cap released' : i \in released \/ things2[i].status = "gone"
  BY DEF Decays
<1>3. s # None /\ Live(things[s]) => Live(things2[s]) \/ s \in released' \/ lost
  BY DEF Decays
<1> QED BY <1>1, <1>2, <1>3, LineAges

LEMMA DeclineKeeps ==
    ASSUME StateInv, Decline, UNCHANGED <<engine, pc, cur>>, CloudType', CloudInv', FitInv',
           touched' \in BOOLEAN, released' \in SUBSET (Ngw \cup Eip \cup Snat),
           released \subseteq released', Upset \/ Calm
    PROVE  StateInv'
<1>1. UNCHANGED <<want, gen, retire, saved, outgoing, destroying>>
  BY DEF engine
<1>2. TypeOK /\ None \notin Ngw /\ None \notin Eip /\ None \notin Snat
  BY NoneAssumption DEF StateInv
<1>3. TypeOK'
  BY <1>1, <1>2, UpsetType DEF TypeOK, CloudType
<1>4. OrderInv'
  BY <1>1 DEF StateInv, OrderInv
<1>5. LiveNat' \subseteq LiveNat /\ LiveEip' \subseteq LiveEip /\ LiveSnat' \subseteq LiveSnat
  BY DEF LiveNat, LiveEip, LiveSnat, Decline, Decays
<1>6. NatInv'
  <2>1. Line(nat', Ngw, gen.nat, saved.nat, outgoing.nat, destroying, released')
    <3>1. /\ saved.nat \in Ngw \cup {None} /\ outgoing.nat \in Ngw \cup {None}
          /\ destroying \in BOOLEAN
      BY <1>2 DEF TypeOK
    <3> QED BY <1>2, <3>1, LineDecays DEF StateInv, NatInv, Decline
  <2>2. NatHold'
    <3>1. cur.nat # None => cur.nat \in Ngw
      BY <1>2 DEF TypeOK
    <3> QED BY <1>1, <3>1 DEF StateInv, NatInv, NatHold, Decline, Decays, HeldStep
  <2>3. \A n \in LiveNat' : nat'[n].place = nat[n].place /\ nat'[n].gen = nat[n].gen
    BY DEF Decline, Decays, SameMake, LiveNat
  <2>4. \A n \in Ngw : nat'[n].status = "Deleting" /\ nat'[n].gen = gen.nat => destroying
    BY DEF Decline, Decays, StateInv, NatInv
  <2> QED BY <1>1, <1>5, <2>1, <2>2, <2>3, <2>4 DEF StateInv, NatInv
<1>7. EipInv'
  <2>1. Line(eip', Eip, gen.eip, saved.eip, outgoing.eip, destroying, released')
    <3>1. /\ saved.eip \in Eip \cup {None} /\ outgoing.eip \in Eip \cup {None}
          /\ destroying \in BOOLEAN
      BY <1>2 DEF TypeOK
    <3> QED BY <1>2, <3>1, LineDecays DEF StateInv, EipInv, Decline
  <2>2. EipHold'
    <3>1. cur.eip # None => cur.eip \in Eip
      BY <1>2 DEF TypeOK
    <3> QED BY <1>1, <1>5, <3>1 DEF StateInv, EipInv, EipHold, Decline, Decays, HeldStep
  <2>3. \A e \in LiveEip' : eip'[e].billing = eip[e].billing /\ eip'[e].gen = eip[e].gen
    BY DEF Decline, Decays, SameMake, LiveEip
  <2> QED BY <1>1, <1>5, <2>1, <2>2, <2>3 DEF StateInv, EipInv
<1>8. SnatInv'
  <2>1. Removed' = Removed /\ Removed \in BOOLEAN
    BY <1>1, <1>2 DEF Removed, TypeOK
  <2>2. Line(snat', Snat, gen.snat, saved.snat, None, Removed, released')
    <3>1. saved.snat \in Snat \cup {None}
      BY <1>2 DEF TypeOK
    <3>2. Line(snat, Snat, gen.snat, saved.snat, None, Removed, released)
      BY DEF StateInv, SnatInv
    <3>3. Decays(snat, snat', Snat, saved.snat, Removed)
      BY DEF Decline
    <3> HIDE DEF Removed
    <3> QED BY <1>2, <2>1, <3>1, <3>2, <3>3, LineDecays
  <2>3. SnatHold'
    <3>1. cur.snat # None => cur.snat \in Snat
      BY <1>2 DEF TypeOK
    <3> QED BY <1>1, <1>5, <2>1, <3>1
        DEF StateInv, SnatInv, SnatHold, Decline, Decays, SameMake, HeldStep
  <2>4. saved.snat # None => saved.table = snat'[saved.snat].table
    BY <1>2 DEF StateInv, SnatInv, TypeOK, Decline, SameMake
  <2>5. \A s \in Snat : snat'[s].status = "Deleting" /\ snat'[s].gen = gen.snat => Removed
    BY DEF StateInv, SnatInv, Decline, Decays
  <2>6. \A s \in LiveSnat' : snat'[s].table = snat[s].table /\ snat'[s].gen = snat[s].gen
    BY DEF Decline, Decays, SameMake, LiveSnat
  <2>7. Line(snat', Snat, gen'.snat, saved'.snat, None, Removed', released')
    <3> HIDE DEF Removed
    <3> QED BY <1>1, <2>1, <2>2
  <2> QED BY <1>1, <1>5, <2>1, <2>3, <2>4, <2>5, <2>6, <2>7 DEF StateInv, SnatInv
<1>9. NetInv'
  BY <1>1, <1>5 DEF StateInv, NetInv, Decline, NetDecays
<1> QED BY <1>3, <1>4, <1>6, <1>7, <1>8, <1>9 DEF StateInv

LEMMA DecaysSame ==
    ASSUME NEW things, NEW Id, NEW s, NEW lost,
           \A i \in Id : i \in released' => i \in released
    PROVE  Decays(things, things, Id, s, lost)
BY DEF Decays

\* A task of the cloud comes to its end.
LEMMA TaskEndsKeeps ==
    ASSUME StateInv, TaskEnds
    PROVE  StateInv'
<1>1. /\ UNCHANGED <<engine, pc, cur, history, upsets>> /\ TypeOK /\ CloudType
      /\ UNCHANGED <<saved, destroying, retire, touched, released>>
  BY TypeParts DEF TaskEnds, StateInv, engine, history
<1>2. ASSUME Decline, CloudType', CloudInv', FitInv'
      PROVE  StateInv'
  BY <1>1, <1>2, DeclineKeeps DEF Calm, TypeOK
<1>3. ASSUME UNCHANGED <<nat, eip, snat>>, net' \in Network, NetDecays
      PROVE  StateInv'
  <2>1. Decline
    BY <1>1, <1>3, DecaysSame DEF Decline, SameMake
  <2>2. CloudType' /\ CloudInv' /\ FitInv'
    BY <1>1, <1>3, CloudSame DEF CloudType, StateInv, FitInv
  <2> QED BY <1>2, <2>1, <2>2
<1>4. CASE NetBusy /\ SetNet(Ended(net.status))
  <2>1. /\ net' \in Network /\ UNCHANGED <<nat, eip, snat>>
        /\ net'.status = Ended(net.status)
    BY <1>1, <1>4 DEF CloudType, Network, SetNet, Ended, Status
  <2>2. NetDecays
    BY <1>4, <2>1 DEF NetDecays, NetBusy, Ended, Live
  <2> QED BY <1>3, <2>1, <2>2
<1>5. CASE net' = [net EXCEPT !.straggler = FALSE] /\ UNCHANGED <<nat, eip, snat>>
  BY <1>1, <1>3, <1>5 DEF CloudType, Network, NetDecays, Live
<1>6. ASSUME NEW n \in Ngw, NatBusy(n), SetNat(n, [nat[n] EXCEPT !.status = Ended(@)])
      PROVE  StateInv'
  <2> DEFINE new == [nat[n] EXCEPT !.status = Ended(nat[n].status)]
  <2>1. /\ new \in Gateway /\ new.gen = nat[n].gen /\ new.place = nat[n].place
        /\ new.status = Ended(nat[n].status)
    <3>1. nat[n] \in Gateway /\ Ended(nat[n].status) \in Status
      BY <1>1 DEF CloudType, Ended, Status
    <3> QED BY <3>1 DEF Gateway
  <2>2. SetNat(n, new)
    BY <1>6
  <2> HIDE DEF new
  <2>3. /\ UNCHANGED <<net, eip, snat>> /\ nat' \in [Ngw -> Gateway]
        /\ \A m \in Ngw : nat'[m] = IF m = n THEN new ELSE nat[m]
    BY <1>1, <2>1, <2>2, SetNatType
  <2>4. \A m \in Ngw : /\ nat'[m].gen = nat[m].gen /\ nat'[m].place = nat[m].place
                       /\ nat'[m].status = IF m = n THEN Ended(nat[n].status) ELSE nat[m].status
    BY <2>1, <2>3
  <2>5. n = saved.nat /\ nat[n].status = "Deleting" => destroying
    BY NoneAssumption DEF StateInv, NatInv, Line
  <2>6. Decays(nat, nat', Ngw, saved.nat, destroying)
    BY <1>1, <1>6, <2>4, <2>5 DEF Decays, NatBusy, Ended, Live
  <2>7. Decline
    BY <1>1, <2>3, <2>4, <2>6, DecaysSame DEF Decline, SameMake, NetDecays, Live
  <2>8. CloudType' /\ FitInv'
    BY <1>1, <2>3 DEF CloudType, StateInv, FitInv
  <2>9. CloudInv'
    <3>1. \A e \in Eip : eip[e].on # n
      BY <1>6 DEF NatBusy, StateInv, CloudInv
    <3> QED BY <2>3, <2>4, <3>1 DEF StateInv, CloudInv, LiveSnat, Live
  <2> QED BY <1>2, <2>7, <2>8, <2>9
<1>7. ASSUME NEW s \in Snat, SnatBusy(s), SetSnat(s, [snat[s] EXCEPT !.status = Ended(@)])
      PROVE  StateInv'
  <2> DEFINE new == [snat[s] EXCEPT !.status = Ended(snat[s].status)]
  <2>1. /\ new \in Entry /\ new.gen = snat[s].gen /\ new.table = snat[s].table
        /\ new.ip = snat[s].ip /\ new.status = Ended(snat[s].status)
    <3>1. snat[s] \in Entry /\ Ended(snat[s].status) \in Status
      BY <1>1 DEF CloudType, Ended, Status
    <3> QED BY <3>1 DEF Entry
  <2>2. SetSnat(s, new)
    BY <1>7
  <2> HIDE DEF new
  <2>3. /\ UNCHANGED <<net, nat, eip>> /\ snat' \in [Snat -> Entry]
        /\ \A t \in Snat : snat'[t] = IF t = s THEN new ELSE snat[t]
    BY <1>1, <2>1, <2>2, SetSnatType
  <2>4. \A t \in Snat : /\ snat'[t].gen = snat[t].gen /\ snat'[t].table = snat[t].table
                        /\ snat'[t].ip = snat[t].ip
                        /\ snat'[t].status = IF t = s THEN Ended(snat[s].status) ELSE snat[t].status
    BY <2>1, <2>3
  <2>5. s = saved.snat /\ snat[s].status = "Deleting" => Removed
    BY NoneAssumption DEF StateInv, SnatInv, Line
  <2>6. Decays(snat, snat', Snat, saved.snat, Removed)
    BY <1>1, <1>7, <2>4, <2>5 DEF Decays, SnatBusy, Ended, Live
  <2>7. Decline
    BY <1>1, <2>3, <2>4, <2>6, DecaysSame DEF Decline, SameMake, NetDecays, Live
  <2>8. CloudType'
    BY <1>1, <2>3 DEF CloudType
  <2>9. FitInv'
    <3>1. saved.snat # None => saved.snat \in Snat
      BY <1>1 DEF TypeOK
    <3> QED BY <1>1, <1>7, <2>4, <3>1 DEF StateInv, FitInv, SnatBusy
  <2>10. CloudInv'
    <3>1. LiveSnat' \subseteq LiveSnat
      BY <1>7, <2>4 DEF LiveSnat, Live, SnatBusy
    <3>2. \A t \in Snat : snat'[t].status = "unborn" => snat[t].status = "unborn"
      BY <2>4 DEF Ended
    <3> QED BY <2>3, <2>4, <3>1, <3>2 DEF StateInv, CloudInv, LiveSnat
  <2> QED BY <1>2, <2>7, <2>8, <2>9, <2>10
<1>8. ASSUME NEW e \in Eip, NEW new \in Address, SetEip(e, new),
             new.gen = eip[e].gen, new.billing = eip[e].billing,
             \/ new.status = "InUse" /\ eip[e].status = "Associating" /\ new.on = eip[e].on
             \/ new.status = "Available" /\ eip[e].status = "Unassociating" /\ new.on = None
      PROVE  StateInv'
  <2>1. /\ UNCHANGED <<net, nat, snat>> /\ eip' \in [Eip -> Address]
        /\ \A f \in Eip : eip'[f] = IF f = e THEN new ELSE eip[f]
    BY <1>1, <1>8, SetEipType
  <2>2. \A f \in Eip : /\ eip'[f].gen = eip[f].gen /\ eip'[f].billing = eip[f].billing
                       /\ f # e => eip'[f] = eip[f]
    BY <1>8, <2>1
  <2>3. eip'[e] = new
    BY <2>1
  <2>4. Decays(eip, eip', Eip, saved.eip, destroying)
    BY <1>1, <1>8, <2>2, <2>3 DEF Decays, Live
  <2>5. Decline
    BY <1>1, <2>1, <2>2, <2>4, DecaysSame DEF Decline, SameMake, NetDecays, Live
  <2>6. CloudType' /\ FitInv'
    BY <1>1, <2>1 DEF CloudType, StateInv, FitInv
  <2>7. CloudInv'
    <3>1. \A s \in LiveSnat : snat[s].ip # e
      BY <1>8 DEF StateInv, CloudInv
    <3>2. LiveSnat' = LiveSnat
      BY <2>1 DEF LiveSnat, Live
    <3>3. \A f \in Eip : eip'[f].on # None => eip'[f].status \in {"Associating", "InUse", "Unassociating"}
      BY <1>8, <2>2, <2>3 DEF StateInv, CloudInv
    <3>4. \A f \in Eip : eip'[f].on = Foreign => eip'[f].status \in {"InUse", "Unassociating"}
      BY <1>8, <2>2, <2>3, NoneAssumption DEF StateInv, CloudInv
    <3>5. \A f \in Eip, m \in Ngw : eip'[f].on = m => nat'[m].status = "Available"
      BY <1>8, <2>1, <2>2, <2>3, NoneAssumption DEF StateInv, CloudInv
    <3>6. \A s \in LiveSnat : snat'[s].ip \in Eip /\ eip'[snat[s].ip] = eip[snat[s].ip]
      BY <2>1, <2>2, <3>1 DEF StateInv, CloudInv
    <3> QED BY <2>1, <3>2, <3>3, <3>4, <3>5, <3>6 DEF StateInv, CloudInv
  <2> QED BY <1>2, <2>5, <2>6, <2>7
<1>9. ASSUME NEW e \in Eip, eip[e].status = "Associating",
             SetEip(e, [eip[e] EXCEPT !.status = "InUse"])
      PROVE  StateInv'
  <2> DEFINE new == [eip[e] EXCEPT !.status = "InUse"]
  <2>1. /\ new \in Address /\ new.gen = eip[e].gen /\ new.billing = eip[e].billing
        /\ new.status = "InUse" /\ new.on = eip[e].on
    BY <1>1 DEF CloudType, Address, EipStatus
  <2>2. SetEip(e, new)
    BY <1>9
  <2> HIDE DEF new
  <2> QED BY <1>8, <1>9, <2>1, <2>2
<1>10. ASSUME NEW e \in Eip, eip[e].status = "Unassociating",
              SetEip(e, [eip[e] EXCEPT !.status = "Available", !.on = None])
       PROVE  StateInv'
  <2> DEFINE new == [eip[e] EXCEPT !.status = "Available", !.on = None]
  <2>1. /\ new \in Address /\ new.gen = eip[e].gen /\ new.billing = eip[e].billing
        /\ new.status = "Available" /\ new.on = None
    BY <1>1 DEF CloudType, Address, EipStatus
  <2>2. SetEip(e, new)
    BY <1>10
  <2> HIDE DEF new
  <2> QED BY <1>8, <1>10, <2>1, <2>2
<1> QED BY <1>4, <1>5, <1>6, <1>7, <1>9, <1>10 DEF TaskEnds

\* What an operator took away was there, and is what it was.
LEMMA ConsoleDecline ==
    ASSUME StateInv, Console, SameMake, NetDecays,
           \A n \in Ngw : /\ nat'[n].gen = nat[n].gen
                          /\ nat'[n].status = "unborn" <=> nat[n].status = "unborn"
                          /\ Live(nat'[n]) => Live(nat[n])
                          /\ nat'[n].status = "Deleting" => nat[n].status = "Deleting",
           \A e \in Eip : /\ eip'[e].gen = eip[e].gen
                          /\ eip'[e].status = "unborn" <=> eip[e].status = "unborn"
                          /\ Live(eip'[e]) => Live(eip[e])
                          /\ eip'[e].status = "Deleting" => eip[e].status = "Deleting",
           \A s \in Snat : /\ snat'[s].gen = snat[s].gen
                           /\ snat'[s].status = "unborn" <=> snat[s].status = "unborn"
                           /\ Live(snat'[s]) => Live(snat[s])
                           /\ snat'[s].status = "Deleting" => snat[s].status = "Deleting",
           CloudType', CloudInv'
    PROVE  StateInv'
<1>1. /\ UNCHANGED <<engine, pc, cur>> /\ Upset /\ touched' = TRUE /\ TypeOK
      /\ released' = released \cup (LiveNat \ LiveNat') \cup (LiveEip \ LiveEip')
                              \cup (LiveSnat \ LiveSnat')
  BY DEF Console, StateInv
<1>2. released' \in SUBSET (Ngw \cup Eip \cup Snat) /\ released \subseteq released'
  BY <1>1 DEF TypeOK, LiveNat, LiveEip, LiveSnat
<1>3. Decays(nat, nat', Ngw, saved.nat, destroying)
  <2>1. \A n \in Ngw : n \in released' <=> n \in released \/ (Live(nat[n]) /\ ~Live(nat'[n]))
    BY <1>1, KindAssumption DEF LiveNat, LiveEip, LiveSnat
  <2> QED BY <2>1 DEF Decays, Live
<1>4. Decays(eip, eip', Eip, saved.eip, destroying)
  <2>1. \A e \in Eip : e \in released' <=> e \in released \/ (Live(eip[e]) /\ ~Live(eip'[e]))
    BY <1>1, KindAssumption DEF LiveNat, LiveEip, LiveSnat
  <2> QED BY <2>1 DEF Decays, Live
<1>5. Decays(snat, snat', Snat, saved.snat, Removed)
  <2>1. \A s \in Snat : s \in released' <=> s \in released \/ (Live(snat[s]) /\ ~Live(snat'[s]))
    BY <1>1, KindAssumption DEF LiveNat, LiveEip, LiveSnat
  <2> QED BY <2>1 DEF Decays, Live
<1>6. FitInv'
  BY <1>1 DEF FitInv
<1> QED BY <1>1, <1>2, <1>3, <1>4, <1>5, <1>6, DeclineKeeps DEF Decline

LEMMA ConsoleKeeps ==
    ASSUME StateInv, Console
    PROVE  StateInv'
<1>1. TypeOK /\ CloudType /\ CloudInv
  BY TypeParts DEF StateInv
<1>2. ASSUME NEW n \in LiveNat,
             nat' = [nat EXCEPT ![n].status = "gone"],
             eip' = [e \in Eip |-> IF eip[e].on # n THEN eip[e]
                        ELSE [eip[e] EXCEPT !.status = "Available", !.on = None]],
             snat' = [s \in Snat |-> IF snat[s].table # n THEN snat[s]
                        ELSE [snat[s] EXCEPT !.status = "gone"]],
             UNCHANGED net
      PROVE  StateInv'
  <2>1. n \in Ngw /\ n # None
    BY NoneAssumption DEF LiveNat
  <2>2. /\ nat' \in [Ngw -> Gateway]
        /\ \A m \in Ngw : /\ nat'[m].gen = nat[m].gen /\ nat'[m].place = nat[m].place
                          /\ nat'[m].status = IF m = n THEN "gone" ELSE nat[m].status
    BY <1>1, <1>2, <2>1 DEF CloudType, Gateway, Status
  <2>3. /\ eip' \in [Eip -> Address]
        /\ \A e \in Eip : /\ eip'[e].gen = eip[e].gen /\ eip'[e].billing = eip[e].billing
                          /\ eip[e].on # n => eip'[e] = eip[e]
                          /\ eip[e].on = n => eip'[e].status = "Available" /\ eip'[e].on = None
    BY <1>1, <1>2 DEF CloudType, Address, EipStatus
  <2>4. /\ snat' \in [Snat -> Entry]
        /\ \A s \in Snat : /\ snat'[s].gen = snat[s].gen /\ snat'[s].table = snat[s].table
                           /\ snat[s].table # n => snat'[s] = snat[s]
                           /\ snat[s].table = n => snat'[s].status = "gone"
    BY <1>1, <1>2 DEF CloudType, Entry, Status
  <2>5. \A e \in Eip : eip[e].on = n => Live(eip[e])
    BY <1>1, <2>1 DEF CloudInv, Live
  <2>6. \A s \in Snat : snat[s].table = n => snat[s].status # "unborn"
    BY <1>1, <2>1 DEF CloudInv
  <2>7. CloudType' /\ SameMake /\ NetDecays
    BY <1>1, <1>2, <2>2, <2>3, <2>4 DEF CloudType, SameMake, NetDecays, Live
  <2>8. CloudInv'
    <3>1. \A e \in Eip : eip'[e].on # None => eip'[e] = eip[e] /\ eip[e].on # n
      BY <2>3
    <3>2. \A s \in LiveSnat' : s \in LiveSnat /\ snat'[s] = snat[s] /\ snat[s].table # n
      BY <2>4 DEF LiveSnat, Live
    <3>3. \A s \in Snat : snat'[s].status = "unborn" => snat'[s] = snat[s]
      BY <2>4
    <3>4. \A e \in Eip, m \in Ngw : eip'[e].on = m => nat'[m].status = "Available"
      BY <1>1, <2>1, <2>2, <3>1, NoneAssumption DEF CloudInv
    <3>5. \A s \in LiveSnat' : /\ snat'[s].table \in Ngw /\ snat'[s].ip \in Eip
                               /\ eip'[snat'[s].ip].status = "InUse"
                               /\ eip'[snat'[s].ip].on = snat'[s].table
      <4> TAKE s \in LiveSnat'
      <4>1. /\ snat[s].table \in Ngw /\ snat[s].ip \in Eip
            /\ eip[snat[s].ip].status = "InUse" /\ eip[snat[s].ip].on = snat[s].table
        BY <1>1, <3>2 DEF CloudInv
      <4>2. eip'[snat[s].ip] = eip[snat[s].ip]
        BY <2>3, <3>2, <4>1
      <4> QED BY <3>2, <4>1, <4>2
    <3>7. /\ \A e \in Eip : eip'[e].on # None => eip'[e].status \in {"Associating", "InUse", "Unassociating"}
          /\ \A e \in Eip : eip'[e].on = Foreign => eip'[e].status \in {"InUse", "Unassociating"}
      BY <1>1, <3>1, NoneAssumption DEF CloudInv
    <3>8. \A s \in Snat : snat'[s].status = "unborn" => snat'[s].table = None
      BY <1>1, <3>3 DEF CloudInv
    <3> QED BY <3>4, <3>5, <3>7, <3>8 DEF CloudInv
  <2> QED BY <2>2, <2>3, <2>4, <2>5, <2>6, <2>7, <2>8, ConsoleDecline, LineDecays DEF Live, LiveNat
<1>3. ASSUME NEW n \in LiveNat, SetNat(n, [nat[n] EXCEPT !.tuned = FALSE])
      PROVE  StateInv'
  <2> DEFINE new == [nat[n] EXCEPT !.tuned = FALSE]
  <2>1. /\ n \in Ngw /\ new \in Gateway /\ new.gen = nat[n].gen /\ new.place = nat[n].place
        /\ new.status = nat[n].status
    BY <1>1 DEF CloudType, Gateway, LiveNat
  <2>2. SetNat(n, new)
    BY <1>3
  <2> HIDE DEF new
  <2>3. /\ UNCHANGED <<net, eip, snat>> /\ nat' \in [Ngw -> Gateway]
        /\ \A m \in Ngw : nat'[m] = IF m = n THEN new ELSE nat[m]
    BY <1>1, <2>1, <2>2, SetNatType
  <2>4. \A m \in Ngw : /\ nat'[m].gen = nat[m].gen /\ nat'[m].place = nat[m].place
                       /\ nat'[m].status = nat[m].status
    BY <2>1, <2>3
  <2>5. CloudType' /\ SameMake /\ NetDecays
    BY <1>1, <2>3, <2>4 DEF CloudType, SameMake, NetDecays, Live
  <2>6. CloudInv'
    BY <1>1, <2>3, <2>4 DEF CloudInv, LiveSnat, Live
  <2> QED BY <2>3, <2>4, <2>5, <2>6, ConsoleDecline DEF Live
<1>4. ASSUME NEW s \in LiveSnat, NEW new \in Entry, SetSnat(s, new),
             new.gen = snat[s].gen, new.table = snat[s].table, new.ip = snat[s].ip,
             new.status \in {"gone", snat[s].status}
      PROVE  StateInv'
  <2>1. s \in Snat /\ Live(snat[s])
    BY DEF LiveSnat
  <2>2. /\ UNCHANGED <<net, nat, eip>> /\ snat' \in [Snat -> Entry]
        /\ \A t \in Snat : snat'[t] = IF t = s THEN new ELSE snat[t]
    BY <1>1, <1>4, SetSnatType
  <2>3. \A t \in Snat : /\ snat'[t].gen = snat[t].gen /\ snat'[t].table = snat[t].table
                        /\ snat'[t].ip = snat[t].ip
                        /\ snat'[t].status = IF t = s THEN new.status ELSE snat[t].status
    BY <1>4, <2>2
  <2>4. CloudType' /\ SameMake /\ NetDecays
    BY <1>1, <2>2, <2>3 DEF CloudType, SameMake, NetDecays, Live
  <2>5. \A t \in Snat : /\ snat'[t].status = "unborn" <=> snat[t].status = "unborn"
                        /\ Live(snat'[t]) => Live(snat[t])
                        /\ snat'[t].status = "Deleting" => snat[t].status = "Deleting"
    BY <1>4, <2>1, <2>3 DEF Live
  <2>6. CloudInv'
    BY <1>1, <2>2, <2>3, <2>5 DEF CloudInv, LiveSnat
  <2> QED BY <2>2, <2>3, <2>4, <2>5, <2>6, ConsoleDecline
<1>5. ASSUME NEW s \in LiveSnat, SetSnat(s, [snat[s] EXCEPT !.status = "gone"])
      PROVE  StateInv'
  <2> DEFINE new == [snat[s] EXCEPT !.status = "gone"]
  <2>1. /\ new \in Entry /\ new.gen = snat[s].gen /\ new.table = snat[s].table
        /\ new.ip = snat[s].ip /\ new.status = "gone"
    BY <1>1 DEF CloudType, Entry, Status, LiveSnat
  <2>2. SetSnat(s, new)
    BY <1>5
  <2> HIDE DEF new
  <2> QED BY <1>4, <2>1, <2>2
<1>6. ASSUME NEW s \in LiveSnat, SetSnat(s, [snat[s] EXCEPT !.tuned = FALSE])
      PROVE  StateInv'
  <2> DEFINE new == [snat[s] EXCEPT !.tuned = FALSE]
  <2>1. /\ new \in Entry /\ new.gen = snat[s].gen /\ new.table = snat[s].table
        /\ new.ip = snat[s].ip /\ new.status = snat[s].status
    BY <1>1 DEF CloudType, Entry, LiveSnat
  <2>2. SetSnat(s, new)
    BY <1>6
  <2> HIDE DEF new
  <2> QED BY <1>4, <2>1, <2>2
<1>7. ASSUME NEW e \in LiveEip, NEW new \in Address, SetEip(e, new),
             new.gen = eip[e].gen, new.billing = eip[e].billing,
             new.status \notin {"unborn", "Deleting"},
             new.on # None => new.status \in {"Associating", "InUse", "Unassociating"},
             new.on = Foreign => new.status \in {"InUse", "Unassociating"},
             new.on \in {None, Foreign, eip[e].on},
             UsedBy(e) = {} \/ (new.on = eip[e].on /\ new.status = eip[e].status)
      PROVE  StateInv'
  <2>1. e \in Eip /\ Live(eip[e])
    BY DEF LiveEip
  <2>2. /\ UNCHANGED <<net, nat, snat>> /\ eip' \in [Eip -> Address]
        /\ \A f \in Eip : eip'[f] = IF f = e THEN new ELSE eip[f]
    BY <1>1, <1>7, SetEipType
  <2>3. eip'[e] = new /\ \A f \in Eip : f # e => eip'[f] = eip[f]
    BY <2>1, <2>2
  <2>4. \A f \in Eip : /\ eip'[f].gen = eip[f].gen /\ eip'[f].billing = eip[f].billing
                       /\ eip'[f].status = "unborn" <=> eip[f].status = "unborn"
                       /\ Live(eip'[f]) => Live(eip[f])
                       /\ eip'[f].status = "Deleting" => eip[f].status = "Deleting"
    BY <1>7, <2>1, <2>3 DEF Live
  <2>5. CloudType' /\ SameMake /\ NetDecays
    BY <1>1, <2>2, <2>4 DEF CloudType, SameMake, NetDecays, Live
  <2>6. CloudInv'
    <3>1. LiveSnat' = LiveSnat
      BY <2>2 DEF LiveSnat, Live
    <3>2. \A s \in LiveSnat : /\ snat[s].ip \in Eip
                              /\ eip'[snat[s].ip].on = eip[snat[s].ip].on
                              /\ eip'[snat[s].ip].status = eip[snat[s].ip].status
      BY <1>1, <1>7, <2>3 DEF CloudInv, UsedBy
    <3>3. \A f \in Eip : eip'[f].on # None => eip'[f].status \in {"Associating", "InUse", "Unassociating"}
      BY <1>1, <1>7, <2>3 DEF CloudInv
    <3>4. \A f \in Eip : eip'[f].on = Foreign => eip'[f].status \in {"InUse", "Unassociating"}
      BY <1>1, <1>7, <2>3 DEF CloudInv
    <3>5. \A f \in Eip, m \in Ngw : eip'[f].on = m => nat'[m].status = "Available"
      BY <1>1, <1>7, <2>1, <2>2, <2>3, NoneAssumption DEF CloudInv
    <3> QED BY <1>1, <2>2, <3>1, <3>2, <3>3, <3>4, <3>5 DEF CloudInv
  <2> QED BY <2>2, <2>4, <2>5, <2>6, ConsoleDecline
<1>8. ASSUME NEW e \in LiveEip,
             \/ /\ CanUnbind(e) /\ eip[e].on # Foreign
                /\ SetEip(e, [eip[e] EXCEPT !.status = "Unassociating"])
             \/ /\ eip[e].status = "Available"
                /\ \/ SetEip(e, [eip[e] EXCEPT !.status = "InUse", !.on = Foreign])
                   \/ SetEip(e, [eip[e] EXCEPT !.status = "gone"])
             \/ SetEip(e, [eip[e] EXCEPT !.tuned = FALSE])
      PROVE  StateInv'
  <2> DEFINE off == [eip[e] EXCEPT !.status = "Unassociating"]
             given == [eip[e] EXCEPT !.status = "InUse", !.on = Foreign]
             gone == [eip[e] EXCEPT !.status = "gone"]
             changed == [eip[e] EXCEPT !.tuned = FALSE]
  <2>1. e \in Eip /\ eip[e] \in Address /\ Live(eip[e])
    BY <1>1 DEF CloudType, LiveEip
  <2>2. /\ eip[e].on # None => eip[e].status \in {"Associating", "InUse", "Unassociating"}
        /\ eip[e].on = Foreign => eip[e].status \in {"InUse", "Unassociating"}
    BY <1>1, <2>1 DEF CloudInv
  <2>3. eip[e].status = "Available" => eip[e].on = None /\ UsedBy(e) = {}
    BY <1>1, <2>1 DEF CloudInv, UsedBy
  <2>4. eip[e].status \notin {"unborn", "Deleting"}
    BY <2>1 DEF Live, Address, EipStatus
  <2>5. /\ off \in Address /\ off.gen = eip[e].gen /\ off.billing = eip[e].billing
        /\ off.status = "Unassociating" /\ off.on = eip[e].on
    BY <2>1 DEF Address, EipStatus
  <2>6. /\ given \in Address /\ given.gen = eip[e].gen /\ given.billing = eip[e].billing
        /\ given.status = "InUse" /\ given.on = Foreign
    BY <2>1 DEF Address, EipStatus
  <2>7. /\ gone \in Address /\ gone.gen = eip[e].gen /\ gone.billing = eip[e].billing
        /\ gone.status = "gone" /\ gone.on = eip[e].on
    BY <2>1 DEF Address, EipStatus
  <2>8. /\ changed \in Address /\ changed.gen = eip[e].gen /\ changed.billing = eip[e].billing
        /\ changed.status = eip[e].status /\ changed.on = eip[e].on
    BY <2>1 DEF Address
  <2>9. \/ CanUnbind(e) /\ eip[e].on # Foreign /\ SetEip(e, off)
        \/ eip[e].status = "Available" /\ (SetEip(e, given) \/ SetEip(e, gone))
        \/ SetEip(e, changed)
    BY <1>8
  <2> HIDE DEF off, given, gone, changed
  <2>10. CASE CanUnbind(e) /\ eip[e].on # Foreign /\ SetEip(e, off)
    BY <1>7, <2>5, <2>10 DEF CanUnbind
  <2>11. CASE eip[e].status = "Available" /\ SetEip(e, given)
    BY <1>7, <2>3, <2>6, <2>11
  <2>12. CASE eip[e].status = "Available" /\ SetEip(e, gone)
    BY <1>7, <2>3, <2>7, <2>12, NoneAssumption
  <2>13. CASE SetEip(e, changed)
    BY <1>7, <2>2, <2>4, <2>8, <2>13
  <2> QED BY <2>9, <2>10, <2>11, <2>12, <2>13
<1>9. CASE net' = [net EXCEPT !.straggler = TRUE] /\ UNCHANGED <<nat, eip, snat>>
  <2>1. CloudType' /\ SameMake /\ NetDecays
    BY <1>1, <1>9 DEF CloudType, Network, SameMake, NetDecays, Live
  <2>2. CloudInv'
    BY <1>1, <1>9, CloudSame
  <2> QED BY <1>9, <2>1, <2>2, ConsoleDecline
<1> QED BY <1>2, <1>3, <1>5, <1>6, <1>8, <1>9 DEF Console

-----------------------------------------------------------------------------
(* The engine. *)

LEMMA OneIsOne ==
    ASSUME NEW S
    PROVE  IF S = {} THEN One(S) = None ELSE One(S) \in S
BY DEF One

\* What is found for one resource: the saved one, or that of this generation.
Found(found, things, Id, g, s) ==
    /\ found \in Id \cup {None}
    /\ s # None => found = s
    /\ s = None /\ found # None => Live(things[found]) /\ things[found].gen = g
    /\ s = None /\ found = None => \A i \in Id : Live(things[i]) => things[i].gen # g

LEMMA KnownFinds ==
    ASSUME NEW things, NEW Id, NEW g, NEW s \in Id \cup {None}, None \notin Id, NEW S,
           s = None => S = { i \in Id : Live(things[i]) /\ things[i].gen = g }
    PROVE  Found(IF s # None THEN s ELSE One(S), things, Id, g, s)
<1>1. CASE s # None
  BY <1>1 DEF Found
<1>2. CASE s = None /\ S = {}
  BY <1>2, OneIsOne DEF Found
<1>3. CASE s = None /\ S # {}
  <2>1. One(S) \in S
    BY <1>3, OneIsOne
  <2> QED BY <1>3, <2>1 DEF Found
<1> QED BY <1>1, <1>2, <1>3

LEMMA RecoveredFinds ==
    ASSUME StateInv
    PROVE  /\ Recovered \in Output
           /\ Found(Recovered.nat, nat, Ngw, gen.nat, saved.nat)
           /\ Found(Recovered.eip, eip, Eip, gen.eip, saved.eip)
           /\ Found(Recovered.snat, snat, Snat, gen.snat, saved.snat)
           /\ Recovered.snat # None => Recovered.table = snat[Recovered.snat].table
<1> DEFINE n == Known("nat", FoundNat)
           e == Known("eip", FoundEip)
           s == Known("snat", { t \in LiveSnat : snat[t].gen = gen.snat })
<1>1. /\ saved \in Output /\ snat \in [Snat -> Entry]
      /\ None \notin Ngw /\ None \notin Eip /\ None \notin Snat
  BY TypeParts, NoneAssumption DEF StateInv, EngineType, CloudType
<1>2. Found(n, nat, Ngw, gen.nat, saved.nat)
  <2>1. saved.nat = None => FoundNat = { i \in Ngw : Live(nat[i]) /\ nat[i].gen = gen.nat }
    BY DEF FoundNat, LiveNat
  <2>2. saved.nat \in Ngw \cup {None}
    BY <1>1 DEF Output
  <2>3. n = IF saved.nat # None THEN saved.nat ELSE One(FoundNat)
    BY DEF Known
  <2> HIDE DEF n
  <2> QED BY <1>1, <2>1, <2>2, <2>3, KnownFinds
<1>3. Found(e, eip, Eip, gen.eip, saved.eip)
  <2>1. saved.eip = None => FoundEip = { i \in Eip : Live(eip[i]) /\ eip[i].gen = gen.eip }
    BY DEF FoundEip, LiveEip
  <2>2. saved.eip \in Eip \cup {None}
    BY <1>1 DEF Output
  <2>3. e = IF saved.eip # None THEN saved.eip ELSE One(FoundEip)
    BY DEF Known
  <2> HIDE DEF e
  <2> QED BY <1>1, <2>1, <2>2, <2>3, KnownFinds
<1>4. Found(s, snat, Snat, gen.snat, saved.snat)
  <2> DEFINE S == { t \in LiveSnat : snat[t].gen = gen.snat }
  <2>1. S = { i \in Snat : Live(snat[i]) /\ snat[i].gen = gen.snat }
    BY DEF LiveSnat
  <2>2. saved.snat \in Snat \cup {None}
    BY <1>1 DEF Output
  <2>3. s = IF saved.snat # None THEN saved.snat ELSE One(S)
    BY DEF Known
  <2> HIDE DEF s, S
  <2> QED BY <1>1, <2>1, <2>2, <2>3, KnownFinds
<1> DEFINE bound == saved.attEip = None /\ Bound(e, n)
           table == IF saved.snat # None \/ s = None THEN saved.table ELSE snat[s].table
           attEip == IF bound THEN e ELSE saved.attEip
           attNat == IF bound THEN n ELSE saved.attNat
<1>5. Recovered = [nat |-> n, eip |-> e, snat |-> s, table |-> table,
                   attEip |-> attEip, attNat |-> attNat]
  BY DEF Recovered
<1>6. n \in Ngw \cup {None} /\ e \in Eip \cup {None} /\ s \in Snat \cup {None}
  <2> HIDE DEF n, e, s
  <2> QED BY <1>2, <1>3, <1>4 DEF Found
<1>7. /\ saved.attEip \in Eip \cup {None} /\ saved.attNat \in Ngw \cup {None}
      /\ saved.table \in Ngw \cup {None}
  BY <1>1 DEF Output
<1>8. table \in Ngw \cup {None}
  <2>1. \A t \in Snat : snat[t].table \in Ngw \cup {None}
    BY <1>1 DEF Entry
  <2> HIDE DEF n, e, s
  <2> QED BY <1>6, <1>7, <2>1
<1>9. s # None => table = snat[s].table
  <2>1. saved.snat # None => s = saved.snat /\ saved.table = snat[saved.snat].table
    BY DEF Known, StateInv, SnatInv
  <2> HIDE DEF s
  <2> QED BY <2>1
<1>10. attEip \in Eip \cup {None} /\ attNat \in Ngw \cup {None}
  <2> HIDE DEF n, e, s, bound
  <2> QED BY <1>6, <1>7
<1> HIDE DEF n, e, s, table, attEip, attNat
<1> QED BY <1>2, <1>3, <1>4, <1>5, <1>6, <1>8, <1>9, <1>10 DEF Output

\* What was found is saved, and what is replaced may be lost.
LEMMA LineFound ==
    ASSUME NEW things, NEW Id, NEW g, NEW s, NEW o, NEW lost \in BOOLEAN, NEW lost2 \in BOOLEAN,
           NEW rel, NEW found, None \notin Id, lost => lost2,
           Line(things, Id, g, s, o, lost, rel), Found(found, things, Id, g, s)
    PROVE  Line(things, Id, g, found, o, lost2, rel)
BY DEF Line, Found, Live

\* A new plan of a deployment: other wishes only when nothing is to be replaced.
Replans(changes) ==
    /\ AtRest /\ ~destroying /\ Plan(changes)
    /\ UNCHANGED <<cloud, gen, outgoing, destroying, cur, released>>
    /\ want' \in [place : Choice, billing : Choice]
    /\ "place" \notin changes => want'.place = want.place
    /\ "billing" \notin changes => want'.billing = want.billing
    /\ changes # {} => retire = {} /\ outgoing = [nat |-> None, eip |-> None]
    /\ upsets' \in 0..MaxUpsets

\* What a plan replaces, resource by resource.
LEMMA OutdatedIs ==
    ASSUME NEW s, NEW changes
    PROVE  /\ Outdated(s, changes) \subseteq {"nat", "eip", "att", "snat", "table"}
           /\ "nat" \in Outdated(s, changes) <=> "place" \in changes /\ s.nat # None
           /\ "eip" \in Outdated(s, changes) <=> "billing" \in changes /\ s.eip # None
           /\ "snat" \in Outdated(s, changes) <=> s.snat # None /\ "place" \in changes /\ s.nat # None
           /\ "table" \in Outdated(s, changes) <=>
                /\ s.snat # None /\ s.nat \notin {None, s.table}
                /\ ~("place" \in changes /\ s.nat # None) /\ "snat" \notin retire
BY DEF Outdated

\* An entry of this generation that is live, and stays, is in the saved gateway.
LEMMA FoundEntry ==
    ASSUME StateInv, ~Removed, Recovered.snat \in LiveSnat
    PROVE  /\ Recovered.table = saved.nat /\ saved.nat # None /\ Recovered.nat = saved.nat
<1> DEFINE s == Recovered.snat
<1>1. s \in Snat /\ s # None /\ Live(snat[s])
  BY NoneAssumption DEF LiveSnat
<1>2. Found(s, snat, Snat, gen.snat, saved.snat)
  BY RecoveredFinds
<1>3. snat[s].gen = gen.snat
  BY <1>1, <1>2 DEF Found, StateInv, SnatInv, Line
<1>4. snat[s].table = saved.nat
  BY <1>3 DEF StateInv, SnatInv
<1>5. saved.nat \in Ngw
  BY <1>4 DEF StateInv, CloudInv
<1>6. saved.nat # None
  BY <1>5, NoneAssumption
<1>7. Recovered.nat = saved.nat
  BY <1>6, RecoveredFinds DEF Found
<1>8. Recovered.table = snat[s].table
  BY <1>1, RecoveredFinds
<1> QED BY <1>4, <1>6, <1>7, <1>8

LEMMA ReplansKeeps ==
    ASSUME StateInv, NEW changes, Replans(changes)
    PROVE  StateInv'
<1> DEFINE r == Recovered
<1>1. /\ TypeOK /\ AtRest /\ ~destroying
      /\ UNCHANGED <<net, nat, eip, snat, gen, outgoing, destroying, cur, released>>
      /\ saved' = r /\ retire' = retire \cup Outdated(r, changes)
      /\ want' \in [place : Choice, billing : Choice] /\ upsets' \in 0..MaxUpsets
      /\ touched' = (touched /\ (\E e \in LiveEip : EipBusy(e)))
      /\ pc' = [q \in Res |-> IF pc[q] = "failed" THEN "idle"
                              ELSE IF pc[q] = "done" THEN "planned" ELSE pc[q]]
  BY DEF Replans, Plan, StateInv, cloud
<1>2. /\ r \in Output
      /\ Found(r.nat, nat, Ngw, gen.nat, saved.nat)
      /\ Found(r.eip, eip, Eip, gen.eip, saved.eip)
      /\ Found(r.snat, snat, Snat, gen.snat, saved.snat)
      /\ r.snat # None => r.table = snat[r.snat].table
  BY RecoveredFinds
<1> HIDE DEF r
<1>3. /\ \A q \in Res : pc'[q] \in {"idle", "planned"}
      /\ \A q \in Res : pc'[q] = "planned" => pc[q] \in {"planned", "done"}
  <2>1. \A q \in Res : pc[q] \in Rest \ {"gone"}
    BY <1>1 DEF AtRest, StateInv, OrderInv
  <2> QED BY <1>1, <2>1 DEF Rest
<1>4. /\ Outdated(r, changes) \subseteq {"nat", "eip", "att", "snat", "table"}
      /\ "nat" \in Outdated(r, changes) <=> "place" \in changes /\ r.nat # None
      /\ "eip" \in Outdated(r, changes) <=> "billing" \in changes /\ r.eip # None
      /\ "snat" \in Outdated(r, changes) <=> r.snat # None /\ "place" \in changes /\ r.nat # None
      /\ "table" \in Outdated(r, changes) <=>
           /\ r.snat # None /\ r.nat \notin {None, r.table}
           /\ ~("place" \in changes /\ r.nat # None) /\ "snat" \notin retire
  BY OutdatedIs
<1>5. TypeOK'
  <2>1. pc' \in [Res -> Step]
    BY <1>1, <1>3 DEF Step, Rest
  <2>2. touched' \in BOOLEAN
    BY <1>1 DEF TypeOK
  <2>3. retire' \in SUBSET {"nat", "eip", "att", "snat", "table"}
    BY <1>1, <1>4 DEF TypeOK
  <2>4. saved' \in Output
    BY <1>1, <1>2
  <2> QED BY <1>1, <2>1, <2>2, <2>3, <2>4 DEF TypeOK, Output
<1>6. CloudInv'
  BY <1>1, CloudSame DEF StateInv
<1>7. OrderInv'
  BY <1>1, <1>3 DEF OrderInv, Deletion, AttWork, Work, HeldStep, Res
<1>8. LiveNat' = LiveNat /\ LiveEip' = LiveEip /\ LiveSnat' = LiveSnat
  BY <1>1 DEF LiveNat, LiveEip, LiveSnat, Live
<1>9. /\ None \notin Ngw /\ None \notin Eip /\ None \notin Snat /\ destroying \in BOOLEAN
  BY <1>1, NoneAssumption DEF TypeOK
<1>10. /\ "place" \in changes => retire = {} /\ outgoing.nat = None
       /\ "billing" \in changes => retire = {} /\ outgoing.eip = None
       /\ "place" \notin changes => want'.place = want.place
       /\ "billing" \notin changes => want'.billing = want.billing
  BY DEF Replans
<1>11. NatInv'
  <2>1. Line(nat, Ngw, gen.nat, r.nat, outgoing.nat, destroying, released)
    BY <1>2, <1>9, LineFound DEF StateInv, NatInv
  <2>2. NatHold'
    <3>1. pc'.nat \in {"idle", "planned"} /\ (pc'.nat = "planned" => pc.nat \in {"planned", "done"})
      BY <1>3 DEF Res
    <3>2. "nat" \in retire' => outgoing.nat = None /\ r.nat # None
      BY <1>1, <1>2, <1>4, <1>10 DEF StateInv, NatInv, NatHold, Found
    <3>3. pc'.nat = "planned" => r.nat # None
      BY <1>1, <1>2, <3>1 DEF StateInv, NatInv, NatHold, Found
    <3> QED BY <1>1, <3>1, <3>2, <3>3 DEF NatHold, HeldStep, Deletion, Waiting
  <2>3. "nat" \notin retire' => \A n \in LiveNat : nat[n].gen = gen.nat => nat[n].place = want'.place
    <3> HAVE "nat" \notin retire'
    <3>1. CASE "place" \in changes
      <4>1. r.nat = None
        BY <1>1, <1>4, <3>1
      <4> QED BY <1>2, <4>1 DEF Found, LiveNat
    <3>2. CASE "place" \notin changes
      BY <1>1, <1>10, <3>2 DEF StateInv, NatInv
    <3> QED BY <3>1, <3>2
  <2> QED BY <1>1, <1>8, <2>1, <2>2, <2>3 DEF StateInv, NatInv
<1>12. EipInv'
  <2>1. Line(eip, Eip, gen.eip, r.eip, outgoing.eip, destroying, released)
    BY <1>2, <1>9, LineFound DEF StateInv, EipInv
  <2>2. EipHold'
    <3>1. pc'.eip \in {"idle", "planned"} /\ (pc'.eip = "planned" => pc.eip \in {"planned", "done"})
      BY <1>3 DEF Res
    <3>2. "eip" \in retire' => outgoing.eip = None /\ r.eip # None
      BY <1>1, <1>2, <1>4, <1>10 DEF StateInv, EipInv, EipHold, Found
    <3>3. pc'.eip = "planned" => r.eip # None
      BY <1>1, <1>2, <3>1 DEF StateInv, EipInv, EipHold, Found
    <3> QED BY <1>1, <3>1, <3>2, <3>3 DEF EipHold, HeldStep, Deletion, Waiting
  <2>3. "eip" \notin retire' => \A e \in LiveEip : eip[e].gen = gen.eip => eip[e].billing = want'.billing
    <3> HAVE "eip" \notin retire'
    <3>1. CASE "billing" \in changes
      <4>1. r.eip = None
        BY <1>1, <1>4, <3>1
      <4> QED BY <1>2, <4>1 DEF Found, LiveEip
    <3>2. CASE "billing" \notin changes
      BY <1>1, <1>10, <3>2 DEF StateInv, EipInv
    <3> QED BY <3>1, <3>2
  <2> QED BY <1>1, <1>8, <2>1, <2>2, <2>3 DEF StateInv, EipInv
<1>13. SnatInv'
  <2>1. Removed => Removed'
    BY <1>1 DEF Removed
  <2>2. Removed \in BOOLEAN /\ Removed' \in BOOLEAN
    BY <1>1, <1>9 DEF Removed
  <2>3. Line(snat', Snat, gen'.snat, saved'.snat, None, Removed', released')
    <3>1. Line(snat, Snat, gen.snat, saved.snat, None, Removed, released)
      BY DEF StateInv, SnatInv
    <3>2. ASSUME NEW lost \in BOOLEAN, NEW lost2 \in BOOLEAN, lost => lost2,
                 Line(snat, Snat, gen.snat, saved.snat, None, lost, released)
          PROVE  Line(snat, Snat, gen.snat, r.snat, None, lost2, released)
      BY <1>2, <1>9, <3>2, LineFound
    <3> HIDE DEF Removed
    <3> QED BY <1>1, <2>1, <2>2, <3>1, <3>2
  <2>4. "table" \in Outdated(r, changes) => r.snat \notin LiveSnat
    <3>1. SUFFICES ASSUME "table" \in Outdated(r, changes), r.snat \in LiveSnat
                   PROVE  FALSE
      OBVIOUS
    <3>2. ~Removed
      BY <1>1, <1>4, <3>1 DEF Removed
    <3>3. r.table = saved.nat /\ saved.nat # None /\ r.nat = saved.nat
      BY <3>1, <3>2, FoundEntry DEF r
    <3> QED BY <1>4, <3>1, <3>3
  <2>5. SnatHold'
    <3>1. pc'.snat \in {"idle", "planned"} /\ (pc'.snat = "planned" => pc.snat \in {"planned", "done"})
      BY <1>3 DEF Res
    <3>2. "snat" \in retire' => r.snat # None /\ "table" \notin retire'
      BY <1>1, <1>2, <1>4, <1>10 DEF StateInv, SnatInv, SnatHold, Found
    <3>3. "table" \in retire' => r.snat # None /\ r.snat \notin LiveSnat
      BY <1>1, <1>2, <1>4, <2>4 DEF StateInv, SnatInv, SnatHold, Found
    <3>4. pc'.snat = "planned" => r.snat # None
      BY <1>1, <1>2, <3>1 DEF StateInv, SnatInv, SnatHold, Found
    <3> QED BY <1>1, <1>8, <3>1, <3>2, <3>3, <3>4 DEF SnatHold, HeldStep, Deletion, Waiting
  <2>6. ~Removed' => \A s \in LiveSnat : snat[s].gen = gen.snat =>
                        snat[s].table = r.nat /\ "nat" \notin retire'
    <3>1. SUFFICES ASSUME ~Removed', NEW s \in LiveSnat, snat[s].gen = gen.snat
                   PROVE  snat[s].table = r.nat /\ "nat" \notin retire'
      OBVIOUS
    <3>2. snat[s].table = saved.nat /\ "nat" \notin retire /\ saved.nat \in Ngw
      BY <2>1, <3>1 DEF StateInv, SnatInv, CloudInv
    <3>3. r.nat = saved.nat
      BY <1>2, <1>9, <3>2 DEF Found
    <3>4. r.snat # None
      BY <1>2, <3>1 DEF Found, LiveSnat
    <3>5. "nat" \notin Outdated(r, changes)
      BY <1>1, <1>4, <3>1, <3>4 DEF Removed
    <3> QED BY <1>1, <3>2, <3>3, <3>5
  <2>7. \A s \in Snat : snat[s].status = "Deleting" /\ snat[s].gen = gen.snat => Removed'
    BY <2>1 DEF StateInv, SnatInv
  <2> QED BY <1>1, <1>2, <1>8, <2>3, <2>5, <2>6, <2>7 DEF SnatInv
<1>14. NetInv'
  <2>1. /\ pc'.net \in {"idle", "planned"} /\ (pc'.net = "planned" => pc.net \in {"planned", "done"})
        /\ pc'.nat \in {"idle", "planned"}
    BY <1>3 DEF Res
  <2> QED BY <1>1, <1>8, <2>1 DEF StateInv, NetInv, Work, HeldStep
<1>15. FitInv'
  BY <1>3 DEF FitInv, Res
<1> QED BY <1>5, <1>6, <1>7, <1>11, <1>12, <1>13, <1>14, <1>15 DEF StateInv

LEMMA EditKeeps ==
    ASSUME StateInv, NEW changes \in Edits, Edit(changes)
    PROVE  StateInv'
<1>1. TypeOK /\ changes \subseteq Change
  BY EditsAssumption DEF StateInv
<1>2. upsets' \in 0..MaxUpsets
  BY <1>1, UpsetType DEF Edit
<1>3. want' = [place |-> IF "place" \in changes THEN 3 - want.place ELSE want.place,
               billing |-> IF "billing" \in changes THEN 3 - want.billing ELSE want.billing]
  BY DEF Edit
<1>4. want.place \in {1, 2} /\ want.billing \in {1, 2}
  BY <1>1 DEF TypeOK, Choice
<1>5. want' \in [place : Choice, billing : Choice]
  BY <1>3, <1>4 DEF Choice
<1>6. /\ "place" \notin changes => want'.place = want.place
      /\ "billing" \notin changes => want'.billing = want.billing
  BY <1>3
<1>7. Replans(changes)
  BY <1>2, <1>5, <1>6 DEF Replans, Edit
<1> QED BY <1>7, ReplansKeeps

LEMMA RerunKeeps ==
    ASSUME StateInv, Rerun
    PROVE  StateInv'
<1>1. /\ AtRest /\ TypeOK
      /\ UNCHANGED <<cloud, want, gen, outgoing, destroying, cur, released, upsets>>
  BY DEF Rerun, StateInv
<1>2. CASE ~destroying
  <2>1. Plan({})
    BY <1>2 DEF Rerun
  <2>2. Replans({})
    BY <1>1, <1>2, <2>1 DEF Replans, TypeOK
  <2> QED BY <2>2, ReplansKeeps
<1>3. CASE destroying
  <2>1. /\ pc' = [r \in Res |-> IF pc[r] = "failed" THEN "idle" ELSE pc[r]]
        /\ UNCHANGED <<saved, retire, touched>>
    BY <1>3 DEF Rerun
  <2>2. UNCHANGED <<net, nat, eip, snat>>
    BY <1>1 DEF cloud
  <2>3. \A r \in Res : pc[r] \in {"idle", "failed", "gone"}
    BY <1>1, <1>3 DEF AtRest, Rest, StateInv, OrderInv, Ending, Deletion
  <2>4. \A r \in Res : pc'[r] \in {"idle", "gone"} /\ (pc'[r] = "gone" => pc[r] = "gone")
    BY <2>1, <2>3
  <2>5. /\ pc'.net \in {"idle", "gone"} /\ (pc'.net = "gone" => pc.net = "gone")
        /\ pc'.nat \in {"idle", "gone"} /\ pc'.eip \in {"idle", "gone"}
        /\ (pc'.eip = "gone" => pc.eip = "gone") /\ pc'.snat \in {"idle", "gone"}
    BY <2>4 DEF Res
  <2>6. TypeOK'
    BY <1>1, <2>1, <2>2, <2>4 DEF TypeOK, Step, Rest
  <2>7. CloudInv' /\ OrderInv'
    BY <1>1, <1>3, <2>1, <2>2, <2>4, CloudSame DEF StateInv, OrderInv, Ending
  <2>8. retire = {}
    BY <1>3 DEF StateInv, OrderInv
  <2>9. NatInv'
    BY <1>1, <1>3, <2>1, <2>2, <2>5, <2>8
    DEF StateInv, NatInv, NatHold, HeldStep, Deletion, LiveNat, Live
  <2>10. EipInv'
    BY <1>1, <1>3, <2>1, <2>2, <2>5, <2>8
    DEF StateInv, EipInv, EipHold, HeldStep, Deletion, LiveEip, Live
  <2>11. SnatInv'
    BY <1>1, <1>3, <2>1, <2>2, <2>5, <2>8
    DEF StateInv, SnatInv, SnatHold, Removed, HeldStep, Deletion, LiveSnat, Live
  <2>12. NetInv' /\ FitInv'
    BY <1>1, <1>3, <2>1, <2>2, <2>5 DEF StateInv, NetInv, FitInv, Work, HeldStep, LiveNat, Live
  <2> QED BY <2>6, <2>7, <2>9, <2>10, <2>11, <2>12 DEF StateInv
<1> QED BY <1>2, <1>3

LEMMA DestroyKeeps ==
    ASSUME StateInv, Destroy
    PROVE  StateInv'
<1> DEFINE r == Recovered
<1>1. /\ ~destroying /\ TypeOK /\ destroying' = TRUE /\ saved' = r /\ retire' = {}
      /\ pc' = [q \in Res |-> "idle"]
      /\ UNCHANGED <<net, nat, eip, snat, want, gen, outgoing, cur, touched, released, upsets>>
  BY DEF Destroy, StateInv, cloud, history
<1>2. /\ r \in Output
      /\ Found(r.nat, nat, Ngw, gen.nat, saved.nat)
      /\ Found(r.eip, eip, Eip, gen.eip, saved.eip)
      /\ Found(r.snat, snat, Snat, gen.snat, saved.snat)
      /\ r.snat # None => r.table = snat[r.snat].table
  BY RecoveredFinds
<1> HIDE DEF r
<1>3. /\ \A q \in Res : pc'[q] = "idle"
      /\ pc'.net = "idle" /\ pc'.nat = "idle" /\ pc'.eip = "idle" /\ pc'.snat = "idle"
  BY <1>1 DEF Res
<1>4. TypeOK'
  <2>1. pc' \in [Res -> Step]
    BY <1>1 DEF Step, Rest
  <2> QED BY <1>1, <1>2, <2>1 DEF TypeOK, Output
<1>5. CloudInv' /\ OrderInv'
  BY <1>1, <1>3, CloudSame DEF StateInv, OrderInv, Ending
<1>6. LiveNat' = LiveNat /\ LiveEip' = LiveEip /\ LiveSnat' = LiveSnat
  BY <1>1 DEF LiveNat, LiveEip, LiveSnat, Live
<1>7. None \notin Ngw /\ None \notin Eip /\ None \notin Snat
  BY NoneAssumption
<1>8. NatInv'
  <2>1. Line(nat, Ngw, gen.nat, r.nat, outgoing.nat, TRUE, released)
    <3>1. Line(nat, Ngw, gen.nat, saved.nat, outgoing.nat, destroying, released)
      BY DEF StateInv, NatInv
    <3>2. destroying \in BOOLEAN
      BY <1>1 DEF TypeOK
    <3> QED BY <1>2, <1>7, <3>1, <3>2, LineFound
  <2>2. NatHold'
    BY <1>1, <1>3 DEF NatHold, HeldStep, Deletion
  <2> QED BY <1>1, <2>1, <2>2 DEF NatInv
<1>9. EipInv'
  <2>1. Line(eip, Eip, gen.eip, r.eip, outgoing.eip, TRUE, released)
    <3>1. Line(eip, Eip, gen.eip, saved.eip, outgoing.eip, destroying, released)
      BY DEF StateInv, EipInv
    <3>2. destroying \in BOOLEAN
      BY <1>1 DEF TypeOK
    <3> QED BY <1>2, <1>7, <3>1, <3>2, LineFound
  <2>2. EipHold'
    BY <1>1, <1>3 DEF EipHold, HeldStep, Deletion
  <2>3. r.eip = None => \A e \in LiveEip : eip[e].gen # gen.eip
    BY <1>2 DEF Found, LiveEip
  <2> QED BY <1>1, <1>6, <2>1, <2>2, <2>3 DEF EipInv
<1>10. SnatInv'
  <2>1. Removed' = TRUE
    BY <1>1 DEF Removed
  <2>2. Line(snat', Snat, gen'.snat, saved'.snat, None, Removed', released')
    <3>1. Line(snat, Snat, gen.snat, saved.snat, None, Removed, released)
      BY DEF StateInv, SnatInv
    <3>2. Removed \in BOOLEAN
      BY <1>1 DEF Removed, TypeOK
    <3>3. ASSUME NEW lost \in BOOLEAN, Line(snat, Snat, gen.snat, saved.snat, None, lost, released)
          PROVE  Line(snat, Snat, gen.snat, r.snat, None, TRUE, released)
      <4>1. Found(r.snat, snat, Snat, gen.snat, saved.snat) /\ TRUE \in BOOLEAN /\ None \notin Snat
        BY <1>2, <1>7
      <4> QED BY <3>3, <4>1, LineFound
    <3> HIDE DEF Removed
    <3> QED BY <1>1, <2>1, <3>1, <3>2, <3>3
  <2>3. SnatHold'
    BY <1>1, <1>3 DEF SnatHold, HeldStep, Deletion
  <2> QED BY <1>1, <1>2, <2>1, <2>2, <2>3 DEF SnatInv
<1>11. NetInv' /\ FitInv'
  BY <1>1, <1>3, <1>6 DEF StateInv, NetInv, FitInv, Work, HeldStep
<1> QED BY <1>4, <1>5, <1>8, <1>9, <1>10, <1>11 DEF StateInv

LEMMA ProcessDiesKeeps ==
    ASSUME StateInv, ProcessDies
    PROVE  StateInv'
<1>1. /\ TypeOK /\ Upset
      /\ pc' = [r \in Res |-> IF pc[r] \in Rest THEN pc[r] ELSE "failed"]
      /\ cur' = [nat |-> None, eip |-> None, snat |-> None]
      /\ UNCHANGED <<net, nat, eip, snat, want, gen, retire, saved, outgoing, destroying,
                     touched, released>>
  BY DEF ProcessDies, StateInv, cloud, engine, history
<1>2. \A r \in Res : /\ pc'[r] \in Rest
                     /\ pc'[r] = IF pc[r] \in Rest THEN pc[r] ELSE "failed"
  BY <1>1 DEF Rest
<1>3. /\ pc'.net = IF pc.net \in Rest THEN pc.net ELSE "failed"
      /\ pc'.nat = IF pc.nat \in Rest THEN pc.nat ELSE "failed"
      /\ pc'.eip = IF pc.eip \in Rest THEN pc.eip ELSE "failed"
      /\ pc'.att = IF pc.att \in Rest THEN pc.att ELSE "failed"
      /\ pc'.snat = IF pc.snat \in Rest THEN pc.snat ELSE "failed"
  BY <1>2 DEF Res
<1>4. TypeOK'
  <2>1. pc' \in [Res -> Step]
    BY <1>1 DEF TypeOK, Step, Rest
  <2> QED BY <1>1, <2>1, UpsetType DEF TypeOK
<1>5. CloudInv'
  BY <1>1, CloudSame DEF StateInv
<1>6. OrderInv'
  <2>1. CASE destroying
    BY <1>1, <1>2, <2>1 DEF StateInv, OrderInv, Ending
  <2>2. CASE ~destroying
    <3>1. \A r \in Res : pc'[r] # "gone"
      BY <1>2, <2>2 DEF StateInv, OrderInv
    <3> QED BY <1>1, <1>3, <2>2, <3>1
        DEF StateInv, OrderInv, Deletion, AttWork, Work, HeldStep, Finished, Rest
  <2> QED BY <2>1, <2>2
<1>7. NatInv'
  <2>1. NatHold'
    BY <1>1, <1>3 DEF StateInv, NatInv, NatHold, HeldStep, Deletion, Waiting, Rest
  <2> QED BY <1>1, <2>1 DEF StateInv, NatInv, LiveNat, Live
<1>8. EipInv'
  <2>1. EipHold'
    BY <1>1, <1>3 DEF StateInv, EipInv, EipHold, HeldStep, Deletion, Waiting, Rest, LiveEip, Live
  <2> QED BY <1>1, <2>1 DEF StateInv, EipInv, LiveEip, Live
<1>9. SnatInv'
  <2>1. SnatHold'
    BY <1>1, <1>3 DEF StateInv, SnatInv, SnatHold, HeldStep, Deletion, Waiting, Rest, LiveSnat, Live
  <2> QED BY <1>1, <2>1 DEF StateInv, SnatInv, Removed, LiveSnat, Live
<1>10. NetInv' /\ FitInv'
  BY <1>1, <1>3 DEF StateInv, NetInv, FitInv, Work, HeldStep, Rest, LiveNat, Live
<1> QED BY <1>4, <1>5, <1>6, <1>7, <1>8, <1>9, <1>10 DEF StateInv

-----------------------------------------------------------------------------
LEMMA InitInv ==
    ASSUME Init
    PROVE  StateInv
<1>1. /\ \A n \in Ngw : nat[n].status = "unborn"
      /\ \A e \in Eip : eip[e].status = "unborn" /\ eip[e].on = None
      /\ \A s \in Snat : snat[s].status = "unborn" /\ snat[s].table = None
  BY DEF Init
<1>2. LiveNat = {} /\ LiveEip = {} /\ LiveSnat = {}
  BY <1>1 DEF LiveNat, LiveEip, LiveSnat, Live
<1>3. /\ saved.nat = None /\ saved.eip = None /\ saved.snat = None
      /\ outgoing.nat = None /\ outgoing.eip = None
      /\ retire = {} /\ destroying = FALSE /\ released = {} /\ upsets = 0
      /\ \A r \in Res : pc[r] = "idle"
  BY DEF Init
<1>4. pc.net = "idle" /\ pc.nat = "idle" /\ pc.eip = "idle" /\ pc.att = "idle" /\ pc.snat = "idle"
  BY <1>3 DEF Res
<1>5. TypeOK
  <2>1. CloudType
    BY DEF Init, CloudType, Network, Gateway, Address, Entry, Status, EipStatus, Generation, Choice
  <2>2. EngineType
    BY DEF Init, EngineType, Output, Generation
  <2>3. pc \in [Res -> Step] /\ cur \in Cur
    BY DEF Init, Step, Rest, Cur
  <2>4. want \in [place : Choice, billing : Choice] /\ touched \in BOOLEAN
    BY DEF Init, Choice
  <2>5. upsets \in 0..MaxUpsets
    BY <1>3, BoundAssumption
  <2> QED BY <1>3, <2>1, <2>2, <2>3, <2>4, <2>5 DEF TypeOK, CloudType, EngineType, Output, Cur
<1>6. Foreign # None
  BY NoneAssumption
<1>7. CloudInv
  BY <1>1, <1>2, <1>6, NoneAssumption DEF CloudInv
<1>8. OrderInv
  BY <1>3, <1>4 DEF OrderInv, Deletion, AttWork, Work, HeldStep
<1>9. NatInv
  BY <1>1, <1>2, <1>3, <1>4 DEF NatInv, NatHold, Line, LiveNat, HeldStep, Deletion
<1>10. EipInv
  BY <1>1, <1>2, <1>3, <1>4 DEF EipInv, EipHold, Line, LiveEip, HeldStep, Deletion
<1>11. SnatInv
  BY <1>1, <1>2, <1>3, <1>4 DEF SnatInv, SnatHold, Line, LiveSnat, HeldStep, Deletion, Removed
<1>12. NetInv /\ FitInv
  <2>1. net.status = "unborn"
    BY DEF Init
  <2> QED BY <1>2, <1>4, <2>1 DEF NetInv, FitInv, Work, HeldStep
<1> QED BY <1>5, <1>7, <1>8, <1>9, <1>10, <1>11, <1>12 DEF StateInv

LEMMA NextInv ==
    ASSUME StateInv, [Next]_vars
    PROVE  StateInv'
<1>1. CASE UNCHANGED vars
  <2>1. /\ UNCHANGED <<net, nat, eip, snat, want, gen, retire, saved, outgoing, destroying,
                       pc, cur, touched, released, upsets>>
    BY <1>1 DEF vars, cloud, engine, history
  <2>2. TypeOK' /\ CloudInv' /\ OrderInv' /\ FitInv'
    BY <2>1, CloudSame DEF StateInv, TypeOK, OrderInv, FitInv
  <2>3. NatApart /\ EipApart /\ SnatApart /\ NetApart
    BY <2>1 DEF NatApart, EipApart, SnatApart, NetApart, LiveNat, Live
  <2>4. NatInv' /\ EipInv' /\ SnatInv' /\ NetInv'
    BY <2>1, <2>3, NatSame, EipSame, SnatSame, NetSame DEF StateInv
  <2> QED BY <2>2, <2>4 DEF StateInv
<1>2. CASE Next
  BY <1>2, NetStepKeeps, NatStepKeeps, EipStepKeeps, AttStepKeeps, SnatStepKeeps,
     RerunKeeps, TaskEndsKeeps, ConsoleKeeps, DestroyKeeps, ProcessDiesKeeps, EditKeeps
  DEF Next, Disturbance
<1> QED BY <1>1, <1>2

LEMMA StateAlways == Spec => []StateInv
BY InitInv, NextInv, PTL DEF Spec

-----------------------------------------------------------------------------
(* The theorems. *)

\* Whatever the five handlers, the cloud, an operator and a crash do, in any
\* order, no handler is left with a step, an output or an identity that does
\* not exist: a failed or dead handler of src/src/vpc starts again from "idle".
THEOREM TypeCorrect == Spec => []TypeOK
BY StateAlways, PTL DEF StateInv

LEMMA LineIsSingle ==
    ASSUME NEW things, NEW Id, NEW g, NEW s, NEW o, NEW lost,
           Line(things, Id, g, s, o, lost, released)
    PROVE  Single(things, Id, g, o)
BY DEF Line, Single, Successor

\* No gateway, address or entry is paid for twice (CreateNatGateway,
\* AllocateEipAddress and CreateSnatEntry with the client token of the
\* generation), and of the earlier generations only the one on its way out is
\* left, whatever answer was lost and wherever a run died.
THEOREM BoughtOnce == Spec => []OneOfEach
<1>1. StateInv => OneOfEach
  <2> SUFFICES ASSUME StateInv
               PROVE  OneOfEach
    OBVIOUS
  <2>1. Single(nat, Ngw, gen.nat, outgoing.nat) /\ Single(eip, Eip, gen.eip, outgoing.eip)
    BY LineIsSingle DEF StateInv, NatInv, EipInv
  <2>2. Single(snat, Snat, gen.snat, None)
    <3>1. Line(snat, Snat, gen.snat, saved.snat, None, Removed, released)
      BY DEF StateInv, SnatInv
    <3> HIDE DEF Removed
    <3> QED BY <3>1, LineIsSingle
  <2> QED BY <2>1, <2>2 DEF OneOfEach
<1> QED BY <1>1, StateAlways, PTL

\* An entry that is available works: the cloud lets nobody take its address or
\* its gateway while it is there.
LEMMA AvailableServes ==
    ASSUME CloudInv, NEW s \in Snat
    PROVE  Serves(s) <=> snat[s].status = "Available"
<1>1. ASSUME snat[s].status = "Available"
      PROVE  Serves(s)
  <2>1. s \in LiveSnat
    BY <1>1 DEF LiveSnat, Live
  <2>2. /\ snat[s].table \in Ngw /\ snat[s].ip \in Eip
        /\ eip[snat[s].ip].status = "InUse" /\ eip[snat[s].ip].on = snat[s].table
    BY <2>1 DEF CloudInv
  <2>3. nat[snat[s].table].status = "Available"
    BY <2>2 DEF CloudInv
  <2> QED BY <1>1, <2>2, <2>3, NoneAssumption DEF Serves, CanUse, Bound, Live
<1> QED BY <1>1 DEF Serves

\* A destroy that is over left nothing but what made up for a released address.
LEMMA GoneMeansGone ==
    ASSUME StateInv
    PROVE  DestroyLeavesNothing
<1> SUFFICES ASSUME \A r \in Res : pc[r] = "gone"
             PROVE  /\ LiveNat \cup LiveSnat = {} /\ ~Live(net)
                    /\ \A e \in LiveEip : Successor(e, eip, Eip)
  BY DEF DestroyLeavesNothing
<1>1. pc.net = "gone" /\ pc.eip = "gone" /\ destroying
  BY DEF Res, StateInv, OrderInv
<1>2. ~Live(net) /\ LiveNat = {}
  BY <1>1 DEF StateInv, NetInv, Live
<1>3. LiveSnat = {}
  BY <1>2, EntryInGateway DEF StateInv
<1>4. ASSUME NEW e \in LiveEip
      PROVE  Successor(e, eip, Eip)
  <2>1. e \in Eip /\ Live(eip[e]) /\ e # None
    BY NoneAssumption DEF LiveEip
  <2>2. outgoing.eip = None /\ saved.eip \notin LiveEip
    BY <1>1 DEF StateInv, EipInv, EipHold
  <2>3. Line(eip, Eip, gen.eip, saved.eip, None, destroying, released)
    BY <2>2 DEF StateInv, EipInv
  <2>4. CASE eip[e].gen = gen.eip
    <3>1. saved.eip # None
      BY <1>1, <2>4 DEF StateInv, EipInv
    <3>2. saved.eip \in Eip /\ ~Live(eip[saved.eip])
      BY <2>2, <3>1 DEF StateInv, TypeOK, LiveEip
    <3>3. saved.eip \in released /\ eip[saved.eip].gen = gen.eip
      BY <2>1, <2>3, <2>4, <3>1, <3>2 DEF Line
    <3> QED BY <2>1, <2>4, <3>2, <3>3 DEF Successor
  <2>5. CASE eip[e].gen # gen.eip
    BY <2>1, <2>3, <2>5 DEF Line, Successor
  <2> QED BY <2>4, <2>5
<1> QED BY <1>2, <1>3, <1>4

LEMMA DoneMeansConnected ==
    ASSUME StateInv
    PROVE  DeployedMeansConnected
<1> SUFFICES ASSUME AllDone, ~touched
             PROVE  /\ saved.snat \in Snat /\ Serves(saved.snat)
                    /\ snat[saved.snat].table = saved.nat /\ snat[saved.snat].ip = saved.eip
                    /\ nat[saved.nat].place = want.place /\ eip[saved.eip].billing = want.billing
  BY DEF DeployedMeansConnected
<1> DEFINE s == saved.snat
<1>1. pc.nat = "done" /\ pc.eip = "done" /\ pc.snat = "done" /\ ~destroying
  BY DEF AllDone, Res, StateInv, OrderInv, Ending, Deletion
<1>2. s \in Snat /\ s # None /\ snat[s].status = "Available" /\ snat[s].ip = saved.eip
  BY <1>1 DEF StateInv, FitInv, TypeOK
<1>3. Serves(s) /\ s \in LiveSnat
  BY <1>2, AvailableServes DEF StateInv, LiveSnat, Live
<1>4. "snat" \notin retire /\ "nat" \notin retire /\ "eip" \notin retire
  BY <1>1 DEF StateInv, NatInv, EipInv, SnatInv, NatHold, EipHold, SnatHold, Waiting, Deletion
<1>5. snat[s].gen = gen.snat /\ ~Removed
  BY <1>1, <1>2, <1>4 DEF StateInv, SnatInv, Line, Removed
<1>6. snat[s].table = saved.nat
  BY <1>3, <1>5 DEF StateInv, SnatInv
<1>7. saved.nat \in LiveNat /\ saved.eip \in LiveEip
  BY <1>2, <1>3, <1>6, EntryInGateway DEF StateInv
<1>8. saved.nat # None /\ saved.eip # None
  BY <1>7, NoneAssumption DEF LiveNat, LiveEip
<1>9. nat[saved.nat].place = want.place /\ eip[saved.eip].billing = want.billing
  BY <1>1, <1>4, <1>7, <1>8 DEF StateInv, NatInv, EipInv, Line
<1> QED BY <1>2, <1>3, <1>6, <1>9

\* A deployment that ends well and that nobody interfered with leaves a working
\* path out, through the gateway and the address that were asked for; a destroy
\* that ends well leaves nothing that anybody pays for, the network included,
\* but the successor of an address that an operator released.
THEOREM SuccessIsReal == Spec => []SuccessMeansDone
<1>1. StateInv => SuccessMeansDone
  BY GoneMeansGone, DoneMeansConnected DEF SuccessMeansDone
<1> QED BY <1>1, StateAlways, PTL

-----------------------------------------------------------------------------
(* What no step may do. *)

\* Only a deletion makes an entry of the stack unavailable.
LEMMA SnatStepServes ==
    ASSUME StateInv, SnatStep, ~Removed, NEW s \in Snat, snat[s].status = "Available"
    PROVE  snat'[s].status = "Available"
<1>1. TypeOK /\ CloudType
  BY TypeParts DEF StateInv
<1>2. CASE UNCHANGED cloud
  BY <1>2 DEF cloud
<1>3. CASE PlanSnat \/ ObserveSnat \/ FinalSnat \/ StartDeleteSnat \/ SnatAbsent
  BY <1>2, <1>3 DEF PlanSnat, ObserveSnat, FinalSnat, StartDeleteSnat, SnatAbsent
<1>4. CASE AwaitSnat
  BY <1>2, <1>4 DEF AwaitSnat, Wait
<1>5. CASE DeleteSnatEntry
  BY <1>5 DEF DeleteSnatEntry, StateInv, SnatInv, SnatHold, Deletion
<1>6. CASE CreateSnatEntry
  <2>1. ASSUME NEW t \in Snat, CreateSnat(t)
        PROVE  snat'[s].status = "Available"
    <3> DEFINE new == [status |-> "Pending", gen |-> gen.snat,
                       table |-> saved.nat, ip |-> saved.eip, tuned |-> TRUE]
    <3>1. CASE ~Live(snat[t])
      <4>1. SetSnat(t, new) /\ t # s
        BY <2>1, <3>1 DEF CreateSnat, Live
      <4> HIDE DEF new
      <4> QED BY <1>1, <4>1 DEF SetSnat, CloudType
    <3> QED BY <1>2, <2>1, <3>1 DEF CreateSnat
  <2> QED BY <1>2, <1>6, <2>1 DEF CreateSnatEntry
<1>7. CASE ModifySnatEntry
  <2> DEFINE t == cur.snat
             new == [snat[t] EXCEPT !.tuned = TRUE, !.ip = saved.eip]
  <2>1. SetSnat(t, new) \/ UNCHANGED cloud
    BY <1>7 DEF ModifySnatEntry, Call
  <2>2. CASE SetSnat(t, new)
    <3>1. snat' = [snat EXCEPT ![t] = new]
      BY <2>2 DEF SetSnat
    <3>2. t = s => new.status = "Available"
      BY <1>1 DEF CloudType, Entry
    <3> HIDE DEF new
    <3> QED BY <1>1, <3>1, <3>2 DEF CloudType
  <2> QED BY <1>2, <2>1, <2>2
<1> QED BY <1>3, <1>4, <1>5, <1>6, <1>7 DEF SnatStep

LEMMA NextServes ==
    ASSUME StateInv, [Next]_vars, ~Console, ~Removed, NEW s \in Snat, snat[s].status = "Available"
    PROVE  snat'[s].status = "Available"
<1>1. CASE UNCHANGED vars
  BY <1>1 DEF vars, cloud
<1>2. CASE NetStep \/ NatStep \/ EipStep \/ AttStep
  BY <1>2, NetStepDoes, NatStepDoes, EipStepDoes, AttStepDoes
  DEF StateInv, NatKeeps, NatLeaves, EipKeeps, EipLeaves, AttKeeps, AttLeaves
<1>3. CASE SnatStep
  BY <1>3, SnatStepServes
<1>4. CASE TaskEnds
  <2>1. CASE UNCHANGED snat
    BY <2>1
  <2>2. ASSUME NEW t \in Snat, SnatBusy(t), SetSnat(t, [snat[t] EXCEPT !.status = Ended(@)])
        PROVE  snat'[s].status = "Available"
    <3>1. t # s
      BY <2>2 DEF SnatBusy
    <3> QED BY <2>2, <3>1 DEF SetSnat, StateInv, TypeOK
  <2> QED BY <1>4, <2>1, <2>2 DEF TaskEnds, SetNet, SetNat, SetEip
<1>5. CASE Rerun \/ Destroy \/ ProcessDies \/ \E changes \in Edits : Edit(changes)
  BY <1>5 DEF Rerun, Destroy, ProcessDies, Edit, cloud
<1> QED BY <1>1, <1>2, <1>3, <1>4, <1>5 DEF Next, Disturbance

\* No step of a handler takes a working path away, unless something is to be
\* replaced or the stack is destroyed: an entry in service is deleted only for
\* that (DeleteSnatEntry), and while it is there the cloud refuses to unbind
\* its address and to delete its gateway.
THEOREM EgressIsKept == Spec => EgressKept
<1>1. StateInv /\ StateInv' /\ [Next]_vars
        => [(Egress /\ ~Egress') => retire # {} \/ destroying \/ Console]_vars
  <2> SUFFICES ASSUME StateInv, StateInv', [Next]_vars, Egress, retire = {}, ~destroying, ~Console
               PROVE  Egress'
    OBVIOUS
  <2>1. PICK s \in Snat : Serves(s)
    BY DEF Egress
  <2>2. ~Removed
    BY DEF Removed
  <2>3. snat'[s].status = "Available"
    BY <2>1, <2>2, NextServes DEF Serves
  <2>4. CloudInv'
    BY DEF StateInv
  <2>5. Serves(s)'
    <3>1. s \in LiveSnat'
      BY <2>3 DEF LiveSnat, Live
    <3>2. /\ snat'[s].table \in Ngw /\ snat'[s].ip \in Eip
          /\ eip'[snat'[s].ip].status = "InUse" /\ eip'[snat'[s].ip].on = snat'[s].table
      BY <2>4, <3>1 DEF CloudInv
    <3>3. nat'[snat'[s].table].status = "Available"
      BY <2>4, <3>2 DEF CloudInv
    <3> QED BY <2>3, <3>2, <3>3, NoneAssumption DEF Serves, CanUse, Bound, Live
  <2> QED BY <2>5 DEF Egress
<1> QED BY <1>1, StateAlways, PTL DEF Spec, EgressKept

\* The handler of the addresses allocates what was not there before.
LEMMA EipStepSpares ==
    ASSUME StateInv, EipStep, NEW e \in Eip, eip[e].status = "InUse"
    PROVE  eip'[e].on = eip[e].on /\ eip'[e].status = "InUse"
<1>1. TypeOK /\ CloudType
  BY TypeParts DEF StateInv
<1>2. CASE UNCHANGED cloud
  BY <1>2 DEF cloud
<1>3. CASE PlanEip \/ ObserveEip \/ FinalEip \/ StartDeleteEip \/ EipAbsent
  BY <1>2, <1>3 DEF PlanEip, ObserveEip, FinalEip, StartDeleteEip, EipAbsent
<1>4. CASE AwaitEip
  BY <1>2, <1>4 DEF AwaitEip, Wait
<1>5. CASE AllocateEipAddress
  <2>1. ASSUME NEW f \in Eip, AllocateEip(f)
        PROVE  eip'[e].on = eip[e].on /\ eip'[e].status = "InUse"
    <3> DEFINE new == [status |-> "Available", gen |-> gen.eip, billing |-> want.billing,
                       tuned |-> TRUE, on |-> None]
    <3>1. CASE ~Live(eip[f])
      <4>1. SetEip(f, new) /\ f # e
        BY <2>1, <3>1 DEF AllocateEip, Live
      <4> HIDE DEF new
      <4> QED BY <1>1, <4>1 DEF SetEip, CloudType
    <3> QED BY <1>2, <2>1, <3>1 DEF AllocateEip
  <2> QED BY <1>2, <1>5, <2>1 DEF AllocateEipAddress
<1>6. CASE TuneEip
  <2> DEFINE f == cur.eip
             new == [eip[f] EXCEPT !.tuned = TRUE]
  <2>1. SetEip(f, new) \/ UNCHANGED cloud
    BY <1>6 DEF TuneEip, Call
  <2>2. CASE SetEip(f, new)
    <3>1. eip' = [eip EXCEPT ![f] = new]
      BY <2>2 DEF SetEip
    <3>2. f = e => new.on = eip[e].on /\ new.status = "InUse"
      BY <1>1 DEF CloudType, Address
    <3> HIDE DEF new
    <3> QED BY <1>1, <3>1, <3>2 DEF CloudType
  <2> QED BY <1>2, <2>1, <2>2
<1>7. CASE ReleaseEipAddress
  <2> DEFINE f == cur.eip
             new == [eip[f] EXCEPT !.status = "gone"]
  <2>1. (SetEip(f, new) /\ f # e) \/ UNCHANGED cloud
    BY <1>7 DEF ReleaseEipAddress, Call
  <2>2. CASE SetEip(f, new) /\ f # e
    <3>1. eip' = [eip EXCEPT ![f] = new]
      BY <2>2 DEF SetEip
    <3> HIDE DEF new
    <3> QED BY <2>2, <3>1, <1>1 DEF CloudType
  <2> QED BY <1>2, <2>1, <2>2
<1> QED BY <1>3, <1>4, <1>5, <1>6, <1>7 DEF EipStep

\* The association binds what is free, and unbinds what it decided to unbind.
LEMMA AttStepSpares ==
    ASSUME StateInv, AttStep, NEW e \in Eip, Theirs(e)
    PROVE  Theirs(e)' \/ (pc.att \in Sending /\ Old.eip = e)
<1>1. TypeOK /\ CloudType /\ eip[e].status = "InUse"
  BY TypeParts DEF StateInv, Theirs
<1>2. CASE UNCHANGED cloud
  BY <1>2 DEF cloud, Theirs
<1>3. CASE PlanAtt \/ ReadPrevious \/ AwaitBound \/ StartDeleteAtt \/ ReadBinding \/ AttAbsent
  BY <1>2, <1>3 DEF PlanAtt, ReadPrevious, AwaitBound, StartDeleteAtt, ReadBinding, AttAbsent
<1>4. CASE AssociateEipAddress
  <2> DEFINE f == saved.eip
             new == [eip[f] EXCEPT !.status = "Associating", !.on = saved.nat]
  <2>1. UNCHANGED cloud \/ (SetEip(f, new) /\ CanBind(f, saved.nat))
    BY <1>4 DEF AssociateEipAddress, Call
  <2>2. CASE SetEip(f, new) /\ CanBind(f, saved.nat)
    <3>1. f # e /\ eip' = [eip EXCEPT ![f] = new]
      BY <1>1, <2>2 DEF SetEip, CanBind
    <3> HIDE DEF new
    <3> QED BY <1>1, <3>1 DEF CloudType, Theirs
  <2> QED BY <1>2, <2>1, <2>2
<1>5. CASE UnassociateEipAddress
  <2> DEFINE f == Old.eip
             new == [eip[f] EXCEPT !.status = "Unassociating"]
  <2>1. pc.att \in Sending /\ (UNCHANGED cloud \/ SetEip(f, new))
    BY <1>5 DEF UnassociateEipAddress, Call
  <2>2. CASE SetEip(f, new) /\ f # e
    <3>1. eip' = [eip EXCEPT ![f] = new]
      BY <2>2 DEF SetEip
    <3> HIDE DEF new, f
    <3> QED BY <1>1, <2>2, <3>1 DEF CloudType, Theirs
  <2> QED BY <1>2, <2>1, <2>2
<1> QED BY <1>3, <1>4, <1>5 DEF AttStep

\* Nothing begins to unbind what is bound to somebody else.
LEMMA NobodyTurnsOnThem ==
    ASSUME StateInv, [Next]_vars, NEW e \in Eip, Theirs(e),
           pc.att \notin Sending, pc'.att \in Sending
    PROVE  Old.eip # e
<1>1. TypeOK /\ pc \in [Res -> Step] /\ pc'.att # pc.att
  BY TypeParts DEF StateInv
<1>2. CASE UNCHANGED vars
  BY <1>1, <1>2 DEF vars
<1>3. CASE NetStep \/ NatStep \/ EipStep \/ SnatStep
  BY <1>1, <1>3, NetStepDoes, NatStepDoes, EipStepDoes, SnatStepDoes
  DEF StateInv, NatKeeps, EipKeeps, SnatKeeps, Moves, Res
<1>4. CASE AttStep
  <2>1. Bound(Old.eip, Old.nat)
    <3>1. CASE ReadPrevious \/ ReadBinding
      BY <1>1, <3>1 DEF ReadPrevious, ReadBinding, Goto, Sending, Res
    <3>2. CASE PlanAtt
      BY <1>1, <3>2 DEF PlanAtt, Goto, Sending, Res
    <3>3. CASE StartDeleteAtt
      BY <1>1, <3>3 DEF StartDeleteAtt, Goto, Sending, Res
    <3>4. CASE AssociateEipAddress
      <4>1. pc'.att \in {pc.att, "done", "failed", "attached"}
        BY <1>1, <3>4 DEF AssociateEipAddress, Call, Proceed, Lost, Fail, End, Goto, Res
      <4> QED BY <1>1, <4>1 DEF Sending
    <3>5. CASE AwaitBound
      BY <1>1, <3>5 DEF AwaitBound, Fail, End, Goto, Sending, Res
    <3>6. CASE AttAbsent
      BY <1>1, <3>6 DEF AttAbsent, Proceed, Fail, End, Goto, Sending, Res
    <3>7. CASE UnassociateEipAddress
      BY <3>7 DEF UnassociateEipAddress
    <3> QED BY <1>4, <3>1, <3>2, <3>3, <3>4, <3>5, <3>6, <3>7 DEF AttStep
  <2>2. Old.nat \in Ngw \cup {None}
    BY <1>1 DEF TypeOK, Old
  <2> QED BY <2>1, <2>2, NoneAssumption DEF Bound, Theirs
<1>5. CASE TaskEnds \/ Console
  BY <1>1, <1>5 DEF TaskEnds, Console
<1>6. CASE Rerun \/ Destroy \/ ProcessDies \/ \E changes \in Edits : Edit(changes)
  <2>1. pc'.att \in {pc.att, "idle", "planned", "failed"}
    BY <1>1, <1>6 DEF Rerun, Destroy, ProcessDies, Edit, Plan, Res
  <2> QED BY <1>1, <2>1 DEF Sending
<1> QED BY <1>2, <1>3, <1>4, <1>5, <1>6 DEF Next, Disturbance

\* A task of the cloud, or an operator who deletes a gateway of this stack.
LEMMA CloudSpares ==
    ASSUME StateInv, TaskEnds \/ Console, NEW e \in Eip, eip[e].status = "InUse",
           eip[e].on = Foreign
    PROVE  eip'[e].on = Foreign /\ eip'[e].status = "InUse"
<1>1. TypeOK /\ CloudType
  BY TypeParts DEF StateInv
<1>2. CASE UNCHANGED eip
  BY <1>2
<1>3. ASSUME NEW f \in Eip, NEW new, SetEip(f, new), f = e => new.on = Foreign /\ new.status = "InUse"
      PROVE  eip'[e].on = Foreign /\ eip'[e].status = "InUse"
  BY <1>1, <1>3 DEF SetEip, CloudType
<1>4. CASE TaskEnds
  <2>1. ASSUME NEW f \in Eip, eip[f].status = "Associating",
               SetEip(f, [eip[f] EXCEPT !.status = "InUse"])
        PROVE  eip'[e].on = Foreign /\ eip'[e].status = "InUse"
    BY <1>3, <2>1
  <2>2. ASSUME NEW f \in Eip, eip[f].status = "Unassociating",
               SetEip(f, [eip[f] EXCEPT !.status = "Available", !.on = None])
        PROVE  eip'[e].on = Foreign /\ eip'[e].status = "InUse"
    BY <1>3, <2>2
  <2> QED BY <1>2, <1>4, <2>1, <2>2 DEF TaskEnds, SetNet, SetNat, SetSnat
<1>5. CASE Console
  <2>1. ASSUME NEW n \in LiveNat,
               eip' = [f \in Eip |-> IF eip[f].on # n THEN eip[f]
                         ELSE [eip[f] EXCEPT !.status = "Available", !.on = None]]
        PROVE  eip'[e].on = Foreign /\ eip'[e].status = "InUse"
    BY <2>1, NoneAssumption DEF LiveNat
  <2>2. ASSUME NEW f \in LiveEip,
               SetEip(f, [eip[f] EXCEPT !.status = "Unassociating"]), eip[f].on # Foreign
        PROVE  eip'[e].on = Foreign /\ eip'[e].status = "InUse"
    BY <1>3, <2>2 DEF LiveEip
  <2>3. ASSUME NEW f \in LiveEip, eip[f].status = "Available",
               \/ SetEip(f, [eip[f] EXCEPT !.status = "InUse", !.on = Foreign])
               \/ SetEip(f, [eip[f] EXCEPT !.status = "gone"])
        PROVE  eip'[e].on = Foreign /\ eip'[e].status = "InUse"
    BY <1>3, <2>3 DEF LiveEip
  <2>4. ASSUME NEW f \in LiveEip, SetEip(f, [eip[f] EXCEPT !.tuned = FALSE])
        PROVE  eip'[e].on = Foreign /\ eip'[e].status = "InUse"
    <3>1. f = e => /\ [eip[f] EXCEPT !.tuned = FALSE].on = Foreign
                  /\ [eip[f] EXCEPT !.tuned = FALSE].status = "InUse"
      BY <1>1 DEF CloudType, Address
    <3> DEFINE new == [eip[f] EXCEPT !.tuned = FALSE]
    <3>2. SetEip(f, new) /\ (f = e => new.on = Foreign /\ new.status = "InUse") /\ f \in Eip
      BY <2>4, <3>1 DEF LiveEip
    <3> HIDE DEF new
    <3> QED BY <1>3, <3>2
  <2>5. \/ UNCHANGED eip
        \/ \E n \in LiveNat :
             eip' = [f \in Eip |-> IF eip[f].on # n THEN eip[f]
                       ELSE [eip[f] EXCEPT !.status = "Available", !.on = None]]
        \/ \E f \in LiveEip :
             \/ eip[f].on # Foreign /\ SetEip(f, [eip[f] EXCEPT !.status = "Unassociating"])
             \/ /\ eip[f].status = "Available"
                /\ \/ SetEip(f, [eip[f] EXCEPT !.status = "InUse", !.on = Foreign])
                   \/ SetEip(f, [eip[f] EXCEPT !.status = "gone"])
             \/ SetEip(f, [eip[f] EXCEPT !.tuned = FALSE])
    BY <1>5 DEF Console, SetNat, SetSnat
  <2> QED BY <1>2, <2>1, <2>2, <2>3, <2>4, <2>5
<1> QED BY <1>4, <1>5

\* What someone else bound an address to stays bound, as far as a handler can
\* see: the association asks for nothing but its own old and new targets and is
\* refused what is taken (AssociateEipAddress, ReadPrevious, ReadBinding), an
\* address that is bound is not released, and only a request that was decided
\* upon before (UnassociateEipAddress) still reaches it.
THEOREM ForeignIsKept == Spec => ForeignBindingKept
<1> DEFINE Spared == \A e \in Eip : Theirs(e) =>
                       /\ Theirs(e)' \/ (pc.att \in Sending /\ Old.eip = e)
                       /\ pc.att \notin Sending /\ pc'.att \in Sending => Old.eip # e
<1>1. StateInv /\ [Next]_vars => [Spared]_vars
  <2> SUFFICES ASSUME StateInv, [Next]_vars, NEW e \in Eip, Theirs(e)
               PROVE  Theirs(e)' \/ (pc.att \in Sending /\ Old.eip = e)
    BY NobodyTurnsOnThem
  <2>1. eip[e].status = "InUse" /\ eip[e].on = Foreign
    BY DEF Theirs
  <2>2. CASE UNCHANGED eip
    BY <2>2 DEF Theirs
  <2>3. CASE UNCHANGED vars
    BY <2>2, <2>3 DEF vars, cloud
  <2>4. CASE NetStep \/ NatStep \/ SnatStep
    <3>1. eip' = eip
      BY <2>4, NetStepDoes, NatStepDoes, SnatStepDoes
      DEF StateInv, NatKeeps, NatLeaves, SnatKeeps, SnatLeaves
    <3> QED BY <2>2, <3>1
  <2>5. CASE EipStep
    BY <2>1, <2>5, EipStepSpares DEF Theirs
  <2>6. CASE AttStep
    BY <2>6, AttStepSpares
  <2>7. CASE TaskEnds \/ Console
    BY <2>1, <2>7, CloudSpares DEF Theirs
  <2>8. CASE Rerun \/ Destroy \/ ProcessDies \/ \E changes \in Edits : Edit(changes)
    BY <2>2, <2>8 DEF Rerun, Destroy, ProcessDies, Edit, cloud
  <2> QED BY <2>3, <2>4, <2>5, <2>6, <2>7, <2>8 DEF Next, Disturbance
<1> QED BY <1>1, StateAlways, PTL DEF Spec, ForeignBindingKept
=============================================================================
