-------------------------- MODULE ChildrenProofs --------------------------
(***************************************************************************)
(* Proofs about Children, for any choice of the compositions it deploys    *)
(* and any number of disturbances.                                         *)
(*                                                                         *)
(* Seventeen resources have handlers of their own, and what a step of one  *)
(* of them changes takes the same few forms.  The first part states those  *)
(* forms (`Known`) and shows that every step of every provider is one of   *)
(* them; what follows reasons about the forms and not about the providers. *)
(*                                                                         *)
(* `Inv` is inductive: the types, what can be in the cloud under a name,   *)
(* what a handler may be doing while a stack is deployed, destroyed or     *)
(* cleared of what was replaced, which names are on record, and that every *)
(* generation was paid for by a disturbance.  With `OwnedInv`, that what   *)
(* is being changed is this stack's, it proves OthersKept.                 *)
(*                                                                         *)
(* `Strong` adds what a stack relies on: a child is worked on only while   *)
(* its parents are done (DoneOrder), it never loses a parent it stands on  *)
(* (GroundInv), the one on record is the one the stack means or one whose  *)
(* parent is about to be replaced (PlaceInv), and what is done has what    *)
(* was asked for (GoodInv).  It proves AccessKept.                         *)
(*                                                                         *)
(* `Full` adds that nothing this stack made is ever off the record for     *)
(* good (FollowInv, LineInv, RuleInv), which proves SuccessMeansDone.      *)
(***************************************************************************)
EXTENDS Children, TLAPS

-----------------------------------------------------------------------------
(* The compositions. *)

KindNames == {"ram", "mysql", "pg", "acr", "ecs", "egress", "tair", "lists"}
ParentKinds == {"Role", "Policy", "Account", "Database", "Namespace", "Link", "SecurityGroup",
                "KeyPair", "AclEntry", "TairAccount", "TairIpGroup", "IpGroup"}
ChildKinds == {"Attachment", "Privilege", "Repository"} \cup Rules

\* What one request writes whether it is there or not.
Covered == {"Attachment", "Privilege", "IpGroup", "TairIpGroup"} \cup Rules

\* What a composition is made of, as far as the handlers tell it apart.
Layout ==
    /\ stack \in KindNames
    /\ "a" \in Res /\ Res \subseteq All
    /\ "c" \in Res => "b" \in Res
    /\ "c" \in Res => KindOf("c") \in ChildKinds
    /\ "c" \in Res => \A p \in Parents : KindOf(p) \notin Covered
    /\ \A p \in Parents \cap Res : KindOf(p) \in ParentKinds
    /\ Ties => /\ "c" \in Res /\ KindOf("c") \in {"Attachment", "Privilege"}
               /\ KindOf("a") \in {"Role", "Account"} /\ KindOf("b") \in {"Policy", "Database"}
    /\ "c" \in Res /\ ~Ties =>
         \/ KindOf("c") = "Repository" /\ KindOf("a") = "Namespace"
         \/ KindOf("c") \in Rules /\ KindOf("a") = "SecurityGroup"
    /\ "c" \in Res => (stack = "acr" <=> KindOf("c") = "Repository")
    /\ KindOf("a") # "AclEntry"

LEMMA LayoutHolds == ASSUME stack \in Stacks PROVE Layout
<1>1. stack \in KindNames
  BY StacksAssumption DEF Kinds, KindNames
<1>2. CASE stack \in {"ram", "mysql", "pg"}
  BY <1>2 DEF Layout, KindNames, ParentKinds, ChildKinds, Covered, Kinds, Res, KindOf, Rules, Ties, All, Parents
<1>3. CASE stack \in {"acr", "ecs", "egress"}
  BY <1>3 DEF Layout, KindNames, ParentKinds, ChildKinds, Covered, Kinds, Res, KindOf, Rules, Ties, All, Parents
<1>4. CASE stack \in {"tair", "lists"}
  BY <1>4 DEF Layout, KindNames, ParentKinds, ChildKinds, Covered, Kinds, Res, KindOf, Rules, Ties, All, Parents
<1> QED BY <1>1, <1>2, <1>3, <1>4 DEF KindNames

-----------------------------------------------------------------------------
(* What the handlers have in common: every step of every provider is one of  *)
(* these.                                                                     *)

Deleting == {"dRead", "dVersions", "dAbsent"}
Working == {"look", "create", "tune", "cleared", "confirm"}

\* A step is disturbed or it is not; a handler goes on to one of some steps, and
\* may touch nothing but the cloud.
Counts == Calm \/ Upset
Moves(r, steps) == \E s \in steps : Goto(r, s)
Handled(r, steps) == Moves(r, steps) /\ Counts /\ Quiet

\* It is this stack's, by its tag or on record.
Owned(r) == cloud[Key(r)].ours \/ saved[r] # None

\* A handler begins when the resources whose outputs it takes are done.
Nears(r) == r = "c" => \A p \in ParentsOf(Key("c")) : pc[p[1]] = "done"
Begins(r) == pc[r] \in {"idle", "planned"} /\ ~destroying /\ Nears(r)

\* A replacement begins: a new generation, and what was on record goes later.
Renewed(r) ==
    /\ Begins(r) /\ r \in retire
    /\ retire' = retire \ {r}
    /\ outgoing' = [outgoing EXCEPT ![r] = saved[r]]
    /\ saved' = [saved EXCEPT ![r] = None]
    /\ gen' = IF r = "c" /\ KindOf("c") # "Repository" THEN gen ELSE [gen EXCEPT ![r] = @ + 1]
    /\ Goto(r, "look")
    /\ UNCHANGED <<stack, cloud, want, destroying, touched, upsets>>

\* The diff: something is to be done, or everything is as it was left.
Compared(r) ==
    /\ Begins(r) /\ r \notin retire
    /\ \/ Goto(r, "look")
       \/ /\ pc[r] = "planned" /\ Goto(r, "done")
          /\ IF KindOf(r) \in Looks THEN InPlace(r) ELSE SameInputs(r)
    /\ UNCHANGED <<stack, cloud, engine, touched, upsets>>

\* Found, missing, or refused as somebody else's.
Looked(r) ==
    /\ pc[r] = "look" /\ UNCHANGED cloud
    /\ Handled(r, {"tune", "create", "failed"})
    /\ pc'[r] = "tune" /\ KindOf(r) \in Named => Owned(r)

\* What a request that is under way may do to the cloud: nothing, with the
\* secret written already when it is confirmed at once; create; change; or clear
\* an entry to write it anew.
Unwritten(r) ==
    /\ UNCHANGED cloud
    /\ pc'[r] = "tune" => pc[r] = "tune" \/ KindOf(r) = "SecurityGroup"
    /\ pc'[r] = "confirm" /\ KindOf(r) \in Secret => pc[r] = "tune" /\ SameInputs(r)
Created(r) ==
    /\ Grounded(r) /\ (~Present(Key(r)) \/ KindOf(r) \in Covered)
    /\ Put(Key(r), New(r))
Tuned(r) == pc[r] = "tune" /\ cloud[Key(r)].state = "ready" /\ Write(r)
Cleared(r) == KindOf(r) = "AclEntry" /\ Put(Key(r), Absent)

Worked(r) ==
    /\ pc[r] \in {"create", "tune", "cleared"}
    /\ Handled(r, {"create", "tune", "cleared", "confirm", "failed"})
    /\ Unwritten(r) \/ Created(r) \/ Tuned(r) \/ Cleared(r)

\* What was done is seen and put on record, or is not seen.
Confirmed(r) ==
    /\ pc[r] = "confirm" /\ UNCHANGED cloud /\ Counts
    /\ \/ Fail(r) /\ UNCHANGED <<saved, touched>>
       \/ /\ Goto(r, "done") /\ cloud[Key(r)].state = "ready"
          /\ Fits(r) \/ KindOf(r) \in Secret \cup {"Link"}
          /\ saved' = [saved EXCEPT ![r] = [at |-> Key(r), rev |-> Wanted(r)]]
          /\ touched' = IF Fits(r) THEN touched \ {r} ELSE touched
    /\ UNCHANGED <<stack, want, gen, retire, outgoing, destroying>>

\* What a deletion may do to the cloud: one version of a policy goes, a list is
\* emptied, or the thing itself is removed.
Pruned(r, k) ==
    /\ KindOf(r) = "Policy" /\ cloud[k].spare
    /\ Put(k, [cloud[k] EXCEPT !.spare = FALSE])
Emptied(r, k) ==
    /\ KindOf(r) = "TairIpGroup" /\ cloud[k].state = "ready"
    /\ Put(k, [cloud[k] EXCEPT !.rev = 3])
Removed(r, k) ==
    /\ cloud[k].state = "ready" /\ (Needed(r, k) => KindOf(r) = "TairIpGroup")
    /\ Remove(r, k)

Dropped(r) ==
    /\ pc[r] \in {"dRead", "dVersions"}
    /\ Handled(r, {"dRead", "dVersions", "dAbsent", "failed"})
    /\ UNCHANGED cloud \/ Pruned(r, Doomed(r)) \/ Emptied(r, Doomed(r)) \/ Removed(r, Doomed(r))

\* What was deleted is seen to be gone and goes off the record.
Vanished(r) ==
    /\ pc[r] = "dAbsent" /\ UNCHANGED cloud /\ Counts
    /\ \/ Fail(r) /\ UNCHANGED <<saved, outgoing>>
       \/ /\ ~Present(Doomed(r)) /\ outgoing[r] # None
          /\ outgoing' = [outgoing EXCEPT ![r] = None] /\ UNCHANGED saved
          /\ Goto(r, IF destroying THEN "idle" ELSE "done")
       \/ /\ ~Present(Doomed(r)) /\ outgoing[r] = None
          /\ saved' = [saved EXCEPT ![r] = None] /\ UNCHANGED outgoing
          /\ Goto(r, IF destroying THEN "gone" ELSE "done")
    /\ UNCHANGED <<stack, want, gen, retire, destroying, touched>>

Known(r) == Compared(r) \/ Renewed(r) \/ Looked(r) \/ Worked(r) \/ Confirmed(r) \/ Dropped(r) \/ Vanished(r)

LEMMA BeginInPlaceIsKnown ==
    ASSUME NEW r \in Res, Begin(r, InPlace(r)), KindOf(r) \in Looks
    PROVE  Known(r)
<1>1. CASE r \in retire
  BY <1>1 DEF Begin, Renewed, Begins, Nears, Known
<1>2. CASE r \notin retire
  BY <1>2, SMT DEF Begin, Compared, Begins, Nears, Known, Goto, engine
<1> QED BY <1>1, <1>2

LEMMA BeginSameIsKnown ==
    ASSUME NEW r \in Res, Begin(r, SameInputs(r)), KindOf(r) \notin Looks
    PROVE  Known(r)
<1>1. CASE r \in retire
  BY <1>1 DEF Begin, Renewed, Begins, Nears, Known
<1>2. CASE r \notin retire
  BY <1>2, SMT DEF Begin, Compared, Begins, Nears, Known, Goto, engine
<1> QED BY <1>1, <1>2

LEMMA LookUpIsKnown ==
    ASSUME TypeOK, NEW r \in All, NEW owned \in BOOLEAN, LookUp(r, owned),
           KindOf(r) \in Named => owned
    PROVE  Known(r)
<1>1. Handled(r, {"tune", "create", "failed"})
  BY DEF LookUp, Handled, Moves, Counts, Calm, Fail
<1>2. pc'[r] = "tune" /\ KindOf(r) \in Named => Owned(r)
  BY SMT DEF LookUp, Owned, TypeOK, Goto, Fail
<1> QED BY <1>1, <1>2 DEF LookUp, Looked, Known

\* A request leads on, to failure, or nowhere, and the process counts what
\* went wrong.
LEMMA RequestMoves ==
    ASSUME NEW r \in All, NEW next \in Step, NEW again \in BOOLEAN, pc \in [All -> Step],
           Proceed(r, next) \/ Lost(r, again) \/ (Fail(r) /\ Calm)
    PROVE  /\ Moves(r, {next, "failed", pc[r]}) /\ Counts
           /\ pc'[r] \in {next, "failed", pc[r]}
<1>1. UNCHANGED pc => Goto(r, pc[r])
  BY DEF Goto
<1>2. ASSUME NEW s \in Step, Goto(r, s) PROVE pc'[r] = s
  BY <1>2 DEF Goto
<1>3. "failed" \in Step
  BY DEF Step, Rest
<1> QED BY <1>1, <1>2, <1>3 DEF Moves, Counts, Proceed, Lost, Fail

LEMMA LossMoves ==
    ASSUME NEW r \in All, NEW again \in BOOLEAN, pc \in [All -> Step],
           Lost(r, again) \/ (Fail(r) /\ Calm)
    PROVE  pc'[r] \in {"failed", pc[r]}
BY DEF Lost, Fail, Goto

LEMMA CreateIsKnown ==
    ASSUME TypeOK, NEW r \in Res, r \in All, NEW again \in BOOLEAN, NEW next \in {"tune", "confirm"},
           Create(r, again, next)
    PROVE  Known(r)
<1>0. pc \in [All -> Step] /\ next \in Step /\ pc[r] = "create"
  BY DEF TypeOK, Create, Step
<1>1. Proceed(r, next) \/ Lost(r, again) \/ (Fail(r) /\ Calm)
  BY DEF Create, Call
<1>2. Moves(r, {"create", "tune", "cleared", "confirm", "failed"}) /\ Counts
  BY <1>0, <1>1, RequestMoves DEF Moves
<1>3. CASE Created(r)
  BY <1>0, <1>2, <1>3 DEF Known, Worked, Handled, Create
<1>4. CASE ~Created(r)
  <2>1. UNCHANGED cloud /\ (Lost(r, again) \/ (Fail(r) /\ Calm))
    BY <1>4 DEF Create, Call, Created
  <2>2. Unwritten(r)
    BY <2>1, <1>0, LossMoves DEF Unwritten
  <2> QED BY <1>0, <1>2, <2>2 DEF Known, Worked, Handled, Create
<1> QED BY <1>3, <1>4

LEMMA TuneMovesIsKnown ==
    ASSUME TypeOK, NEW r \in Res, r \in All, pc[r] = "tune", Quiet,
           \E again \in BOOLEAN : Proceed(r, "confirm") \/ Lost(r, again) \/ (Fail(r) /\ Calm),
           \/ Tuned(r)
           \/ UNCHANGED cloud /\ (KindOf(r) \in Secret => SameInputs(r))
           \/ UNCHANGED cloud /\ pc'[r] # "confirm"
    PROVE  Known(r)
<1>0. pc \in [All -> Step] /\ "confirm" \in Step
  BY DEF TypeOK, Step
<1>2. Moves(r, {"create", "tune", "cleared", "confirm", "failed"}) /\ Counts
  BY <1>0, RequestMoves DEF Moves
<1>3. Tuned(r) \/ Unwritten(r)
  BY DEF Unwritten
<1> QED BY <1>2, <1>3 DEF Known, Worked, Handled

LEMMA TuneIsKnown ==
    ASSUME TypeOK, NEW r \in Res, r \in All, NEW again \in BOOLEAN, KindOf(r) \notin Secret,
           Tune(r, Same(r), again) \/ Tune(r, TRUE, again)
    PROVE  Known(r)
<1>1. Proceed(r, "confirm") \/ Lost(r, again) \/ (Fail(r) /\ Calm)
  BY DEF Tune, Call
<1>2. pc[r] = "tune" /\ Quiet
  BY DEF Tune
<1>3. Tuned(r) \/ UNCHANGED cloud
  BY <1>2 DEF Tune, Call, Tuned
<1> QED BY <1>1, <1>2, <1>3, TuneMovesIsKnown

LEMMA TuneSecretIsKnown ==
    ASSUME TypeOK, NEW r \in Res, r \in All, NEW again \in BOOLEAN, Tune(r, SameInputs(r), again)
    PROVE  Known(r)
<1>1. Proceed(r, "confirm") \/ Lost(r, again) \/ (Fail(r) /\ Calm)
  BY DEF Tune, Call
<1>2. pc[r] = "tune" /\ Quiet /\ pc \in [All -> Step]
  BY DEF Tune, TypeOK
<1>3. CASE SameInputs(r)
  BY <1>1, <1>2, <1>3, TuneMovesIsKnown DEF Tune
<1>4. CASE Tuned(r)
  BY <1>1, <1>2, <1>4, TuneMovesIsKnown
<1>5. CASE ~SameInputs(r) /\ ~Tuned(r)
  <2>1. UNCHANGED cloud /\ (Lost(r, again) \/ (Fail(r) /\ Calm))
    BY <1>2, <1>5 DEF Tune, Call, Tuned
  <2>2. pc'[r] # "confirm"
    BY <2>1, <1>2, LossMoves
  <2> QED BY <1>1, <1>2, <2>1, <2>2, TuneMovesIsKnown
<1> QED BY <1>3, <1>4, <1>5

LEMMA CoverIsKnown ==
    ASSUME TypeOK, NEW r \in Res, r \in All, NEW again \in BOOLEAN, Cover(r, again), KindOf(r) \in Covered
    PROVE  Known(r)
<1>0. pc \in [All -> Step] /\ "confirm" \in Step /\ pc[r] \in {"create", "tune"}
  BY DEF TypeOK, Cover, Step
<1>1. Proceed(r, "confirm") \/ Lost(r, again) \/ (Fail(r) /\ Calm)
  BY DEF Cover, Call
<1>2. Moves(r, {"create", "tune", "cleared", "confirm", "failed"}) /\ Counts /\ pc'[r] \in {"confirm", "failed", pc[r]}
  BY <1>0, <1>1, RequestMoves DEF Moves
<1>3. CASE Created(r)
  BY <1>0, <1>2, <1>3 DEF Known, Worked, Handled, Cover
<1>4. CASE ~Created(r)
  <2>1. UNCHANGED cloud
    BY <1>4 DEF Cover, Call, Created
  <2>2. Unwritten(r)
    BY <2>1, <1>0, <1>2 DEF Unwritten, Covered, Secret, Rules
  <2> QED BY <1>0, <1>2, <2>2 DEF Known, Worked, Handled, Cover
<1> QED BY <1>3, <1>4

LEMMA ConfirmFitsIsKnown ==
    ASSUME TypeOK, NEW r \in Res, Confirm(r, Fits(r))
    PROVE  Known(r)
<1>1. Counts
  BY DEF Confirm, Wait, Proceed, Counts, Upset, Calm
<1>2. CASE Fits(r)
  BY <1>1, <1>2 DEF Confirm, Wait, Proceed, Known, Confirmed, Fits
<1>3. CASE ~(Fits(r))
  BY <1>1, <1>3 DEF Confirm, Wait, Known, Confirmed
<1> QED BY <1>2, <1>3

LEMMA ConfirmReadyIsKnown ==
    ASSUME TypeOK, NEW r \in Res, Confirm(r, cloud[Key(r)].state = "ready"),
           KindOf(r) \in Secret \cup {"Link"}
    PROVE  Known(r)
<1>1. Counts
  BY DEF Confirm, Wait, Proceed, Counts, Upset, Calm
<1>2. CASE cloud[Key(r)].state = "ready"
  BY <1>1, <1>2 DEF Confirm, Wait, Proceed, Known, Confirmed, Fits
<1>3. CASE ~(cloud[Key(r)].state = "ready")
  BY <1>1, <1>3 DEF Confirm, Wait, Known, Confirmed
<1> QED BY <1>2, <1>3

LEMMA GoneIsKnown ==
    ASSUME NEW r \in Res, Gone(r)
    PROVE  Known(r)
<1>1. Counts
  BY DEF Gone, Wait, Proceed, Counts, Upset, Calm
<1>2. CASE Present(Doomed(r))
  BY <1>1, <1>2 DEF Gone, Wait, Known, Vanished
<1>3. CASE ~Present(Doomed(r)) /\ outgoing[r] # None
  BY <1>1, <1>3, SMT DEF Gone, Wait, Proceed, Known, Vanished
<1>4. CASE ~Present(Doomed(r)) /\ outgoing[r] = None
  BY <1>1, <1>4, SMT DEF Gone, Wait, Proceed, Known, Vanished
<1> QED BY <1>2, <1>3, <1>4

\* A delete handler's request, whatever it asks for.
LEMMA DeleteIsKnown ==
    ASSUME TypeOK, NEW r \in Res, r \in All, pc[r] \in {"dRead", "dVersions"}, Quiet,
           Proceed(r, "dAbsent") \/ Lost(r, Again) \/ (Fail(r) /\ Calm),
           UNCHANGED cloud \/ Emptied(r, Doomed(r)) \/ Removed(r, Doomed(r))
    PROVE  Known(r)
<1>0. pc \in [All -> Step] /\ "dAbsent" \in Step
  BY DEF TypeOK, Step
<1>1. Moves(r, {"dRead", "dVersions", "dAbsent", "failed"}) /\ Counts
  BY <1>0, RequestMoves DEF Moves, Again
<1> QED BY <1>0, <1>1 DEF Known, Dropped, Handled

LEMMA RemovalIsKnown ==
    ASSUME TypeOK, NEW r \in Res, r \in All, NEW step \in {"dRead", "dVersions"},
           Delete(r, step, ~Needed(r, Doomed(r)), Remove(r, Doomed(r)))
    PROVE  Known(r)
<1>1. pc[r] \in {"dRead", "dVersions"} /\ Quiet
  BY DEF Delete
<1>2. Proceed(r, "dAbsent") \/ Lost(r, Again) \/ (Fail(r) /\ Calm)
  BY DEF Delete, Call
<1>3. UNCHANGED cloud \/ Removed(r, Doomed(r))
  BY DEF Delete, Call, Removed
<1> QED BY <1>1, <1>2, <1>3, DeleteIsKnown

LEMMA ReleaseIsKnown ==
    ASSUME TypeOK, NEW r \in Res, r \in All, Release(r)
    PROVE  Known(r)
<1>1. CASE Gone(r)
  BY <1>1, GoneIsKnown
<1>2. CASE ~Gone(r)
  <2>1. Delete(r, "dRead", ~Needed(r, Doomed(r)), Remove(r, Doomed(r)))
    BY <1>2 DEF Release
  <2> QED BY <2>1, RemovalIsKnown
<1> QED BY <1>1, <1>2

LEMMA PolicyDeleteIsKnown ==
    ASSUME TypeOK, NEW r \in Res, r \in All, KindOf(r) = "Policy", PolicyDelete(r)
    PROVE  Known(r)
<1> DEFINE k == Doomed(r)
<1>0. pc \in [All -> Step] /\ {"dVersions", "dAbsent"} \subseteq Step
  BY DEF TypeOK, Step
<1>1. CASE pc[r] = "dRead" /\ Proceed(r, IF Present(k) THEN "dVersions" ELSE "dAbsent")
           /\ UNCHANGED cloud /\ Quiet
  BY <1>1 DEF Known, Dropped, Handled, Moves, Proceed, Counts
<1>2. CASE /\ pc[r] = "dVersions" /\ cloud[k].spare
           /\ Call(r, TRUE, Put(k, [cloud[k] EXCEPT !.spare = FALSE]), "dVersions", Again)
           /\ Quiet
  <2>1. Proceed(r, "dVersions") \/ Lost(r, Again) \/ (Fail(r) /\ Calm)
    BY <1>2 DEF Call
  <2>2. Moves(r, {"dRead", "dVersions", "dAbsent", "failed"}) /\ Counts
    BY <1>0, <1>2, <2>1, RequestMoves DEF Moves, Again
  <2>3. UNCHANGED cloud \/ Pruned(r, Doomed(r))
    BY <1>2 DEF Call, Pruned
  <2> QED BY <1>2, <2>2, <2>3 DEF Known, Dropped, Handled
<1>3. CASE Delete(r, "dVersions", ~Needed(r, k), Remove(r, k))
  BY <1>3, RemovalIsKnown
<1>4. CASE Gone(r)
  BY <1>4, GoneIsKnown
<1> QED BY <1>1, <1>2, <1>3, <1>4 DEF PolicyDelete

LEMMA TairIpGroupDeleteIsKnown ==
    ASSUME TypeOK, NEW r \in Res, r \in All, KindOf(r) = "TairIpGroup", TairIpGroupDelete(r)
    PROVE  Known(r)
<1>1. CASE Gone(r)
  BY <1>1, GoneIsKnown
<1>2. CASE ~Gone(r)
  <2>1. pc[r] = "dRead" /\ Quiet
    BY <1>2 DEF TairIpGroupDelete, Delete
  <2>2. Proceed(r, "dAbsent") \/ Lost(r, Again) \/ (Fail(r) /\ Calm)
    BY <1>2 DEF TairIpGroupDelete, Delete, Call
  <2>3. UNCHANGED cloud \/ Emptied(r, Doomed(r)) \/ Removed(r, Doomed(r))
    BY <1>2 DEF TairIpGroupDelete, Delete, Call, Removed, Emptied
  <2> QED BY <2>1, <2>2, <2>3, DeleteIsKnown
<1> QED BY <1>1, <1>2

LEMMA PrivilegeDeleteIsKnown ==
    ASSUME TypeOK, NEW r \in Res, r \in All, PrivilegeDelete(r)
    PROVE  Known(r)
<1>1. CASE Release(r)
  BY <1>1, ReleaseIsKnown
<1>2. CASE pc[r] = "dRead" /\ Fail(r) /\ UNCHANGED <<cloud, upsets>> /\ Quiet
  BY <1>2 DEF Known, Dropped, Handled, Moves, Fail, Counts, Calm
<1> QED BY <1>1, <1>2 DEF PrivilegeDelete

LEMMA DriftIsKnown ==
    ASSUME TypeOK, NEW r \in Res, r \in All, Drift(r)
    PROVE  Known(r)
<1>1. Handled(r, {"tune", "create", "failed"}) /\ pc'[r] = "failed"
  BY SMT DEF Drift, Handled, Moves, Fail, Counts, Calm, TypeOK, Goto
<1> QED BY <1>1 DEF Drift, Known, Looked

LEMMA SecurityGroupCreateIsKnown ==
    ASSUME TypeOK, NEW r \in Res, r \in Parents, KindOf(r) = "SecurityGroup", pc[r] = "create", Quiet,
           LET create == IF Present(Key(r)) THEN UNCHANGED cloud ELSE Put(Key(r), New(r)) IN
          \/ Call(r, TRUE, create, "tune", Again)
          \/ Upset /\ create /\ Goto(r, "tune")
    PROVE  Known(r)
<1>0. pc \in [All -> Step] /\ "tune" \in Step /\ r \in All
  BY DEF TypeOK, Step, All
<1>1. Proceed(r, "tune") \/ Lost(r, Again) \/ (Fail(r) /\ Calm) \/ (Upset /\ Goto(r, "tune"))
  BY DEF Call
<1>2. /\ Moves(r, {"create", "tune", "cleared", "confirm", "failed"}) /\ Counts
      /\ pc'[r] \in {"tune", "failed", "create"}
  <2>1. CASE Upset /\ Goto(r, "tune")
    BY <1>0, <2>1, SMT DEF Moves, Counts, Goto
  <2>2. CASE Proceed(r, "tune") \/ Lost(r, Again) \/ (Fail(r) /\ Calm)
    BY <1>0, <2>2, RequestMoves DEF Moves, Again
  <2> QED BY <1>1, <2>1, <2>2
<1>3. (~Present(Key(r)) /\ Put(Key(r), New(r))) \/ UNCHANGED cloud
  BY DEF Call
<1>4. Unwritten(r) \/ Created(r)
  BY <1>2, <1>3 DEF Unwritten, Created, Grounded, Parents, Secret
<1> QED BY <1>0, <1>2, <1>4 DEF Known, Worked, Handled

LEMMA AclEntryClearIsKnown ==
    ASSUME TypeOK, NEW r \in Res, r \in All, KindOf(r) = "AclEntry", Quiet,
           \/ /\ pc[r] = "tune"
              /\ IF Same(r) THEN Proceed(r, "confirm") /\ UNCHANGED cloud
                 ELSE Call(r, TRUE, Put(Key(r), Absent), "cleared", Again)
           \/ pc[r] = "cleared" /\ Wait(r, ~Present(Key(r)), FALSE, "create")
    PROVE  Known(r)
<1>0. pc \in [All -> Step] /\ {"confirm", "cleared", "create", "failed"} \subseteq Step
  BY DEF TypeOK, Step, Rest
<1>1. CASE pc[r] = "cleared"
  <2>1. (Proceed(r, "create") \/ (Fail(r) /\ Calm)) /\ UNCHANGED cloud
    BY <1>1 DEF Wait
  <2>2. /\ Moves(r, {"create", "tune", "cleared", "confirm", "failed"}) /\ Counts
        /\ pc'[r] \in {"create", "failed", "cleared"}
    BY <1>0, <1>1, <2>1, RequestMoves DEF Moves, Again
  <2> QED BY <1>1, <2>1, <2>2 DEF Known, Worked, Handled, Unwritten
<1>2. CASE pc[r] = "tune"
  <2>1. \E s \in {"confirm", "cleared"} : Proceed(r, s) \/ Lost(r, Again) \/ (Fail(r) /\ Calm)
    BY <1>2 DEF Call
  <2>2. Moves(r, {"create", "tune", "cleared", "confirm", "failed"}) /\ Counts
    BY <1>0, <1>2, <2>1, RequestMoves DEF Moves, Again
  <2>3. UNCHANGED cloud \/ Put(Key(r), Absent)
    BY <1>2 DEF Call
  <2> QED BY <1>2, <2>2, <2>3 DEF Known, Worked, Handled, Unwritten, Cleared, Secret
<1> QED BY <1>1, <1>2

LEMMA TairAccountWaitIsKnown ==
    ASSUME TypeOK, NEW r \in Res, r \in All, pc[r] = "tune", Wait(r, FALSE, TRUE, "confirm"), Quiet
    PROVE  Known(r)
<1>1. Fail(r) /\ Upset /\ UNCHANGED cloud
  BY DEF Wait
<1>2. pc'[r] = "failed"
  BY <1>1 DEF TypeOK, Fail, Goto
<1> QED BY <1>1, <1>2 DEF Known, Worked, Handled, Moves, Counts, Unwritten, Fail

LEMMA OtherKeyIsKnown ==
    ASSUME TypeOK, NEW r \in Res, r \in All, OtherKey(r)
    PROVE  Known(r)
<1>1. pc[r] = "tune" /\ Fail(r) /\ Quiet /\ UNCHANGED <<cloud, upsets>>
  BY DEF OtherKey
<1>2. pc'[r] = "failed"
  BY <1>1 DEF TypeOK, Fail, Goto
<1> QED BY <1>1, <1>2 DEF Known, Worked, Handled, Moves, Counts, Calm, Unwritten, Fail

LEMMA NamedProviderIsKnown ==
    ASSUME TypeOK, NEW r \in Res, r \in All, Provider(r), KindOf(r) \in Named
    PROVE  Known(r)
<1>1. CASE KindOf(r) = "Role"
  <2>1. RoleDiff(r) \/ RoleReconcile(r) \/ RoleDelete(r)
    BY <1>1 DEF Provider
  <2>2. CASE RoleDiff(r)
    BY <1>1, <2>2, BeginInPlaceIsKnown DEF RoleDiff, Looks, Named
  <2>3. CASE RoleReconcile(r)
    BY <1>1, <2>3, LookUpIsKnown, CreateIsKnown, TuneIsKnown, ConfirmFitsIsKnown DEF RoleReconcile, Secret, Again
  <2> QED BY <2>1, <2>2, <2>3, ReleaseIsKnown DEF RoleDelete
<1>2. CASE KindOf(r) = "Policy"
  <2>1. PolicyDiff(r) \/ PolicyReconcile(r) \/ PolicyDelete(r)
    BY <1>2 DEF Provider
  <2>2. CASE PolicyDiff(r)
    BY <1>2, <2>2, BeginInPlaceIsKnown DEF PolicyDiff, Looks, Named
  <2>3. CASE PolicyReconcile(r)
    BY <1>2, <2>3, LookUpIsKnown, CreateIsKnown, TuneIsKnown, ConfirmFitsIsKnown DEF PolicyReconcile, Secret, Again
  <2> QED BY <1>2, <2>1, <2>2, <2>3, PolicyDeleteIsKnown
<1>3. CASE KindOf(r) = "KeyPair"
  <2>1. KeyPairDiff(r) \/ KeyPairReconcile(r) \/ KeyPairDelete(r)
    BY <1>3 DEF Provider
  <2>2. CASE KeyPairDiff(r)
    BY <1>3, <2>2, BeginInPlaceIsKnown DEF KeyPairDiff, Looks, Named
  <2>3. CASE KeyPairReconcile(r)
    BY <1>3, <2>3, LookUpIsKnown, CreateIsKnown, OtherKeyIsKnown, TuneIsKnown, ConfirmFitsIsKnown
    DEF KeyPairReconcile, Secret, Again
  <2> QED BY <2>1, <2>2, <2>3, ReleaseIsKnown DEF KeyPairDelete
<1> QED BY <1>1, <1>2, <1>3 DEF Named

LEMMA CoveredProviderIsKnown ==
    ASSUME TypeOK, NEW r \in Res, r \in All, Provider(r), KindOf(r) \in Covered
    PROVE  Known(r)
<1>0. KindOf(r) \notin Named /\ KindOf(r) \notin Secret
  BY DEF Covered, Named, Secret, Rules
<1>1. CASE KindOf(r) = "Attachment"
  <2>1. AttachmentDiff(r) \/ AttachmentReconcile(r) \/ AttachmentDelete(r)
    BY <1>1 DEF Provider
  <2>2. CASE AttachmentDiff(r)
    BY <1>1, <2>2, BeginInPlaceIsKnown DEF AttachmentDiff, Looks
  <2>3. CASE AttachmentReconcile(r)
    BY <1>0, <2>3, LookUpIsKnown, CoverIsKnown, ConfirmFitsIsKnown DEF AttachmentReconcile, Again
  <2> QED BY <2>1, <2>2, <2>3, ReleaseIsKnown DEF AttachmentDelete
<1>2. CASE KindOf(r) = "Privilege"
  <2>1. PrivilegeDiff(r) \/ PrivilegeReconcile(r) \/ PrivilegeDelete(r)
    BY <1>2 DEF Provider
  <2>2. CASE PrivilegeDiff(r)
    BY <1>2, <2>2, BeginSameIsKnown DEF PrivilegeDiff, Looks, Named, Rules
  <2>3. CASE PrivilegeReconcile(r)
    BY <1>0, <2>3, LookUpIsKnown, CoverIsKnown, ConfirmFitsIsKnown DEF PrivilegeReconcile, Once
  <2> QED BY <2>1, <2>2, <2>3, PrivilegeDeleteIsKnown
<1>3. CASE KindOf(r) = "IpGroup"
  <2>1. IpGroupDiff(r) \/ IpGroupReconcile(r) \/ IpGroupDelete(r)
    BY <1>3 DEF Provider
  <2>2. CASE IpGroupDiff(r)
    BY <1>3, <2>2, BeginSameIsKnown DEF IpGroupDiff, Looks, Named, Rules
  <2>3. CASE IpGroupReconcile(r)
    BY <1>0, <2>3, LookUpIsKnown, CoverIsKnown, ConfirmFitsIsKnown DEF IpGroupReconcile, Once
  <2> QED BY <2>1, <2>2, <2>3, ReleaseIsKnown DEF IpGroupDelete
<1>4. CASE KindOf(r) = "TairIpGroup"
  <2>1. TairIpGroupDiff(r) \/ TairIpGroupReconcile(r) \/ TairIpGroupDelete(r)
    BY <1>4 DEF Provider
  <2>2. CASE TairIpGroupDiff(r)
    BY <1>4, <2>2, BeginSameIsKnown DEF TairIpGroupDiff, Looks, Named, Rules
  <2>3. CASE TairIpGroupReconcile(r)
    BY <1>0, <2>3, LookUpIsKnown, CoverIsKnown, ConfirmFitsIsKnown DEF TairIpGroupReconcile, Again
  <2> QED BY <1>4, <2>1, <2>2, <2>3, TairIpGroupDeleteIsKnown
<1>5. CASE KindOf(r) = "IngressRule"
  <2>1. IngressDiff(r) \/ IngressReconcile(r) \/ IngressDelete(r)
    BY <1>5 DEF Provider
  <2>2. CASE IngressDiff(r)
    BY <1>5, <2>2, BeginInPlaceIsKnown DEF IngressDiff, Looks, Rules
  <2>3. CASE IngressReconcile(r)
    BY <1>0, <2>3, DriftIsKnown, LookUpIsKnown, CoverIsKnown, ConfirmFitsIsKnown DEF IngressReconcile, Again
  <2> QED BY <2>1, <2>2, <2>3, ReleaseIsKnown DEF IngressDelete
<1>6. CASE KindOf(r) = "EgressRule"
  <2>1. EgressDiff(r) \/ EgressReconcile(r) \/ EgressDelete(r)
    BY <1>6 DEF Provider
  <2>2. CASE EgressDiff(r)
    BY <1>6, <2>2, BeginInPlaceIsKnown DEF EgressDiff, Looks, Rules
  <2>3. CASE EgressReconcile(r)
    BY <1>0, <2>3, DriftIsKnown, LookUpIsKnown, CoverIsKnown, ConfirmFitsIsKnown DEF EgressReconcile, Again
  <2> QED BY <2>1, <2>2, <2>3, ReleaseIsKnown DEF EgressDelete
<1> QED BY <1>1, <1>2, <1>3, <1>4, <1>5, <1>6 DEF Covered, Rules

LEMMA SecretProviderIsKnown ==
    ASSUME TypeOK, NEW r \in Res, r \in All, Provider(r), KindOf(r) \in Secret
    PROVE  Known(r)
<1>0. KindOf(r) \notin Named /\ KindOf(r) \notin Looks
  BY DEF Secret, Named, Looks, Rules
<1>1. CASE KindOf(r) = "Account"
  <2>1. AccountDiff(r) \/ AccountReconcile(r) \/ AccountDelete(r)
    BY <1>1 DEF Provider
  <2>2. CASE AccountDiff(r)
    BY <1>0, <2>2, BeginSameIsKnown DEF AccountDiff
  <2>3. CASE AccountReconcile(r)
    BY <1>0, <2>3, LookUpIsKnown, CreateIsKnown, TuneSecretIsKnown, ConfirmReadyIsKnown DEF AccountReconcile, Once
  <2> QED BY <2>1, <2>2, <2>3, ReleaseIsKnown DEF AccountDelete
<1>2. CASE KindOf(r) = "TairAccount"
  <2>1. TairAccountDiff(r) \/ TairAccountReconcile(r) \/ TairAccountDelete(r)
    BY <1>2 DEF Provider
  <2>2. CASE TairAccountDiff(r)
    BY <1>0, <2>2, BeginSameIsKnown DEF TairAccountDiff
  <2>3. CASE TairAccountReconcile(r)
    BY <1>0, <2>3, LookUpIsKnown, CreateIsKnown, TuneSecretIsKnown, ConfirmReadyIsKnown, TairAccountWaitIsKnown
       DEF TairAccountReconcile, Once, Again
  <2> QED BY <2>1, <2>2, <2>3, ReleaseIsKnown DEF TairAccountDelete
<1> QED BY <1>1, <1>2 DEF Secret

LEMMA PlainProviderIsKnown ==
    ASSUME TypeOK, Layout, NEW r \in Res, r \in All, Provider(r),
           KindOf(r) \in {"Database", "Namespace", "Repository", "AclEntry", "Link", "SecurityGroup"}
    PROVE  Known(r)
<1>0. KindOf(r) \notin Named /\ KindOf(r) \notin Secret /\ (KindOf(r) \in Looks <=> KindOf(r) = "SecurityGroup")
  BY DEF Secret, Named, Looks, Rules
<1>1. CASE KindOf(r) = "Database"
  <2>1. DatabaseDiff(r) \/ DatabaseReconcile(r) \/ DatabaseDelete(r)
    BY <1>1 DEF Provider
  <2>2. CASE DatabaseDiff(r)
    BY <1>0, <1>1, <2>2, BeginSameIsKnown DEF DatabaseDiff
  <2>3. CASE DatabaseReconcile(r)
    BY <1>0, <2>3, LookUpIsKnown, CreateIsKnown, TuneIsKnown, ConfirmFitsIsKnown DEF DatabaseReconcile, Once
  <2> QED BY <2>1, <2>2, <2>3, ReleaseIsKnown DEF DatabaseDelete
<1>2. CASE KindOf(r) = "Namespace"
  <2>1. NamespaceDiff(r) \/ NamespaceReconcile(r) \/ NamespaceDelete(r)
    BY <1>2 DEF Provider
  <2>2. CASE NamespaceDiff(r)
    BY <1>0, <1>2, <2>2, BeginSameIsKnown DEF NamespaceDiff
  <2>3. CASE NamespaceReconcile(r)
    BY <1>0, <2>3, LookUpIsKnown, CreateIsKnown, TuneIsKnown, ConfirmFitsIsKnown DEF NamespaceReconcile, Once
  <2> QED BY <2>1, <2>2, <2>3, ReleaseIsKnown DEF NamespaceDelete
<1>3. CASE KindOf(r) = "Repository"
  <2>1. RepositoryDiff(r) \/ RepositoryReconcile(r) \/ RepositoryDelete(r)
    BY <1>3 DEF Provider
  <2>2. CASE RepositoryDiff(r)
    BY <1>0, <1>3, <2>2, BeginSameIsKnown DEF RepositoryDiff
  <2>3. CASE RepositoryReconcile(r)
    BY <1>0, <2>3, LookUpIsKnown, CreateIsKnown, TuneIsKnown, ConfirmFitsIsKnown DEF RepositoryReconcile, Once
  <2> QED BY <2>1, <2>2, <2>3, ReleaseIsKnown DEF RepositoryDelete
<1>4. CASE KindOf(r) = "AclEntry"
  <2>1. AclEntryDiff(r) \/ AclEntryReconcile(r) \/ AclEntryDelete(r)
    BY <1>4 DEF Provider
  <2>2. CASE AclEntryDiff(r)
    BY <1>0, <1>4, <2>2, BeginSameIsKnown DEF AclEntryDiff
  <2>3. CASE AclEntryReconcile(r)
    BY <1>0, <1>4, <2>3, LookUpIsKnown, CreateIsKnown, AclEntryClearIsKnown, ConfirmFitsIsKnown
       DEF AclEntryReconcile, Once
  <2> QED BY <2>1, <2>2, <2>3, ReleaseIsKnown DEF AclEntryDelete
<1>5. CASE KindOf(r) = "Link"
  <2>1. LinkDiff(r) \/ LinkReconcile(r) \/ LinkDelete(r)
    BY <1>5 DEF Provider
  <2>2. CASE LinkDiff(r)
    BY <1>0, <1>5, <2>2, BeginSameIsKnown DEF LinkDiff
  <2>3. CASE LinkReconcile(r)
    BY <1>0, <1>5, <2>3, LookUpIsKnown, CreateIsKnown, TuneIsKnown, ConfirmReadyIsKnown DEF LinkReconcile, Once
  <2> QED BY <2>1, <2>2, <2>3, ReleaseIsKnown DEF LinkDelete
<1>6. CASE KindOf(r) = "SecurityGroup"
  <2>1. SecurityGroupDiff(r) \/ SecurityGroupReconcile(r) \/ SecurityGroupDelete(r)
    BY <1>6 DEF Provider
  <2>2. CASE SecurityGroupDiff(r)
    BY <1>0, <1>6, <2>2, BeginInPlaceIsKnown DEF SecurityGroupDiff
  <2>3. CASE SecurityGroupReconcile(r)
    <3>1. r \in Parents
      BY <1>6 DEF Layout, ChildKinds, Rules, All
    <3> QED BY <1>0, <1>6, <2>3, <3>1, LookUpIsKnown, SecurityGroupCreateIsKnown, TuneIsKnown, ConfirmFitsIsKnown
            DEF SecurityGroupReconcile, Again
  <2> QED BY <2>1, <2>2, <2>3, ReleaseIsKnown DEF SecurityGroupDelete
<1> QED BY <1>1, <1>2, <1>3, <1>4, <1>5, <1>6

LEMMA ProviderIsKnown ==
    ASSUME TypeOK, Layout, NEW r \in Res, Provider(r)
    PROVE  Known(r)
<1>1. r \in All
  BY DEF Layout
<1>2. KindOf(r) \in ParentKinds \cup ChildKinds
  BY <1>1 DEF Layout, All
<1> QED BY <1>1, <1>2, NamedProviderIsKnown, CoveredProviderIsKnown, SecretProviderIsKnown, PlainProviderIsKnown
        DEF ParentKinds, ChildKinds, Covered, Named, Secret, Rules

-----------------------------------------------------------------------------
(* Identities. *)

LEMMA IdCases ==
    ASSUME NEW k \in Id
    PROVE  /\ k[1] \in All
           /\ k[1] \in Parents => k = <<k[1], k[2]>> /\ k[2] \in Generation
           /\ k[1] = "c" => k = <<"c", k[2], k[3]>> /\ k[2] \in Generation /\ k[3] \in Generation
BY DEF Id, All, Parents

LEMMA PairIsId == ASSUME NEW p \in Parents, NEW g \in Generation PROVE <<p, g>> \in Id
BY DEF Id

LEMMA TripleIsId == ASSUME NEW g \in Generation, NEW h \in Generation PROVE <<"c", g, h>> \in Id
BY DEF Id

LEMMA StackStays ==
    ASSUME stack' = stack
    PROVE  /\ Res' = Res /\ (Ties <=> Ties')
           /\ \A r : KindOf(r)' = KindOf(r)
           /\ \A k : ParentsOf(k)' = ParentsOf(k)
           /\ Layout => Layout'
BY Zenon DEF Res, KindOf, Ties, ParentsOf, Layout

LEMMA ParentsAre ==
    ASSUME NEW t \in Id, t[1] = "c", NEW k \in ParentsOf(t)
    PROVE  k \in Id /\ k[1] \in Parents /\ (k = <<"a", t[2]>> \/ (Ties /\ k = <<"b", t[3]>>))
<1>1. k = <<"a", t[2]>> \/ (Ties /\ k = <<"b", t[3]>>)
  BY DEF ParentsOf
<1>2. t[2] \in Generation /\ t[3] \in Generation
  BY IdCases
<1> QED BY <1>1, <1>2, PairIsId DEF Parents

\* The parents whose outputs the child takes.
Near == IF Ties THEN Parents ELSE {"a"}

LEMMA KeysParents ==
    /\ \A k \in ParentsOf(Key("c")) : k[1] \in Near /\ k = Key(k[1])
    /\ \A p \in Near : p \in Parents /\ Key(p) \in ParentsOf(Key("c"))
<1>1. Ties => ParentsOf(Key("c")) = {Key("a"), Key("b")}
  BY DEF ParentsOf, Key, Parents
<1>2. ~Ties => ParentsOf(Key("c")) = {Key("a")}
  BY DEF ParentsOf, Key, Parents
<1>3. Key("a")[1] = "a" /\ Key("b")[1] = "b"
  BY DEF Key, Parents
<1> QED BY <1>1, <1>2, <1>3 DEF Near, Parents

-----------------------------------------------------------------------------
(* The invariant: types, records and order. *)

\* What can be in the cloud under a name: what is not of this stack has a name
\* somebody could take, and nobody depends on what is not there.
Sound(k, t) ==
    /\ t.state # "absent" => k[1] \in Res
    /\ t.state = "absent" => t = Absent
    /\ t.state # "absent" /\ ~t.ours =>
         KindOf(k[1]) \in Named /\ t.rev = 3 /\ t.state = "ready" /\ ~t.guest
    /\ t.guest => KindOf(k[1]) \in Hosts /\ t.state = "ready"
    /\ t.state # "absent" /\ KindOf(k[1]) = "Link" => t.rev = 1
    /\ t.state \in {"pending", "deleting"} => KindOf(k[1]) \in Slow
CloudInv == \A k \in Id : Sound(k, cloud[k])

\* What a handler may be doing while the stack is destroyed, while what was
\* replaced is deleted, and before a replacement.
Order(r) ==
    /\ destroying => retire = {} /\ pc[r] \in {"idle", "failed", "gone"} \cup Deleting
    /\ ~destroying => pc[r] # "gone"
    /\ ~destroying /\ pc[r] \in Deleting => outgoing[r] # None /\ \A s \in Res \ {r} : pc[s] = "done"
    /\ pc[r] \in Deleting => Victim(r) # None
    /\ pc[r] = "gone" => saved[r] = None /\ outgoing[r] = None
    /\ r \in retire => pc[r] \in {"idle", "planned", "failed"}
OrderInv == \A r \in Res : Order(r)

\* A parent on record has the name of its generation, its predecessor the name
\* of an earlier one.
ParentRec(p) ==
    /\ saved[p] # None => saved[p].at = <<p, gen[p]>>
    /\ outgoing[p] # None => outgoing[p].at[1] = p /\ outgoing[p].at[2] < gen[p]
    /\ p \in retire => saved[p] # None /\ outgoing[p] = None
ChildRec ==
    /\ saved["c"] # None => /\ saved["c"].at[1] = "c" /\ saved["c"].at[2] <= gen["a"]
                            /\ stack = "acr" => /\ saved["c"].at[3] = gen["c"]
                                                /\ saved["c"].at[3] <= saved["c"].at[2]
    /\ outgoing["c"] # None => outgoing["c"].at[1] = "c"
    /\ "c" \in retire => /\ saved["c"] # None /\ outgoing["c"] = None
                         /\ stack = "acr" => gen["c"] < gen["a"]
RecordInv == (\A p \in Parents \cap Res : ParentRec(p)) /\ ("c" \in Res => ChildRec)

\* A generation costs a disturbance, one that is due already has.
Due(p) ==
    /\ p \in Res /\ ~destroying
    /\ \/ p \in retire
       \/ KindOf(p) = "SecurityGroup" /\ saved[p] # None /\ ~Present(saved[p].at)
CountInv ==
    /\ \A p \in Parents : gen[p] <= upsets + 1 /\ (Due(p) => gen[p] <= upsets)
    /\ gen["c"] <= gen["a"] /\ (stack # "acr" => gen["c"] = 1)
    /\ want <= upsets + 1

Inv == TypeOK /\ CloudInv /\ OrderInv /\ RecordInv /\ CountInv

LEMMA InvLayout == ASSUME Inv PROVE Layout
BY LayoutHolds DEF Inv, TypeOK

LEMMA GensAre ==
    ASSUME Inv
    PROVE  /\ \A r \in All : gen[r] \in Generation /\ gen[r] \in Nat
           /\ want \in Generation /\ want \in Nat /\ upsets \in Nat
<1>1. upsets \in Nat /\ MaxUpsets \in Nat /\ upsets <= MaxUpsets
  BY BoundAssumption DEF Inv, TypeOK
<1>2. want \in 1..2 /\ want <= upsets + 1
  BY DEF Inv, TypeOK, CountInv
<1>3. want \in Generation
  BY <1>1, <1>2 DEF Generation
<1>4. gen \in [All -> Generation]
  BY DEF Inv, TypeOK
<1>5. \A g \in Generation : g \in Nat
  BY <1>1 DEF Generation
<1> QED BY <1>1, <1>2, <1>3, <1>4, <1>5

LEMMA KeyIsId ==
    ASSUME Inv, NEW r \in All
    PROVE  /\ Key(r) \in Id /\ Key(r)[1] = r
           /\ r \in Parents => Key(r) = <<r, gen[r]>>
           /\ r = "c" => Key(r)[2] = gen["a"]
           /\ r = "c" /\ stack = "acr" => Key(r)[3] = gen["c"]
<1>1. CASE r \in Parents
  BY <1>1, GensAre, PairIsId DEF Key, Parents
<1>2. CASE r = "c"
  <2>0. "a" \in All /\ "b" \in All /\ "c" \in All
    BY DEF All, Parents
  <2>1. \E h \in Generation : Key(r) = <<"c", gen["a"], h>>
    BY <1>2, <2>0, GensAre DEF Key, Parents
  <2>2. Key(r) \in Id /\ Key(r)[1] = "c" /\ Key(r)[2] = gen["a"]
    BY <2>0, <2>1, GensAre, TripleIsId
  <2>3. stack = "acr" => Key(r) = <<"c", gen["a"], gen["c"]>>
    <3>1. stack = "acr" => KindOf("c") = "Repository"
      BY DEF Kinds, KindOf
    <3> QED BY <1>2, <3>1 DEF Key, Parents, Ties, Rules
  <2> QED BY <1>2, <2>2, <2>3 DEF Parents
<1> QED BY <1>1, <1>2 DEF All

LEMMA KeysDiffer ==
    ASSUME Inv, NEW r \in All, NEW s \in All, r # s
    PROVE  Key(r) # Key(s)
BY KeyIsId

LEMMA InitInv == ASSUME Init PROVE Inv
<1>1. TypeOK
  <2>1. Absent \in Thing
    BY DEF Absent, Thing
  <2>2. 1 \in Generation /\ 0 \in 0..MaxUpsets
    BY BoundAssumption DEF Generation
  <2>3. "idle" \in Step /\ 1 \in 1..2
    BY DEF Step, Rest
  <2>4. cloud \in [Id -> Thing] /\ gen \in [All -> Generation] /\ pc \in [All -> Step]
    BY <2>1, <2>2, <2>3 DEF Init
  <2>5. saved \in [All -> Output \cup {None}] /\ outgoing \in [All -> Output \cup {None}]
    BY DEF Init
  <2> QED BY <2>2, <2>3, <2>4, <2>5 DEF Init, TypeOK
<1>2. CloudInv
  BY DEF Init, CloudInv, Sound, Absent
<1>3. OrderInv
  <2>1. Layout
    BY LayoutHolds DEF Init
  <2>2. \A r \in Res : pc[r] = "idle"
    BY <2>1 DEF Init, Layout
  <2> QED BY <2>2 DEF Init, OrderInv, Order, Deleting
<1>4. RecordInv
  BY DEF Init, RecordInv, ParentRec, ChildRec, All, Parents
<1>5. CountInv
  BY DEF Init, CountInv, Due, All, Parents
<1> QED BY <1>1, <1>2, <1>3, <1>4, <1>5 DEF Inv

-----------------------------------------------------------------------------
(* What stays as it is. *)

LEMMA CountsAre ==
    ASSUME Inv, Counts
    PROVE  /\ upsets' \in 0..MaxUpsets /\ upsets \in Nat
           /\ upsets' = upsets \/ upsets' = upsets + 1
BY BoundAssumption DEF Inv, TypeOK, Counts, Upset, Calm

LEMMA PcType ==
    ASSUME Inv, NEW r \in All, NEW steps \in SUBSET Step, Moves(r, steps)
    PROVE  /\ pc' \in [All -> Step] /\ pc'[r] \in steps
           /\ \A s \in All \ {r} : pc'[s] = pc[s]
BY DEF Inv, TypeOK, Moves, Goto

LEMMA CloudFrom ==
    ASSUME stack' = stack, \A k \in Id : Sound(k, cloud'[k])
    PROVE  CloudInv'
BY StackStays DEF CloudInv, Sound

LEMMA RecordsStay ==
    ASSUME Inv, UNCHANGED <<stack, engine>>
    PROVE  RecordInv'
BY StackStays DEF Inv, RecordInv, ParentRec, ChildRec, engine

\* A group on record disappears only by a disturbance, or at the end.
LEMMA CountStays ==
    ASSUME Inv, UNCHANGED <<stack, engine>>, Counts,
           \A p \in Parents \cap Res :
             (KindOf(p) = "SecurityGroup" /\ saved[p] # None /\ ~destroying /\ Present(saved[p].at)) =>
             Present(saved[p].at)' \/ upsets' = upsets + 1
    PROVE  CountInv'
<1>1. upsets \in Nat /\ (upsets' = upsets \/ upsets' = upsets + 1)
  BY CountsAre
<1>2. ASSUME NEW p \in Parents
      PROVE  gen'[p] <= upsets' + 1 /\ (Due(p)' => gen'[p] <= upsets')
  <2>1. gen'[p] = gen[p] /\ gen[p] \in Nat
    BY GensAre DEF engine, All
  <2>2. gen[p] <= upsets + 1 /\ (Due(p) => gen[p] <= upsets)
    BY DEF Inv, CountInv
  <2>3. CASE upsets' = upsets + 1
    BY <1>1, <2>1, <2>2, <2>3
  <2>4. CASE upsets' = upsets
    <3>1. Due(p)' => Due(p)
      <4>1. UNCHANGED <<destroying, retire, saved>>
        BY DEF engine
      <4>2. ASSUME Due(p)' PROVE Due(p)
        <5>1. p \in Res /\ ~destroying
          BY <4>1, <4>2, StackStays DEF Due
        <5>2. CASE p \in retire
          BY <5>1, <5>2 DEF Due
        <5>3. CASE p \notin retire
          <6>1. KindOf(p) = "SecurityGroup" /\ saved[p] # None /\ ~Present(saved[p].at)'
            BY <4>1, <4>2, <5>3, StackStays DEF Due, Present
          <6>2. ~Present(saved[p].at)
            BY <1>1, <2>4, <5>1, <6>1
          <6> QED BY <5>1, <6>1, <6>2 DEF Due
        <5> QED BY <5>2, <5>3
      <4> QED BY <4>2
    <3> QED BY <2>1, <2>2, <2>4, <3>1
  <2> QED BY <1>1, <2>3, <2>4
<1>3. gen' = gen /\ want' = want /\ want \in Nat
  BY GensAre DEF engine
<1> QED BY <1>1, <1>2, <1>3 DEF Inv, CountInv

\* A step of the handlers and of nothing else.
LEMMA QuietSteps ==
    ASSUME Inv, UNCHANGED <<stack, cloud, engine, touched>>, Counts, pc' \in [All -> Step], OrderInv'
    PROVE  Inv'
<1>1. CloudInv'
  BY StackStays DEF Inv, CloudInv, Sound
<1>2. TypeOK'
  BY CountsAre, StackStays DEF Inv, TypeOK, engine
<1>3. CountInv'
  <2>1. saved' = saved /\ cloud' = cloud
    BY DEF engine
  <2>2. \A p : Present(saved[p].at)' <=> Present(saved[p].at)
    BY <2>1 DEF Present
  <2> QED BY <2>2, CountStays
<1> QED BY <1>1, <1>2, <1>3, RecordsStay DEF Inv

-----------------------------------------------------------------------------
(* The steps of a handler keep the order. *)

\* A handler that is not deleting is alone with others that are not.
LEMMA OrderForward ==
    ASSUME Inv, NEW r \in Res, r \in All, ~destroying, pc[r] \notin Deleting \cup {"done", "gone"},
           NEW steps \in SUBSET (Step \ (Deleting \cup {"gone"})), Moves(r, steps),
           UNCHANGED <<stack, destroying>>, retire' \in SUBSET retire, r \notin retire',
           \A s \in All \ {r} : saved'[s] = saved[s] /\ outgoing'[s] = outgoing[s]
    PROVE  OrderInv'
<1>0. Res \subseteq All
  BY InvLayout DEF Layout
<1>1. /\ pc'[r] \in steps
      /\ \A s \in All \ {r} : pc'[s] = pc[s]
  BY PcType
<1>2. ASSUME NEW s \in Res PROVE Order(s)'
  <2>1. CASE s = r
    BY <1>1, <2>1 DEF Order, Inv, OrderInv
  <2>2. CASE s # r
    <3>1. Order(s) /\ s \in All
      BY <1>0 DEF Inv, OrderInv
    <3>2. pc[s] \notin Deleting
      BY <2>2, <3>1 DEF Order
    <3> QED BY <1>1, <2>2, <3>1, <3>2 DEF Order
  <2> QED BY <2>1, <2>2
<1> QED BY <1>2, StackStays DEF OrderInv

\* A deletion goes on as it began.
LEMMA OrderDeleting ==
    ASSUME Inv, NEW r \in Res, r \in All, pc[r] \in Deleting,
           Moves(r, Deleting \cup {"failed"}), UNCHANGED <<stack, engine>>
    PROVE  OrderInv'
<1>0. Res \subseteq All
  BY InvLayout DEF Layout
<1>1. /\ pc'[r] \in Deleting \cup {"failed"}
      /\ \A s \in All \ {r} : pc'[s] = pc[s]
  <2>1. Deleting \cup {"failed"} \in SUBSET Step
    BY DEF Deleting, Step, Rest
  <2> QED BY <2>1, PcType
<1>2. ASSUME NEW s \in Res PROVE Order(s)'
  <2>1. Order(s) /\ Order(r) /\ s \in All
    BY <1>0 DEF Inv, OrderInv
  <2>2. CASE s = r
    <3>1. \A q \in Res \ {r} : pc'[q] = pc[q]
      BY <1>0, <1>1
    <3> QED BY <1>1, <2>1, <2>2, <3>1, StackStays DEF Order, engine, Deleting, Victim
  <2>3. CASE s # r
    <3>1. ~destroying => pc[s] = "done"
      BY <2>1, <2>3 DEF Order
    <3>2. r \notin retire
      BY <2>1 DEF Order, Deleting
    <3>3. pc'[s] = pc[s]
      BY <1>1, <2>1, <2>3
    <3> QED BY <2>1, <2>3, <3>1, <3>3 DEF Order, engine, Deleting, Victim
  <2> QED BY <2>2, <2>3
<1> QED BY <1>2, StackStays DEF OrderInv

LEMMA WorkingIs ==
    ASSUME Inv, NEW r \in Res, pc[r] \in Working
    PROVE  ~destroying /\ r \notin retire /\ pc[r] \notin Deleting \cup {"done", "gone"}
BY DEF Inv, OrderInv, Order, Working, Deleting

-----------------------------------------------------------------------------
(* The first invariant, step by step. *)

LEMMA LookedInv == ASSUME Inv, NEW r \in Res, Looked(r) PROVE Inv'
<1>0. r \in All
  BY InvLayout DEF Layout
<1>1. ~destroying /\ r \notin retire /\ pc[r] \notin Deleting \cup {"done", "gone"}
  BY WorkingIs DEF Looked, Working
<1>2. {"tune", "create", "failed"} \in SUBSET (Step \ (Deleting \cup {"gone"}))
  BY DEF Step, Rest, Deleting
<1>3. UNCHANGED <<stack, cloud, engine, touched>> /\ Counts /\ Moves(r, {"tune", "create", "failed"})
  BY DEF Looked, Handled, Quiet
<1>4. UNCHANGED <<stack, destroying, retire, saved, outgoing>>
  BY <1>3 DEF engine
<1>5. OrderInv'
  BY <1>0, <1>1, <1>2, <1>3, <1>4, OrderForward
<1>6. pc' \in [All -> Step]
  BY <1>0, <1>2, <1>3, PcType
<1> QED BY <1>3, <1>5, <1>6, QuietSteps

LEMMA ComparedInv == ASSUME Inv, NEW r \in Res, Compared(r) PROVE Inv'
<1>0. r \in All
  BY InvLayout DEF Layout
<1>1. ~destroying /\ r \notin retire /\ pc[r] \notin Deleting \cup {"done", "gone"}
  BY DEF Compared, Begins, Deleting
<1>2. {"look", "done"} \in SUBSET (Step \ (Deleting \cup {"gone"}))
  BY DEF Step, Rest, Deleting
<1>3. UNCHANGED <<stack, cloud, engine, touched>> /\ Counts /\ Moves(r, {"look", "done"})
  BY DEF Compared, Moves, Counts, Calm
<1>4. UNCHANGED <<stack, destroying, retire, saved, outgoing>>
  BY <1>3 DEF engine
<1>5. OrderInv'
  BY <1>0, <1>1, <1>2, <1>3, <1>4, OrderForward
<1>6. pc' \in [All -> Step]
  BY <1>0, <1>2, <1>3, PcType
<1> QED BY <1>3, <1>5, <1>6, QuietSteps

LEMMA StartDeleteInv == ASSUME Inv, NEW r \in Res, StartDelete(r) PROVE Inv'
<1>0. Res \subseteq All
  BY InvLayout DEF Layout
<1>1. UNCHANGED <<stack, cloud, engine, touched>> /\ Counts
  BY DEF StartDelete, Quiet, Counts, Calm
<1>2. {"gone", "dRead"} \in SUBSET Step /\ Moves(r, {"gone", "dRead"})
  BY DEF Step, Rest, StartDelete, Moves
<1>3. /\ pc' \in [All -> Step] /\ \A s \in All \ {r} : pc'[s] = pc[s]
      /\ pc'[r] = IF Victim(r) = None THEN "gone" ELSE "dRead"
  <2>1. /\ pc' \in [All -> Step] /\ \A s \in All \ {r} : pc'[s] = pc[s]
    BY <1>0, <1>2, PcType
  <2>2. pc'[r] = IF Victim(r) = None THEN "gone" ELSE "dRead"
    BY <1>0 DEF StartDelete, Goto, Inv, TypeOK
  <2> QED BY <2>1, <2>2
<1>4. ASSUME NEW s \in Res PROVE Order(s)'
  <2>1. Order(s) /\ Order(r) /\ s \in All
    BY <1>0 DEF Inv, OrderInv
  <2>2. UNCHANGED <<saved, outgoing, destroying, retire>>
    BY <1>1 DEF engine
  <2>3. Res' = Res
    BY <1>1, StackStays
  <2>4. CASE destroying
    BY <1>3, <2>1, <2>2, <2>3, <2>4 DEF Order, StartDelete, Deleting, Victim
  <2>5. CASE ~destroying
    <3>1. AllDone /\ outgoing[r] # None
      BY <2>5 DEF StartDelete
    <3>2. Victim(r) # None
      BY <3>1 DEF Victim
    <3>3. \A q \in Res : pc[q] = "done"
      BY <3>1 DEF AllDone
    <3>4. \A q \in Res \ {r} : pc'[q] = "done"
      BY <1>0, <1>3, <3>3
    <3>5. pc'[r] = "dRead" /\ pc[r] = "done"
      BY <1>3, <3>2, <3>3
    <3>6. r \notin retire
      BY <2>1, <3>5 DEF Order
    <3>7. CASE s = r
      <4>1. Victim(r)' = Victim(r)
        BY <2>2 DEF Victim
      <4> QED BY <2>2, <2>3, <2>5, <3>1, <3>2, <3>4, <3>5, <3>6, <3>7, <4>1 DEF Order
    <3>8. CASE s # r
      BY <2>1, <2>2, <2>5, <3>3, <3>4, <3>8 DEF Order, Deleting
    <3> QED BY <3>7, <3>8
  <2> QED BY <2>4, <2>5
<1>5. OrderInv'
  BY <1>1, <1>4, StackStays DEF OrderInv
<1> QED BY <1>1, <1>3, <1>5, QuietSteps

LEMMA ProcessDiesInv == ASSUME Inv, ProcessDies PROVE Inv'
<1>0. Res \subseteq All
  BY InvLayout DEF Layout
<1>1. UNCHANGED <<stack, cloud, engine, touched>> /\ Counts
  BY DEF ProcessDies, Quiet, Counts
<1>2. pc' \in [All -> Step]
  BY DEF ProcessDies, Inv, TypeOK, Step, Rest
<1>3. \A s \in All : (pc'[s] = pc[s] /\ pc[s] \in Rest) \/ pc'[s] = "failed"
  BY DEF ProcessDies
<1>4. ASSUME NEW s \in Res PROVE Order(s)'
  <2>1. Order(s) /\ s \in All
    BY <1>0 DEF Inv, OrderInv
  <2>2. pc'[s] \notin Deleting
    BY <1>3, <2>1 DEF Rest, Deleting
  <2>3. UNCHANGED <<saved, outgoing, destroying, retire>>
    BY <1>1 DEF engine
  <2> QED BY <1>3, <2>1, <2>2, <2>3 DEF Order
<1>5. OrderInv'
  BY <1>1, <1>4, StackStays DEF OrderInv
<1> QED BY <1>1, <1>2, <1>5, QuietSteps

\* What is written is a thing that may be there.
LEMMA WantedIs == ASSUME Inv, NEW r PROVE Wanted(r) \in 1..2 /\ (KindOf(r) = "Link" => Wanted(r) = 1)
BY DEF Inv, TypeOK, Wanted, Unchanging

LEMMA SlowIs ==
    ASSUME NEW r, KindOf(r) \in Slow
    PROVE  KindOf(r) \notin Named \cup Hosts
BY DEF Slow, Named, Hosts

LEMMA NewIsSound ==
    ASSUME Inv, NEW r \in Res
    PROVE  New(r) \in Thing /\ Sound(Key(r), New(r))
<1>1. r \in All
  BY InvLayout DEF Layout
<1>2. Wanted(r) \in 0..3 /\ (KindOf(r) = "Link" => Wanted(r) = 1)
  BY WantedIs
<1>3. New(r) \in Thing
  BY <1>2 DEF New, Thing
<1>4. Key(r)[1] = r
  BY <1>1, KeyIsId
<1> QED BY <1>2, <1>3, <1>4 DEF Sound, New, Absent

LEMMA AbsentIsSound == Absent \in Thing /\ \A k : Sound(k, Absent)
BY DEF Absent, Thing, Sound

LEMMA WrittenIsSound ==
    ASSUME Inv, NEW r \in Res, NEW t \in Thing, Sound(Key(r), t), t.state = "ready"
    PROVE  LET w == [t EXCEPT !.rev = Wanted(r), !.ours = TRUE, !.spare = @ \/ KindOf(r) = "Policy"] IN
           w \in Thing /\ Sound(Key(r), w)
<1> DEFINE w == [t EXCEPT !.rev = Wanted(r), !.ours = TRUE, !.spare = @ \/ KindOf(r) = "Policy"]
<1>1. r \in All
  BY InvLayout DEF Layout
<1>2. Wanted(r) \in 0..3 /\ (KindOf(r) = "Link" => Wanted(r) = 1)
  BY WantedIs
<1>3. Key(r)[1] = r
  BY <1>1, KeyIsId
<1>4. w \in Thing
  BY <1>2 DEF Thing
<1>5. w.state = "ready" /\ w.rev = Wanted(r) /\ w.ours = TRUE /\ w.guest = t.guest
  BY DEF Thing
<1>6. Sound(Key(r), w)
  BY <1>2, <1>3, <1>5 DEF Sound
<1> QED BY <1>4, <1>6

LEMMA PointPut ==
    ASSUME Inv, NEW k \in Id, NEW t \in Thing, Sound(k, t), Put(k, t), stack' = stack
    PROVE  /\ cloud' \in [Id -> Thing] /\ CloudInv'
           /\ cloud'[k] = t /\ \A i \in Id \ {k} : cloud'[i] = cloud[i]
<1>1. /\ cloud' \in [Id -> Thing]
      /\ cloud'[k] = t /\ \A i \in Id \ {k} : cloud'[i] = cloud[i]
  BY DEF Inv, TypeOK, Put
<1>2. \A i \in Id : Sound(i, cloud'[i])
  BY <1>1 DEF Inv, CloudInv
<1> QED BY <1>1, <1>2, CloudFrom

\* What a handler at work writes is under its own name.
LEMMA WorkedCloud ==
    ASSUME Inv, NEW r \in Res, Worked(r)
    PROVE  /\ cloud' \in [Id -> Thing] /\ CloudInv'
           /\ \A i \in Id \ {Key(r)} : cloud'[i] = cloud[i]
<1>0. r \in All /\ Key(r) \in Id /\ stack' = stack
  BY InvLayout, KeyIsId DEF Layout, Worked, Handled, Quiet
<1>1. CASE Unwritten(r)
  BY <1>0, <1>1, CloudFrom DEF Unwritten, Inv, TypeOK, CloudInv
<1>2. CASE Created(r)
  BY <1>0, <1>2, NewIsSound, PointPut DEF Created
<1>3. CASE Tuned(r)
  <2> DEFINE w == [cloud[Key(r)] EXCEPT !.rev = Wanted(r), !.ours = TRUE, !.spare = @ \/ KindOf(r) = "Policy"]
  <2>1. cloud[Key(r)] \in Thing /\ Sound(Key(r), cloud[Key(r)]) /\ cloud[Key(r)].state = "ready"
    BY <1>0, <1>3 DEF Inv, TypeOK, CloudInv, Tuned
  <2>2. w \in Thing /\ Sound(Key(r), w)
    BY <2>1, WrittenIsSound
  <2>3. Put(Key(r), w)
    BY <1>3 DEF Tuned, Write
  <2> HIDE DEF w
  <2> QED BY <1>0, <2>2, <2>3, PointPut
<1>4. CASE Cleared(r)
  BY <1>0, <1>4, AbsentIsSound, PointPut DEF Cleared
<1> QED BY <1>1, <1>2, <1>3, <1>4 DEF Worked

LEMMA WorkedInv == ASSUME Inv, NEW r \in Res, Worked(r) PROVE Inv'
<1>0. r \in All
  BY InvLayout DEF Layout
<1>1. ~destroying /\ r \notin retire /\ pc[r] \notin Deleting \cup {"done", "gone"}
  BY WorkingIs DEF Worked, Working
<1>2. {"create", "tune", "cleared", "confirm", "failed"} \in SUBSET (Step \ (Deleting \cup {"gone"}))
  BY DEF Step, Rest, Deleting
<1>3. UNCHANGED <<stack, engine, touched>> /\ Counts /\ Moves(r, {"create", "tune", "cleared", "confirm", "failed"})
  BY DEF Worked, Handled, Quiet
<1>4. UNCHANGED <<stack, destroying, retire, saved, outgoing>>
  BY <1>3 DEF engine
<1>5. OrderInv'
  BY <1>0, <1>1, <1>2, <1>3, <1>4, OrderForward
<1>6. pc' \in [All -> Step]
  BY <1>0, <1>2, <1>3, PcType
<1>7. cloud' \in [Id -> Thing] /\ CloudInv'
  BY WorkedCloud
<1>8. TypeOK'
  BY <1>3, <1>6, <1>7, CountsAre, StackStays DEF Inv, TypeOK, engine
<1>9. CountInv'
  <2>1. ASSUME NEW p \in Parents \cap Res, KindOf(p) = "SecurityGroup", saved[p] # None, Present(saved[p].at)
        PROVE  Present(saved[p].at)'
    <3>1. saved'[p] = saved[p] /\ saved[p].at = Key(p) /\ p \in All /\ Key(p) \in Id
      BY <1>4, <2>1, InvLayout, KeyIsId DEF Layout, Inv, RecordInv, ParentRec
    <3>2. CASE p # r
      <4>1. Key(p) # Key(r)
        BY <1>0, <3>1, <3>2, KeysDiffer
      <4>2. cloud'[Key(p)] = cloud[Key(p)]
        BY <3>1, <4>1, WorkedCloud
      <4> QED BY <2>1, <3>1, <4>2 DEF Present
    <3>3. CASE p = r
      <4>1. KindOf(r) # "AclEntry" /\ KindOf(r) \notin Covered
        BY <2>1, <3>3 DEF Covered, Rules
      <4>2. Unwritten(r) \/ Tuned(r)
        BY <2>1, <3>1, <3>3, <4>1 DEF Worked, Created, Cleared
      <4>3. CASE Unwritten(r)
        BY <2>1, <3>1, <4>3 DEF Unwritten, Present
      <4>4. CASE Tuned(r)
        <5>1. cloud'[Key(r)].state = "ready"
          BY <3>1, <3>3, <4>4 DEF Tuned, Write, Put, Inv, TypeOK, Thing
        <5> QED BY <3>1, <3>3, <5>1 DEF Present
      <4> QED BY <4>2, <4>3, <4>4
    <3> QED BY <3>2, <3>3
  <2> QED BY <1>3, <2>1, CountStays
<1> QED BY <1>3, <1>5, <1>7, <1>8, <1>9, RecordsStay DEF Inv

\* What a delete handler is called for is a resource of its own.
LEMMA DoomedIs ==
    ASSUME Inv, NEW r \in Res, Victim(r) # None
    PROVE  Doomed(r) \in Id /\ Doomed(r)[1] = r
<1>1. r \in All
  BY InvLayout DEF Layout
<1>2. (saved[r] # None => saved[r] \in Output) /\ (outgoing[r] # None => outgoing[r] \in Output)
  BY <1>1 DEF Inv, TypeOK
<1>3. Doomed(r) \in Id
  BY <1>2 DEF Doomed, Victim, Output
<1>4. CASE r \in Parents
  <2>1. ParentRec(r)
    BY <1>4 DEF Inv, RecordInv
  <2> QED BY <1>3, <2>1 DEF ParentRec, Doomed, Victim
<1>5. CASE r = "c"
  <2>1. ChildRec
    BY <1>5 DEF Inv, RecordInv
  <2> QED BY <1>3, <1>5, <2>1 DEF ChildRec, Doomed, Victim
<1> QED BY <1>1, <1>4, <1>5 DEF All

LEMMA DroppedIs ==
    ASSUME Inv, NEW r \in Res, pc[r] \in Deleting
    PROVE  /\ r \in All /\ Victim(r) # None /\ Doomed(r) \in Id /\ Doomed(r)[1] = r
           /\ r \notin retire
           /\ ~destroying => /\ outgoing[r] # None /\ Doomed(r) = outgoing[r].at
                             /\ \A s \in Res \ {r} : pc[s] = "done"
<1>1. r \in All
  BY InvLayout DEF Layout
<1>2. Order(r)
  BY DEF Inv, OrderInv
<1> QED BY <1>1, <1>2, DoomedIs DEF Order, Doomed, Victim, Deleting

LEMMA RemovedCloud ==
    ASSUME Inv, NEW r \in Res, NEW k \in Id, k[1] = r, Removed(r, k), stack' = stack
    PROVE  /\ cloud' \in [Id -> Thing] /\ CloudInv'
           /\ cloud'[k].state \in {"absent", "deleting"} /\ cloud'[k].ours \in {cloud[k].ours, FALSE}
           /\ \A i \in Id \ {k} :
                \/ cloud'[i] = cloud[i]
                \/ /\ cloud'[i] = Absent /\ i \in Bound(k)
                   /\ KindOf(r) \in {"Database", "SecurityGroup"}
<1> DEFINE d == [cloud[k] EXCEPT !.state = "deleting"]
<1>1. cloud[k] \in Thing /\ Sound(k, cloud[k])
  BY DEF Inv, TypeOK, CloudInv
<1>2. d \in Thing /\ d.state = "deleting" /\ d.ours = cloud[k].ours /\ d.rev = cloud[k].rev /\ d.guest = cloud[k].guest
  BY <1>1 DEF Thing
<1>3. KindOf(r) \in Slow => Sound(k, d)
  <2>1. ASSUME KindOf(r) \in Slow PROVE ~cloud[k].guest /\ cloud[k].ours
    BY <1>1, <2>1, SlowIs DEF Sound, Removed
  <2> HIDE DEF d
  <2> QED BY <1>1, <1>2, <2>1, Zenon DEF Sound, Absent, Removed
<1> HIDE DEF d
<1>4. DEFINE with == IF KindOf(r) \in {"Database", "SecurityGroup"} THEN Bound(k) ELSE {}
<1>5. cloud' = [i \in Id |-> IF i = k /\ KindOf(r) \in Slow THEN d
                             ELSE IF i \in with \cup {k} THEN Absent ELSE cloud[i]]
  BY DEF Removed, Remove, d
<1>6. \A i \in Id : cloud'[i] \in Thing /\ Sound(i, cloud'[i])
  BY <1>2, <1>3, <1>5, AbsentIsSound DEF Inv, TypeOK, CloudInv
<1>7. cloud' \in [Id -> Thing]
  BY <1>2, <1>5, AbsentIsSound DEF Inv, TypeOK
<1>8. CloudInv'
  BY <1>6, CloudFrom
<1>9. cloud'[k] = d \/ cloud'[k] = Absent
  BY <1>5
<1>10. ASSUME NEW i \in Id \ {k}
       PROVE  \/ cloud'[i] = cloud[i]
              \/ cloud'[i] = Absent /\ i \in Bound(k) /\ KindOf(r) \in {"Database", "SecurityGroup"}
  BY <1>5
<1>11. Absent.state = "absent" /\ Absent.ours = FALSE
  BY DEF Absent
<1>12. cloud'[k].state \in {"absent", "deleting"} /\ cloud'[k].ours \in {cloud[k].ours, FALSE}
  BY <1>2, <1>9, <1>11
<1> QED BY <1>7, <1>8, <1>10, <1>12

\* A deletion takes what is on record, and what cannot be without it.
LEMMA DroppedCloud ==
    ASSUME Inv, NEW r \in Res, Dropped(r)
    PROVE  /\ cloud' \in [Id -> Thing] /\ CloudInv'
           /\ \A i \in Id \ {Doomed(r)} :
                \/ cloud'[i] = cloud[i]
                \/ /\ cloud'[i] = Absent /\ i \in Bound(Doomed(r)) /\ Removed(r, Doomed(r))
                   /\ KindOf(r) \in {"Database", "SecurityGroup"}
<1> DEFINE k == Doomed(r)
<1>0. k \in Id /\ k[1] = r /\ stack' = stack
  BY DroppedIs DEF Dropped, Deleting, Handled, Quiet
<1>1. cloud[k] \in Thing /\ Sound(k, cloud[k])
  BY <1>0 DEF Inv, TypeOK, CloudInv
<1> HIDE DEF k
<1>2. CASE UNCHANGED cloud
  BY <1>0, <1>2, CloudFrom DEF Inv, TypeOK, CloudInv
<1>3. CASE Pruned(r, k)
  <2> DEFINE t == [cloud[k] EXCEPT !.spare = FALSE]
  <2>1. t \in Thing /\ t.state = cloud[k].state /\ t.rev = cloud[k].rev /\ t.ours = cloud[k].ours /\ t.guest = cloud[k].guest
    BY <1>1 DEF Thing
  <2>2. t.state # "absent"
    BY <1>1, <1>3, <2>1 DEF Pruned, Sound, Absent
  <2>3. Put(k, t)
    BY <1>3 DEF Pruned
  <2> HIDE DEF t
  <2>4. Sound(k, t)
    BY <1>1, <2>1, <2>2, Zenon DEF Sound
  <2> QED BY <1>0, <2>1, <2>3, <2>4, PointPut DEF k
<1>4. CASE Emptied(r, k)
  <2> DEFINE t == [cloud[k] EXCEPT !.rev = 3]
  <2>1. t \in Thing /\ t.state = cloud[k].state /\ t.rev = 3 /\ t.ours = cloud[k].ours /\ t.guest = cloud[k].guest
    BY <1>1 DEF Thing
  <2>2. t.state = "ready" /\ KindOf(k[1]) = "TairIpGroup"
    BY <1>0, <1>4, <2>1 DEF Emptied
  <2>3. Put(k, t)
    BY <1>4 DEF Emptied
  <2> HIDE DEF t
  <2>4. Sound(k, t)
    BY <1>1, <2>1, <2>2 DEF Sound
  <2> QED BY <1>0, <2>1, <2>3, <2>4, PointPut DEF k
<1>5. CASE Removed(r, k)
  BY <1>0, <1>5, RemovedCloud DEF k
<1> QED BY <1>2, <1>3, <1>4, <1>5 DEF Dropped, k

LEMMA DroppedInv == ASSUME Inv, NEW r \in Res, Dropped(r) PROVE Inv'
<1>0. /\ r \in All /\ Victim(r) # None /\ Doomed(r) \in Id /\ Doomed(r)[1] = r
      /\ ~destroying => outgoing[r] # None /\ Doomed(r) = outgoing[r].at
  BY DroppedIs DEF Dropped, Deleting
<1>1. UNCHANGED <<stack, engine, touched>> /\ Counts
  BY DEF Dropped, Handled, Quiet
<1>2. Moves(r, Deleting \cup {"failed"}) /\ pc[r] \in Deleting
  BY DEF Dropped, Handled, Moves, Deleting
<1>3. OrderInv'
  BY <1>0, <1>1, <1>2, OrderDeleting
<1>4. pc' \in [All -> Step]
  BY <1>0, <1>2, PcType DEF Deleting, Step, Rest
<1>5. TypeOK' /\ CloudInv'
  BY <1>1, <1>4, DroppedCloud, CountsAre, StackStays DEF Inv, TypeOK, engine
<1>6. CountInv'
  <2>1. ASSUME NEW p \in Parents \cap Res, saved[p] # None, ~destroying, Present(saved[p].at)
        PROVE  Present(saved[p].at)'
    <3>1. saved'[p] = saved[p] /\ saved[p].at = <<p, gen[p]>> /\ ParentRec(p) /\ p \in All
      BY <1>1, <2>1, InvLayout DEF Layout, Inv, RecordInv, ParentRec, engine
    <3>2. <<p, gen[p]>> \in Id /\ gen[p] \in Nat
      BY <3>1, GensAre, PairIsId
    <3>3. Doomed(r) # <<p, gen[p]>>
      <4>1. CASE r # p
        BY <1>0, <4>1
      <4>2. CASE r = p
        BY <1>0, <2>1, <3>1, <3>2, <4>2 DEF ParentRec
      <4> QED BY <4>1, <4>2
    <3>4. <<p, gen[p]>> \notin Bound(Doomed(r))
      BY DEF Bound, Parents
    <3>5. cloud'[<<p, gen[p]>>] = cloud[<<p, gen[p]>>]
      BY <3>2, <3>3, <3>4, DroppedCloud
    <3> QED BY <2>1, <3>1, <3>5 DEF Present
  <2> QED BY <1>1, <2>1, CountStays
<1> QED BY <1>1, <1>3, <1>5, <1>6, RecordsStay DEF Inv

LEMMA ConfirmedInv == ASSUME Inv, NEW r \in Res, Confirmed(r) PROVE Inv'
<1>0. r \in All /\ Res \subseteq All
  BY InvLayout DEF Layout
<1>1. ~destroying /\ r \notin retire /\ pc[r] \notin Deleting \cup {"done", "gone"}
  BY WorkingIs DEF Confirmed, Working
<1>2. {"done", "failed"} \in SUBSET (Step \ (Deleting \cup {"gone"}))
  BY DEF Step, Rest, Deleting
<1>3. UNCHANGED <<stack, cloud, want, gen, retire, outgoing, destroying>> /\ Counts /\ Moves(r, {"done", "failed"})
  BY DEF Confirmed, Moves, Fail
<1>4. /\ saved' = saved \/ (saved' = [saved EXCEPT ![r] = [at |-> Key(r), rev |-> Wanted(r)]] /\ Present(Key(r)))
      /\ touched' \in SUBSET touched
  BY DEF Confirmed, Present
<1>5. /\ Key(r) \in Id /\ Key(r)[1] = r
      /\ r \in Parents => Key(r) = <<r, gen[r]>>
      /\ r = "c" => Key(r)[2] = gen["a"]
      /\ r = "c" /\ stack = "acr" => Key(r)[3] = gen["c"]
  BY <1>0, KeyIsId
<1>6. Wanted(r) \in 0..3
  BY WantedIs
<1>7. /\ saved' \in [All -> Output \cup {None}]
      /\ \A s \in All \ {r} : saved'[s] = saved[s]
      /\ saved'[r] # saved[r] => saved'[r].at = Key(r) /\ Present(Key(r))
  <2> DEFINE o == [at |-> Key(r), rev |-> Wanted(r)]
  <2>1. o \in Output /\ o.at = Key(r)
    BY <1>5, <1>6 DEF Output
  <2>2. saved' = saved \/ (saved' = [saved EXCEPT ![r] = o] /\ Present(Key(r)))
    BY <1>4
  <2> HIDE DEF o
  <2>3. saved \in [All -> Output \cup {None}]
    BY DEF Inv, TypeOK
  <2> QED BY <1>0, <2>1, <2>2, <2>3
<1>8. OrderInv'
  BY <1>0, <1>1, <1>2, <1>3, <1>7, OrderForward
<1>9. pc' \in [All -> Step]
  BY <1>0, <1>2, <1>3, PcType
<1>10. TypeOK'
  BY <1>3, <1>4, <1>7, <1>9, CountsAre, StackStays DEF Inv, TypeOK
<1>11. CloudInv'
  BY <1>3, StackStays DEF Inv, CloudInv, Sound
<1>12. RecordInv'
  <2>1. ASSUME NEW p \in Parents \cap Res PROVE ParentRec(p)'
    <3>1. ParentRec(p) /\ p \in All
      BY <1>0 DEF Inv, RecordInv
    <3>2. CASE p # r
      BY <1>3, <1>7, <3>1, <3>2 DEF ParentRec
    <3>3. CASE p = r
      BY <1>1, <1>3, <1>5, <1>7, <3>1, <3>3 DEF ParentRec
    <3> QED BY <3>2, <3>3
  <2>2. ASSUME "c" \in Res PROVE ChildRec'
    <3>1. ChildRec /\ "c" \in All
      BY <1>0, <2>2 DEF Inv, RecordInv
    <3>2. CASE "c" # r
      BY <1>3, <1>7, <3>1, <3>2 DEF ChildRec
    <3>3. CASE "c" = r
      <4>1. CASE saved'[r] = saved[r]
        BY <1>3, <3>1, <3>3, <4>1 DEF ChildRec
      <4>2. CASE saved'[r].at = Key(r)
        <5>1. gen["c"] <= gen["a"] /\ gen["a"] \in Nat
          BY GensAre DEF Inv, CountInv, All, Parents
        <5> QED BY <1>1, <1>3, <1>5, <3>1, <3>3, <4>2, <5>1 DEF ChildRec
      <4> QED BY <1>7, <4>1, <4>2
    <3> QED BY <3>2, <3>3
  <2> QED BY <1>3, <2>1, <2>2, StackStays DEF RecordInv
<1>13. CountInv'
  <2>1. upsets \in Nat /\ (upsets' = upsets \/ upsets' = upsets + 1)
    BY <1>3, CountsAre
  <2>2. ASSUME NEW p \in Parents, Due(p)' PROVE Due(p)
    <3>1. p \in Res /\ p \in All
      BY <1>0, <1>3, <2>2, StackStays DEF Due
    <3>2. CASE saved'[p] = saved[p]
      BY <1>3, <2>2, <3>2, StackStays DEF Due, Present
    <3>3. CASE saved'[p] # saved[p]
      <4>1. p = r /\ saved'[p].at = Key(r) /\ Present(Key(r))
        BY <1>7, <3>1, <3>3
      <4>2. ~Present(saved[p].at)' => ~Present(Key(r))
        BY <1>3, <4>1 DEF Present
      <4> QED BY <1>1, <1>3, <2>2, <4>1, <4>2, StackStays DEF Due
    <3> QED BY <3>2, <3>3
  <2>3. ASSUME NEW p \in Parents
        PROVE  gen'[p] <= upsets' + 1 /\ (Due(p)' => gen'[p] <= upsets')
    <3>1. gen'[p] = gen[p] /\ gen[p] \in Nat
      BY <1>3, GensAre DEF All
    <3>2. gen[p] <= upsets + 1 /\ (Due(p) => gen[p] <= upsets)
      BY DEF Inv, CountInv
    <3> QED BY <2>1, <2>2, <3>1, <3>2
  <2>4. want \in Nat
    BY GensAre
  <2> QED BY <1>3, <2>1, <2>3, <2>4 DEF Inv, CountInv
<1> QED BY <1>8, <1>10, <1>11, <1>12, <1>13 DEF Inv

LEMMA VanishedInv == ASSUME Inv, NEW r \in Res, Vanished(r) PROVE Inv'
<1>0. Res \subseteq All /\ r \in All
  BY InvLayout DEF Layout
<1>1. /\ Victim(r) # None /\ r \notin retire
      /\ ~destroying => outgoing[r] # None /\ \A s \in Res \ {r} : pc[s] = "done"
  BY DroppedIs DEF Vanished, Deleting
<1>2. UNCHANGED <<stack, cloud, want, gen, retire, destroying, touched>> /\ Counts
  BY DEF Vanished
<1>3. /\ saved' \in [All -> Output \cup {None}] /\ outgoing' \in [All -> Output \cup {None}]
      /\ \A s \in All \ {r} : saved'[s] = saved[s] /\ outgoing'[s] = outgoing[s]
      /\ saved'[r] \in {saved[r], None} /\ outgoing'[r] \in {outgoing[r], None}
  BY <1>0 DEF Vanished, Inv, TypeOK
<1>4. Moves(r, {"idle", "done", "gone", "failed"})
  BY DEF Vanished, Moves, Fail
<1>5. {"idle", "done", "gone", "failed"} \in SUBSET Step
  BY DEF Step, Rest
<1>6. /\ pc' \in [All -> Step] /\ pc'[r] \in {"idle", "done", "gone", "failed"}
      /\ \A s \in All \ {r} : pc'[s] = pc[s]
  BY <1>0, <1>4, <1>5, PcType
<1>7. /\ destroying => pc'[r] # "done"
      /\ ~destroying => pc'[r] \in {"done", "failed"}
      /\ pc'[r] = "gone" => saved'[r] = None /\ outgoing'[r] = None
  <2>1. CASE Fail(r)
    BY <1>0, <2>1 DEF Fail, Goto, Inv, TypeOK
  <2>2. CASE outgoing[r] # None /\ Goto(r, IF destroying THEN "idle" ELSE "done")
    BY <1>0, <2>2 DEF Goto, Inv, TypeOK
  <2>3. CASE outgoing[r] = None /\ Goto(r, IF destroying THEN "gone" ELSE "done")
             /\ saved' = [saved EXCEPT ![r] = None] /\ UNCHANGED outgoing
    BY <1>0, <1>1, <2>3 DEF Goto, Inv, TypeOK
  <2> QED BY <2>1, <2>2, <2>3 DEF Vanished
<1>8. OrderInv'
  <2>1. ASSUME NEW s \in Res PROVE Order(s)'
    <3>1. Order(s) /\ Order(r) /\ s \in All
      BY <1>0, <2>1 DEF Inv, OrderInv
    <3>2. CASE s = r
      BY <1>1, <1>2, <1>6, <1>7, <3>1, <3>2 DEF Order, Deleting
    <3>3. CASE s # r /\ destroying
      BY <1>2, <1>3, <1>6, <3>1, <3>3 DEF Order, Victim
    <3>4. CASE s # r /\ ~destroying
      BY <1>1, <1>2, <1>3, <1>6, <3>1, <3>4 DEF Order, Deleting
    <3> QED BY <3>2, <3>3, <3>4
  <2> QED BY <1>2, <2>1, StackStays DEF OrderInv
<1>9. TypeOK'
  BY <1>2, <1>3, <1>6, CountsAre, StackStays DEF Inv, TypeOK
<1>10. CloudInv'
  BY <1>2, StackStays DEF Inv, CloudInv, Sound
<1>11. RecordInv'
  <2>1. ASSUME NEW p \in Parents \cap Res PROVE ParentRec(p)'
    <3>1. ParentRec(p) /\ p \in All
      BY <1>0 DEF Inv, RecordInv
    <3> QED BY <1>1, <1>2, <1>3, <3>1 DEF ParentRec
  <2>2. ASSUME "c" \in Res PROVE ChildRec'
    <3>1. ChildRec /\ "c" \in All
      BY <1>0, <2>2 DEF Inv, RecordInv
    <3> QED BY <1>1, <1>2, <1>3, <3>1 DEF ChildRec
  <2> QED BY <1>2, <2>1, <2>2, StackStays DEF RecordInv
<1>12. CountInv'
  <2>1. upsets \in Nat /\ (upsets' = upsets \/ upsets' = upsets + 1)
    BY <1>2, CountsAre
  <2>2. ASSUME NEW p \in Parents, Due(p)' PROVE Due(p)
    <3>1. p \in Res /\ p \in All
      BY <1>0, <1>2, <2>2, StackStays DEF Due
    <3>2. saved'[p] = None \/ saved'[p] = saved[p]
      BY <1>0, <1>3, <3>1
    <3> QED BY <1>2, <2>2, <3>2, StackStays DEF Due, Present
  <2>3. ASSUME NEW p \in Parents
        PROVE  gen'[p] <= upsets' + 1 /\ (Due(p)' => gen'[p] <= upsets')
    <3>1. gen'[p] = gen[p] /\ gen[p] \in Nat
      BY <1>2, GensAre DEF All
    <3>2. gen[p] <= upsets + 1 /\ (Due(p) => gen[p] <= upsets)
      BY DEF Inv, CountInv
    <3> QED BY <2>1, <2>2, <3>1, <3>2
  <2>4. want \in Nat
    BY GensAre
  <2> QED BY <1>2, <2>1, <2>3, <2>4 DEF Inv, CountInv
<1> QED BY <1>8, <1>9, <1>10, <1>11, <1>12 DEF Inv

LEMMA RenewedGen ==
    ASSUME Inv, NEW r \in Res, Renewed(r)
    PROVE  /\ gen' \in [All -> Generation]
           /\ \A s \in All \ {r} : gen'[s] = gen[s]
           /\ r \in Parents => gen'[r] = gen[r] + 1 /\ gen[r] <= upsets
           /\ r = "c" => \/ gen'[r] = gen[r]
                         \/ gen'[r] = gen[r] + 1 /\ stack = "acr" /\ gen[r] < gen["a"]
<1>0. Res \subseteq All /\ r \in All /\ r \in retire /\ ~destroying
  BY InvLayout DEF Layout, Renewed, Begins
<1>1. upsets \in Nat /\ MaxUpsets \in Nat /\ upsets <= MaxUpsets /\ gen \in [All -> Generation]
  BY BoundAssumption DEF Inv, TypeOK
<1>2. \A s \in All : gen[s] \in Nat /\ 1 <= gen[s] /\ gen[s] <= MaxUpsets + 1
  BY <1>1 DEF Generation
<1>3. CASE r \in Parents
  <2>1. Due(r)
    BY <1>0 DEF Due
  <2>2. gen[r] <= upsets
    BY <1>3, <2>1 DEF Inv, CountInv
  <2>3. gen[r] + 1 \in Generation
    BY <1>0, <1>1, <1>2, <2>2 DEF Generation
  <2>4. gen' = [gen EXCEPT ![r] = gen[r] + 1]
    BY <1>3 DEF Renewed, Parents
  <2> QED BY <1>0, <1>1, <1>3, <2>2, <2>3, <2>4 DEF Parents
<1>4. CASE r = "c" /\ KindOf("c") = "Repository"
  <2>1. stack = "acr" /\ ChildRec /\ "a" \in All
    BY <1>0, <1>4, InvLayout DEF Layout, Inv, RecordInv, All, Parents
  <2>2. gen["c"] < gen["a"]
    BY <1>0, <1>4, <2>1 DEF ChildRec
  <2>3. gen["c"] + 1 \in Generation
    BY <1>0, <1>1, <1>2, <1>4, <2>1, <2>2 DEF Generation
  <2>4. gen' = [gen EXCEPT ![r] = gen[r] + 1]
    BY <1>4 DEF Renewed
  <2> QED BY <1>0, <1>1, <1>4, <2>1, <2>2, <2>3, <2>4 DEF Parents
<1>5. CASE r = "c" /\ KindOf("c") # "Repository"
  BY <1>1, <1>5 DEF Renewed, Parents
<1> QED BY <1>0, <1>3, <1>4, <1>5 DEF All

LEMMA RenewedInv == ASSUME Inv, NEW r \in Res, Renewed(r) PROVE Inv'
<1>0. Res \subseteq All /\ r \in All /\ r \in retire /\ r \notin retire' /\ "a" \in All /\ "c" \in All
  BY InvLayout DEF Layout, Renewed, All, Parents
<1>1. ~destroying /\ pc[r] \notin Deleting \cup {"done", "gone"}
  BY DEF Renewed, Begins, Deleting
<1>2. {"look"} \in SUBSET (Step \ (Deleting \cup {"gone"}))
  BY DEF Step, Rest, Deleting
<1>3. /\ UNCHANGED <<stack, cloud, want, destroying, touched, upsets>> /\ Counts /\ Moves(r, {"look"})
      /\ retire' = retire \ {r}
  BY DEF Renewed, Moves, Counts, Calm
<1>4. /\ saved' \in [All -> Output \cup {None}] /\ outgoing' \in [All -> Output \cup {None}]
      /\ \A s \in All \ {r} : saved'[s] = saved[s] /\ outgoing'[s] = outgoing[s]
      /\ saved'[r] = None /\ outgoing'[r] = saved[r]
  BY <1>0 DEF Renewed, Inv, TypeOK
<1>5. OrderInv'
  BY <1>0, <1>1, <1>2, <1>3, <1>4, OrderForward
<1>6. pc' \in [All -> Step]
  BY <1>0, <1>2, <1>3, PcType
<1>7. \A s \in All : gen[s] \in Nat
  BY GensAre
<1>8. TypeOK'
  BY <1>3, <1>4, <1>6, RenewedGen, StackStays DEF Inv, TypeOK
<1>9. CloudInv'
  BY <1>3, StackStays DEF Inv, CloudInv, Sound
<1>10. \A s \in All : gen[s] <= gen'[s] /\ (s # r => gen'[s] = gen[s])
  BY <1>0, <1>7, RenewedGen DEF All
<1>11. RecordInv'
  <2>1. ASSUME NEW p \in Parents \cap Res PROVE ParentRec(p)'
    <3>1. ParentRec(p) /\ p \in All
      BY <1>0 DEF Inv, RecordInv
    <3>2. CASE p # r
      BY <1>3, <1>4, <1>10, <3>1, <3>2 DEF ParentRec
    <3>3. CASE p = r
      <4>1. gen'[p] = gen[p] + 1 /\ gen[p] \in Nat
        BY <1>7, <3>1, <3>3, RenewedGen
      <4>2. outgoing'[p] # None => outgoing'[p].at = <<p, gen[p]>>
        BY <1>4, <3>1, <3>3 DEF ParentRec
      <4> QED BY <1>0, <1>4, <3>3, <4>1, <4>2 DEF ParentRec
    <3> QED BY <3>2, <3>3
  <2>2. ASSUME "c" \in Res PROVE ChildRec'
    <3>1. ChildRec
      BY <2>2 DEF Inv, RecordInv
    <3>2. CASE "c" # r
      <4>1. saved["c"] # None => saved["c"].at[2] \in Nat
        <5>1. ASSUME saved["c"] # None PROVE saved["c"].at \in Id /\ saved["c"].at[1] = "c"
          BY <1>0, <3>1, <5>1 DEF ChildRec, Inv, TypeOK, Output
        <5>2. \A g \in Generation : g \in Nat
          BY BoundAssumption DEF Generation
        <5> QED BY <5>1, <5>2, IdCases
      <4>2. gen'["c"] = gen["c"] /\ gen["a"] <= gen'["a"] /\ gen["a"] \in Nat /\ gen'["a"] \in Nat /\ gen["c"] \in Nat
        <5>1. gen' \in [All -> Generation] /\ \A g \in Generation : g \in Nat
          BY BoundAssumption, RenewedGen DEF Generation
        <5> QED BY <1>0, <1>7, <1>10, <3>2, <5>1
      <4>3. saved'["c"] = saved["c"] /\ outgoing'["c"] = outgoing["c"] /\ ("c" \in retire' => "c" \in retire)
        BY <1>0, <1>3, <1>4, <3>2
      <4> QED BY <1>3, <3>1, <4>1, <4>2, <4>3 DEF ChildRec
    <3>3. CASE "c" = r
      BY <1>0, <1>4, <3>1, <3>3 DEF ChildRec
    <3> QED BY <3>2, <3>3
  <2> QED BY <1>3, <2>1, <2>2, StackStays DEF RecordInv
<1>12. CountInv'
  <2>1. ASSUME NEW p \in Parents
        PROVE  gen'[p] <= upsets' + 1 /\ (Due(p)' => gen'[p] <= upsets')
    <3>1. gen[p] \in Nat /\ p \in All /\ upsets \in Nat /\ upsets' = upsets
      BY <1>3, <1>7, GensAre DEF All
    <3>2. gen[p] <= upsets + 1 /\ (Due(p) => gen[p] <= upsets)
      BY DEF Inv, CountInv
    <3>3. CASE p # r
      <4>1. Due(p)' => Due(p)
        BY <1>3, <1>4, <3>1, <3>3, StackStays DEF Due, Present
      <4> QED BY <1>10, <3>1, <3>2, <3>3, <4>1
    <3>4. CASE p = r
      <4>1. ~Due(p)'
        BY <1>0, <1>4, <3>4 DEF Due
      <4> QED BY <3>1, <3>4, <4>1, RenewedGen
    <3> QED BY <3>3, <3>4
  <2>2. gen'["c"] <= gen'["a"] /\ (stack' # "acr" => gen'["c"] = 1)
    <3>1. gen["c"] <= gen["a"] /\ (stack # "acr" => gen["c"] = 1) /\ gen["c"] \in Nat /\ gen["a"] \in Nat
      BY <1>0, <1>7 DEF Inv, CountInv
    <3>2. CASE r = "c"
      BY <1>0, <1>3, <1>10, <3>1, <3>2, RenewedGen
    <3>3. CASE r # "c"
      <4>1. gen'["c"] = gen["c"] /\ gen["a"] <= gen'["a"]
        BY <1>0, <1>10, <3>3
      <4>2. gen'["a"] \in Nat
        <5>1. gen' \in [All -> Generation] /\ \A g \in Generation : g \in Nat
          BY BoundAssumption, RenewedGen DEF Generation
        <5> QED BY <1>0, <5>1
      <4> QED BY <1>3, <3>1, <4>1, <4>2
    <3> QED BY <3>2, <3>3
  <2> QED BY <1>3, <2>1, <2>2 DEF Inv, CountInv
<1> QED BY <1>5, <1>8, <1>9, <1>11, <1>12 DEF Inv

LEMMA TaskEndsInv == ASSUME Inv, TaskEnds PROVE Inv'
<1>0. UNCHANGED <<stack, engine, pc, touched>> /\ Counts
  BY DEF TaskEnds, Counts, Calm
<1>1. PICK k \in Id : \/ cloud[k].state = "pending" /\ Put(k, [cloud[k] EXCEPT !.state = "ready"])
                      \/ cloud[k].state = "deleting" /\ Put(k, Absent)
  BY DEF TaskEnds
<1>2. cloud[k] \in Thing /\ Sound(k, cloud[k]) /\ KindOf(k[1]) \in Slow
  BY <1>1 DEF Inv, TypeOK, CloudInv, Sound
<1> DEFINE t == [cloud[k] EXCEPT !.state = "ready"]
<1>3. t \in Thing /\ t.state = "ready" /\ t.rev = cloud[k].rev /\ t.ours = cloud[k].ours /\ t.guest = cloud[k].guest
  BY <1>2 DEF Thing
<1>4. PICK n \in {t, Absent} : Put(k, n) /\ (n = t => cloud[k].state = "pending")
  <2>1. t # Absent
    BY <1>3 DEF Absent
  <2>2. CASE cloud[k].state = "pending" /\ Put(k, t)
    BY <2>2
  <2>3. CASE Put(k, Absent)
    BY <2>1, <2>3
  <2> QED BY <1>1, <2>2, <2>3
<1> HIDE DEF t
<1>5. n \in Thing /\ Sound(k, n)
  <2>1. cloud[k].state = "pending" => Sound(k, t)
    BY <1>2, <1>3 DEF Sound
  <2> QED BY <1>3, <1>4, <2>1, AbsentIsSound
<1>6. /\ cloud' \in [Id -> Thing] /\ CloudInv'
      /\ \A i \in Id \ {k} : cloud'[i] = cloud[i]
  BY <1>0, <1>4, <1>5, PointPut
<1>7. TypeOK'
  BY <1>0, <1>6, CountsAre, StackStays DEF Inv, TypeOK, engine
<1>8. OrderInv'
  BY <1>0, StackStays DEF Inv, OrderInv, Order, engine, Victim
<1>9. CountInv'
  <2>1. ASSUME NEW p \in Parents \cap Res, KindOf(p) = "SecurityGroup", saved[p] # None, Present(saved[p].at)
        PROVE  Present(saved[p].at)'
    <3>1. saved'[p] = saved[p] /\ saved[p].at = Key(p) /\ p \in All /\ Key(p) \in Id /\ Key(p)[1] = p
      BY <1>0, <2>1, InvLayout, KeyIsId DEF Layout, Inv, RecordInv, ParentRec, engine
    <3>2. Key(p) # k
      BY <1>2, <2>1, <3>1 DEF Slow
    <3>3. cloud'[Key(p)] = cloud[Key(p)]
      BY <1>6, <3>1, <3>2
    <3> QED BY <2>1, <3>1, <3>3 DEF Present
  <2> QED BY <1>0, <2>1, CountStays
<1> QED BY <1>0, <1>6, <1>7, <1>8, <1>9, RecordsStay DEF Inv

\* What somebody can do behind the back of the stack.
Edited(r, k) ==
    /\ cloud[k].state = "ready" /\ cloud[k].ours
    /\ KindOf(r) \notin {"Attachment", "Link"}
    /\ KindOf(r) \in Rules => k \in {s.at : s \in Kept}
    /\ Put(k, [cloud[k] EXCEPT !.rev = 3])
    /\ touched' = touched \cup {r}
Taken(r, k) == IF r = "c" THEN {k} ELSE Bound(k) \cup {k}
Deleted(r, k) ==
    /\ cloud[k].state = "ready" /\ (cloud[k].ours => KindOf(r) \in Removable)
    /\ cloud' = [i \in Id |-> IF i \in Taken(r, k) THEN Absent ELSE cloud[i]]
    /\ touched' = touched \cup { i[1] : i \in {t \in Taken(r, k) : cloud[t].ours} }
Used(r, k) ==
    /\ cloud[k].state = "ready" /\ cloud[k].ours /\ KindOf(r) \in Hosts
    /\ Put(k, [cloud[k] EXCEPT !.guest = ~@])
    /\ UNCHANGED touched
Claimed(r, k) ==
    /\ KindOf(r) \in Named /\ pc[r] # "tune"
    /\ ~Present(k) \/ (KindOf(r) = "KeyPair" /\ cloud[k].ours)
    /\ Put(k, [Absent EXCEPT !.state = "ready", !.rev = 3])
    /\ touched' = IF Present(k) THEN touched \cup {r} ELSE touched

LEMMA ConsoleIs ==
    ASSUME Console
    PROVE  /\ Upset /\ UNCHANGED <<stack, engine, pc>>
           /\ \E r \in Res, k \in Id :
                k[1] = r /\ (Edited(r, k) \/ Deleted(r, k) \/ Used(r, k) \/ Claimed(r, k))
<1>1. PICK r \in Res, k \in Id :
         /\ k[1] = r
         /\ \/ Edited(r, k)
            \/ /\ cloud[k].state = "ready" /\ (cloud[k].ours => KindOf(r) \in Removable)
               /\ LET with == IF r = "c" THEN {} ELSE Bound(k) IN
                  /\ cloud' = [i \in Id |-> IF i \in with \cup {k} THEN Absent ELSE cloud[i]]
                  /\ touched' = touched \cup { i[1] : i \in {t \in with \cup {k} : cloud[t].ours} }
            \/ Used(r, k)
            \/ Claimed(r, k)
  BY DEF Console, Edited, Used, Claimed
<1>2. (IF r = "c" THEN {} ELSE Bound(k)) \cup {k} = Taken(r, k)
  BY DEF Taken
<1>3. Edited(r, k) \/ Deleted(r, k) \/ Used(r, k) \/ Claimed(r, k)
  BY <1>1, <1>2 DEF Deleted
<1> QED BY <1>1, <1>3 DEF Console

LEMMA ConsoleCloud ==
    ASSUME Inv, NEW r \in Res, NEW k \in Id, k[1] = r, stack' = stack,
           Edited(r, k) \/ Deleted(r, k) \/ Used(r, k) \/ Claimed(r, k)
    PROVE  cloud' \in [Id -> Thing] /\ CloudInv' /\ touched' \in SUBSET Res
<1>1. cloud[k] \in Thing /\ Sound(k, cloud[k]) /\ touched \in SUBSET Res
  BY DEF Inv, TypeOK, CloudInv
<1>2. CASE Edited(r, k)
  <2> DEFINE t == [cloud[k] EXCEPT !.rev = 3]
  <2>1. t \in Thing /\ t.state = cloud[k].state /\ t.rev = 3 /\ t.ours = cloud[k].ours /\ t.guest = cloud[k].guest
    BY <1>1 DEF Thing
  <2>2. Put(k, t)
    BY <1>2 DEF Edited
  <2> HIDE DEF t
  <2>3. Sound(k, t)
    BY <1>1, <1>2, <2>1, Zenon DEF Sound, Edited
  <2> QED BY <1>1, <1>2, <2>1, <2>2, <2>3, PointPut DEF Edited
<1>3. CASE Deleted(r, k)
  <2>1. \A i \in Id : cloud'[i] \in Thing /\ Sound(i, cloud'[i])
    BY <1>3, AbsentIsSound DEF Deleted, Inv, TypeOK, CloudInv
  <2>2. cloud' \in [Id -> Thing]
    BY <1>3, AbsentIsSound DEF Deleted, Inv, TypeOK
  <2>3. \A i \in Taken(r, k) : i \in Id /\ i[1] \in Res
    <3>1. \A i \in Bound(k) : i \in Id /\ Present(i)
      BY DEF Bound
    <3>2. \A i \in Id : Present(i) => i[1] \in Res
      BY DEF Inv, CloudInv, Sound, Present
    <3> QED BY <3>1, <3>2 DEF Taken
  <2>4. touched' \in SUBSET Res
    BY <1>1, <1>3, <2>3 DEF Deleted
  <2> QED BY <2>1, <2>2, <2>4, CloudFrom
<1>4. CASE Used(r, k)
  <2> DEFINE t == [cloud[k] EXCEPT !.guest = ~@]
  <2>1. t \in Thing /\ t.state = cloud[k].state /\ t.rev = cloud[k].rev /\ t.ours = cloud[k].ours
    BY <1>1 DEF Thing
  <2>2. Put(k, t)
    BY <1>4 DEF Used
  <2> HIDE DEF t
  <2>3. Sound(k, t)
    BY <1>1, <1>4, <2>1, Zenon DEF Sound, Used
  <2> QED BY <1>1, <1>4, <2>1, <2>2, <2>3, PointPut DEF Used
<1>5. CASE Claimed(r, k)
  <2> DEFINE t == [Absent EXCEPT !.state = "ready", !.rev = 3]
  <2>1. t \in Thing /\ t.state = "ready" /\ t.rev = 3 /\ ~t.guest
    <3>1. ASSUME NEW a \in Thing, ~a.guest, NEW b, b = [a EXCEPT !.state = "ready", !.rev = 3]
          PROVE  b \in Thing /\ b.state = "ready" /\ b.rev = 3 /\ ~b.guest
      <4> DEFINE c == [a EXCEPT !.state = "ready"]
      <4>1. c \in Thing /\ c.state = "ready" /\ ~c.guest
        BY <3>1 DEF Thing
      <4>2. b = [c EXCEPT !.rev = 3]
        BY <3>1
      <4> HIDE DEF c
      <4> QED BY <4>1, <4>2 DEF Thing
    <3>2. Absent \in Thing /\ ~Absent.guest
      BY DEF Absent, Thing
    <3> QED BY <3>1, <3>2
  <2>2. Put(k, t) /\ KindOf(r) \in Named /\ KindOf(r) # "Link"
    BY <1>5 DEF Claimed, Named
  <2> HIDE DEF t
  <2>3. Sound(k, t)
    BY <2>1, <2>2 DEF Sound
  <2> QED BY <1>1, <1>5, <2>1, <2>2, <2>3, PointPut DEF Claimed
<1> QED BY <1>2, <1>3, <1>4, <1>5

LEMMA ConsoleInv == ASSUME Inv, Console PROVE Inv'
<1>1. UNCHANGED <<stack, engine, pc>> /\ Counts /\ Upset
  BY ConsoleIs DEF Counts
<1>2. cloud' \in [Id -> Thing] /\ CloudInv' /\ touched' \in SUBSET Res
  BY <1>1, ConsoleIs, ConsoleCloud
<1>3. TypeOK'
  BY <1>1, <1>2, CountsAre, StackStays DEF Inv, TypeOK, engine
<1>4. OrderInv'
  BY <1>1, StackStays DEF Inv, OrderInv, Order, engine, Victim
<1>5. CountInv'
  BY <1>1, CountStays DEF Upset
<1> QED BY <1>1, <1>2, <1>3, <1>4, <1>5, RecordsStay DEF Inv

-----------------------------------------------------------------------------
(* Plans. *)

\* What `read` finds: nothing on record is touched, and what is put on record
\* is there and this stack's.
LEMMA RecoveredIs ==
    ASSUME Inv
    PROVE  /\ Recovered \in [All -> Output \cup {None}]
           /\ \A r \in All :
                \/ Recovered[r] = saved[r]
                \/ /\ r \in Res /\ saved[r] = None /\ Mine(Key(r))
                   /\ Recovered[r] = [at |-> Key(r), rev |-> cloud[Key(r)].rev]
                   /\ Recovered[r].at = Key(r) /\ Recovered[r].rev = cloud[Key(r)].rev
                   /\ Recovered[r] # None
           /\ \A r \in Res : Recovered[r] = None => saved[r] = None /\ ~Mine(Key(r))
<1>1. ASSUME NEW r \in Res, r \in All, saved[r] = None, cloud[Key(r)].ours
      PROVE  Mine(Key(r)) /\ [at |-> Key(r), rev |-> cloud[Key(r)].rev] \in Output
  <2>1. Key(r) \in Id
    BY <1>1, KeyIsId
  <2>2. cloud[Key(r)] \in Thing /\ Sound(Key(r), cloud[Key(r)])
    BY <2>1 DEF Inv, TypeOK, CloudInv
  <2>3. Present(Key(r))
    BY <1>1, <2>2 DEF Sound, Absent, Present
  <2>4. cloud[Key(r)].rev \in 0..3
    BY <2>2 DEF Thing
  <2> QED BY <1>1, <2>1, <2>3, <2>4 DEF Mine, Output
<1>2. saved \in [All -> Output \cup {None}] /\ Res \subseteq All
  BY InvLayout DEF Inv, TypeOK, Layout
<1>3. Recovered \in [All -> Output \cup {None}]
  BY <1>1, <1>2 DEF Recovered
<1>4. ASSUME NEW r \in All
      PROVE  IF r \in Res /\ saved[r] = None /\ cloud[Key(r)].ours
             THEN Recovered[r] = [at |-> Key(r), rev |-> cloud[Key(r)].rev]
             ELSE Recovered[r] = saved[r]
  BY DEF Recovered
<1>5. ASSUME NEW r \in All, Recovered[r] # saved[r]
      PROVE  /\ r \in Res /\ saved[r] = None /\ Mine(Key(r))
             /\ Recovered[r] = [at |-> Key(r), rev |-> cloud[Key(r)].rev]
             /\ Recovered[r].at = Key(r) /\ Recovered[r].rev = cloud[Key(r)].rev
             /\ Recovered[r] # None
  <2>1. r \in Res /\ saved[r] = None /\ cloud[Key(r)].ours /\ Recovered[r] = [at |-> Key(r), rev |-> cloud[Key(r)].rev]
    BY <1>4, <1>5
  <2>2. Mine(Key(r)) /\ Recovered[r] \in Output
    BY <1>1, <1>2, <2>1
  <2> QED BY <2>1, <2>2, NoneAssumption
<1>6. ASSUME NEW r \in Res, Recovered[r] = None
      PROVE  saved[r] = None /\ ~Mine(Key(r))
  <2>1. saved[r] = None
    BY <1>2, <1>5, <1>6
  <2>2. ~cloud[Key(r)].ours
    <3>1. ASSUME cloud[Key(r)].ours PROVE FALSE
      <4>1. Recovered[r] = [at |-> Key(r), rev |-> cloud[Key(r)].rev]
        BY <1>2, <1>4, <2>1, <3>1
      <4>2. Recovered[r] \in Output
        BY <1>1, <1>2, <2>1, <3>1, <4>1
      <4> QED BY <1>6, <4>2, NoneAssumption
    <3> QED BY <3>1
  <2> QED BY <2>1, <2>2 DEF Mine
<1> QED BY <1>3, <1>5, <1>6

LEMMA OutdatedIs ==
    ASSUME NEW s, NEW names, NEW edited \in BOOLEAN
    PROVE  /\ Outdated(s, names, edited) \subseteq Res
           /\ \A p \in Outdated(s, names, edited) \cap Parents :
                /\ s[p] # None /\ outgoing[p] = None
                /\ p \in names \/ (KindOf(p) = "SecurityGroup" /\ ~Present(s[p].at))
           /\ "c" \in Outdated(s, names, edited) =>
                /\ s["c"] # None /\ outgoing["c"] = None
                /\ \A p \in Near : p \notin Outdated(s, names, edited) \cup retire /\ s[p] # None
                /\ s["c"].at # Key("c") \/ (edited /\ KindOf("c") \in Rules)
           /\ ("c" \in Res /\ "c" \notin Outdated(s, names, edited)
               /\ s["c"] # None /\ outgoing["c"] = None
               /\ \A p \in Near : p \notin Outdated(s, names, edited) \cup retire /\ s[p] # None) =>
                s["c"].at = Key("c") /\ ~(edited /\ KindOf("c") \in Rules)
<1> DEFINE parents == { p \in Parents \cap Res :
                          /\ s[p] # None /\ outgoing[p] = None
                          /\ p \in names \/ (KindOf(p) = "SecurityGroup" /\ ~Present(s[p].at)) }
           near == { k[1] : k \in ParentsOf(Key("c")) }
           child == { c \in {"c"} \cap Res :
                        /\ s["c"] # None /\ outgoing["c"] = None
                        /\ near \cap (parents \cup retire) = {} /\ \A p \in near : s[p] # None
                        /\ s["c"].at # Key("c") \/ (edited /\ KindOf(c) \in Rules) }
<1>1. Outdated(s, names, edited) = parents \cup child
  BY Zenon DEF Outdated
<1>2. near = Near
  <2>1. \A p \in near : p \in Near
    BY KeysParents
  <2>2. ASSUME NEW p \in Near PROVE p \in near
    <3>1. Key(p) \in ParentsOf(Key("c")) /\ p \in Parents
      BY KeysParents
    <3>2. Key(p)[1] = p
      BY <3>1 DEF Key
    <3> QED BY <3>1, <3>2
  <2> QED BY <2>1, <2>2
<1>3. Near \subseteq Parents /\ "c" \notin Parents
  BY DEF Near, Parents
<1>4. /\ parents = { p \in Parents \cap Res :
                       /\ s[p] # None /\ outgoing[p] = None
                       /\ p \in names \/ (KindOf(p) = "SecurityGroup" /\ ~Present(s[p].at)) }
      /\ child = { c \in {"c"} \cap Res :
                        /\ s["c"] # None /\ outgoing["c"] = None
                        /\ Near \cap (parents \cup retire) = {} /\ \A p \in Near : s[p] # None
                        /\ s["c"].at # Key("c") \/ (edited /\ KindOf(c) \in Rules) }
  BY <1>2
<1> HIDE DEF parents, near, child
<1>5. \A p \in Near : p \in parents <=> p \in Outdated(s, names, edited)
  BY <1>1, <1>3, <1>4
<1>6. parents \subseteq Parents /\ child \subseteq {"c"}
  BY <1>4
<1>7. "c" \in child <=>
        /\ "c" \in Res /\ s["c"] # None /\ outgoing["c"] = None
        /\ \A p \in Near : p \notin Outdated(s, names, edited) \cup retire /\ s[p] # None
        /\ s["c"].at # Key("c") \/ (edited /\ KindOf("c") \in Rules)
  BY <1>4, <1>5
<1>8. "c" \in Outdated(s, names, edited) <=> "c" \in child
  BY <1>1, <1>3, <1>6
<1>9. \A p \in Outdated(s, names, edited) \cap Parents : p \in parents
  BY <1>1, <1>3, <1>6
<1>10. Outdated(s, names, edited) \subseteq Res
  BY <1>1, <1>4
<1> QED BY <1>4, <1>7, <1>8, <1>9, <1>10

LEMMA PlanPc ==
    ASSUME Inv, AtRest, ~destroying, NEW names, NEW edited, Plan(names, edited)
    PROVE  /\ pc' \in [All -> Step]
           /\ \A r \in Res : /\ pc'[r] \in {"idle", "planned"}
                             /\ pc'[r] = "planned" <=> pc[r] \in {"done", "planned"}
<1>1. pc' \in [All -> Step]
  BY DEF Plan, Inv, TypeOK, Step, Rest
<1>2. ASSUME NEW r \in Res
      PROVE  pc'[r] \in {"idle", "planned"} /\ (pc'[r] = "planned" <=> pc[r] \in {"done", "planned"})
  <2>1. r \in All
    BY InvLayout DEF Layout
  <2>2. pc[r] \in {"idle", "planned", "failed", "done"}
    BY DEF AtRest, Inv, OrderInv, Order, Rest
  <2>3. pc'[r] = IF pc[r] = "failed" THEN "idle" ELSE IF pc[r] = "done" THEN "planned" ELSE pc[r]
    BY <2>1 DEF Plan
  <2> QED BY <2>2, <2>3
<1> QED BY <1>1, <1>2

LEMMA PlanRecords ==
    ASSUME Inv, NEW names \in SUBSET Parents, NEW edited \in BOOLEAN, Plan(names, edited), ~destroying,
           UNCHANGED <<stack, gen, outgoing>>
    PROVE  RecordInv'
<1>0. Res \subseteq All /\ retire' = retire \cup Outdated(Recovered, names, edited) /\ saved' = Recovered
  BY InvLayout DEF Layout, Plan
<1>1. ASSUME NEW p \in Parents \cap Res PROVE ParentRec(p)'
  <2>1. ParentRec(p) /\ p \in All /\ Key(p) = <<p, gen[p]>>
    BY <1>0, KeyIsId DEF Inv, RecordInv
  <2>2. saved'[p] = saved[p] \/ saved'[p].at = Key(p)
    BY <1>0, <2>1, RecoveredIs
  <2>3. p \in retire' => saved'[p] # None /\ outgoing[p] = None
    <3>1. p \in retire => saved'[p] = saved[p] /\ saved[p] # None /\ outgoing[p] = None
      BY <1>0, <2>1, RecoveredIs DEF ParentRec
    <3>2. p \in Outdated(Recovered, names, edited) => Recovered[p] # None /\ outgoing[p] = None
      BY OutdatedIs
    <3> QED BY <1>0, <3>1, <3>2
  <2> QED BY <2>1, <2>2, <2>3 DEF ParentRec
<1>2. ASSUME "c" \in Res PROVE ChildRec'
  <2>1. ChildRec /\ "c" \in All /\ "a" \in All
    BY <1>0, <1>2 DEF Inv, RecordInv, All, Parents
  <2>2. /\ Key("c") \in Id /\ Key("c")[1] = "c" /\ Key("c")[2] = gen["a"]
        /\ stack = "acr" => Key("c")[3] = gen["c"]
    BY <2>1, KeyIsId
  <2>3. gen["c"] <= gen["a"] /\ gen["a"] \in Nat /\ gen["c"] \in Nat
    BY <2>1, GensAre DEF Inv, CountInv
  <2>4. saved'["c"] = saved["c"] \/ saved'["c"].at = Key("c")
    BY <1>0, <2>1, RecoveredIs
  <2>5. saved'["c"] # None => /\ saved'["c"].at[1] = "c" /\ saved'["c"].at[2] <= gen["a"]
                              /\ stack = "acr" => /\ saved'["c"].at[3] = gen["c"]
                                                  /\ saved'["c"].at[3] <= saved'["c"].at[2]
    BY <2>1, <2>2, <2>3, <2>4 DEF ChildRec
  <2>6. CASE "c" \in retire
    <3>1. saved'["c"] = saved["c"]
      BY <1>0, <2>1, <2>6, RecoveredIs DEF ChildRec
    <3> QED BY <2>1, <2>5, <2>6, <3>1 DEF ChildRec
  <2>7. CASE "c" \in Outdated(Recovered, names, edited)
    <3>1. /\ saved'["c"] # None /\ outgoing["c"] = None
          /\ saved'["c"].at # Key("c") \/ KindOf("c") \in Rules
      BY <1>0, <2>7, OutdatedIs
    <3>2. ASSUME stack = "acr" PROVE gen["c"] < gen["a"]
      <4>1. KindOf("c") \notin Rules
        BY <3>2 DEF KindOf, Kinds, Rules
      <4>2. saved'["c"].at \in Id
        BY <1>0, <2>1, <3>1, RecoveredIs DEF Output
      <4>3. saved'["c"].at = <<"c", saved'["c"].at[2], gen["c"]>> /\ saved'["c"].at[2] \in Generation
        BY <2>5, <3>1, <3>2, <4>2, IdCases
      <4>4. Key("c") = <<"c", gen["a"], gen["c"]>>
        BY <2>2, <3>2, IdCases
      <4>5. saved'["c"].at[2] # gen["a"]
        BY <3>1, <4>1, <4>3, <4>4
      <4>6. saved'["c"].at[2] \in Nat
        BY <4>3, BoundAssumption DEF Generation
      <4> QED BY <2>3, <2>5, <3>1, <3>2, <4>5, <4>6
    <3> QED BY <2>1, <2>5, <3>1, <3>2 DEF ChildRec
  <2>8. CASE "c" \notin retire'
    BY <2>1, <2>5, <2>8 DEF ChildRec
  <2> QED BY <1>0, <2>6, <2>7, <2>8
<1> QED BY <1>1, <1>2, StackStays DEF RecordInv

LEMMA PlanInv ==
    ASSUME Inv, NEW names \in SUBSET Parents, NEW edited \in BOOLEAN, Plan(names, edited),
           AtRest, ~destroying, UNCHANGED <<stack, cloud, gen, outgoing, destroying>>, Counts,
           want' \in 1..2,
           \/ names = {} /\ want' = want
           \/ upsets' = upsets + 1
    PROVE  Inv'
<1>0. Res \subseteq All /\ retire' = retire \cup Outdated(Recovered, names, edited) /\ saved' = Recovered
  BY InvLayout DEF Layout, Plan
<1>1. /\ pc' \in [All -> Step]
      /\ \A r \in Res : pc'[r] \in {"idle", "planned"}
  BY PlanPc
<1>2. touched' \in SUBSET Res /\ retire' \in SUBSET Res
  <2>1. touched \in SUBSET Res /\ retire \in SUBSET Res
    BY DEF Inv, TypeOK
  <2> QED BY <1>0, <2>1, OutdatedIs DEF Plan
<1>3. TypeOK'
  BY <1>0, <1>1, <1>2, CountsAre, RecoveredIs, StackStays DEF Inv, TypeOK
<1>4. CloudInv'
  BY StackStays DEF Inv, CloudInv, Sound
<1>5. OrderInv'
  BY <1>1, StackStays DEF OrderInv, Order, Deleting
<1>6. CountInv'
  <2>1. upsets \in Nat /\ (upsets' = upsets \/ upsets' = upsets + 1)
    BY CountsAre
  <2>2. ASSUME NEW p \in Parents
        PROVE  gen'[p] <= upsets' + 1 /\ (Due(p)' => gen'[p] <= upsets')
    <3>1. gen'[p] = gen[p] /\ gen[p] \in Nat /\ p \in All
      BY GensAre DEF All
    <3>2. gen[p] <= upsets + 1 /\ (Due(p) => gen[p] <= upsets)
      BY DEF Inv, CountInv
    <3>3. CASE upsets' = upsets + 1
      BY <2>1, <3>1, <3>2, <3>3
    <3>4. CASE upsets' # upsets + 1
      <4>1. ASSUME Due(p)' PROVE Due(p)
        <5>1. p \in Res /\ ~destroying
          BY <4>1, StackStays DEF Due
        <5>2. CASE p \in retire
          BY <5>1, <5>2 DEF Due
        <5>3. CASE p \notin retire
          <6>1. KindOf(p) = "SecurityGroup" /\ saved'[p] # None /\ ~Present(saved'[p].at)
            <7>1. CASE p \in retire'
              BY <1>0, <3>4, <5>3, <7>1, OutdatedIs
            <7>2. CASE p \notin retire'
              BY <4>1, <7>2, StackStays DEF Due, Present
            <7> QED BY <7>1, <7>2
          <6>2. saved'[p] = saved[p]
            BY <1>0, <3>1, <6>1, RecoveredIs DEF Mine
          <6> QED BY <5>1, <6>1, <6>2 DEF Due
        <5> QED BY <5>2, <5>3
      <4> QED BY <2>1, <3>1, <3>2, <3>4, <4>1
    <3> QED BY <3>3, <3>4
  <2>3. want' <= upsets' + 1
    <3>1. want \in Nat /\ want <= upsets + 1
      BY GensAre DEF Inv, CountInv
    <3> QED BY <2>1, <3>1
  <2> QED BY <2>2, <2>3 DEF Inv, CountInv
<1> QED BY <1>3, <1>4, <1>5, <1>6, PlanRecords DEF Inv

LEMMA RerunInv == ASSUME Inv, Rerun PROVE Inv'
<1>1. CASE ~destroying
  <2>1. /\ Plan({}, FALSE) /\ AtRest /\ UNCHANGED <<stack, cloud, want, gen, outgoing, destroying>> /\ Counts
    BY <1>1 DEF Rerun, Counts, Calm
  <2>2. want' \in 1..2
    BY <2>1 DEF Inv, TypeOK
  <2> QED BY <1>1, <2>1, <2>2, PlanInv
<1>2. CASE destroying
  <2>0. Res \subseteq All
    BY InvLayout DEF Layout
  <2>1. /\ UNCHANGED <<stack, cloud, engine, touched>> /\ Counts
        /\ pc' = [r \in All |-> IF pc[r] = "failed" THEN "idle" ELSE pc[r]]
    BY <1>2 DEF Rerun, Counts, Calm, engine
  <2>2. pc' \in [All -> Step]
    BY <2>1 DEF Inv, TypeOK, Step, Rest
  <2>3. ASSUME NEW r \in Res PROVE Order(r)'
    <3>1. Order(r) /\ pc'[r] = IF pc[r] = "failed" THEN "idle" ELSE pc[r]
      BY <2>0, <2>1 DEF Inv, OrderInv
    <3> QED BY <1>2, <2>1, <3>1 DEF Order, engine, Deleting, Victim
  <2>4. OrderInv'
    BY <2>1, <2>3, StackStays DEF OrderInv
  <2> QED BY <2>1, <2>2, <2>4, QuietSteps
<1> QED BY <1>1, <1>2

LEMMA EditInv ==
    ASSUME Inv, NEW names \in SUBSET (Parents \cap Res), NEW edited \in BOOLEAN, Edit(names, edited)
    PROVE  Inv'
<1>1. /\ Plan(names, edited) /\ AtRest /\ ~destroying /\ UNCHANGED <<stack, cloud, gen, outgoing, destroying>>
      /\ Counts /\ upsets' = upsets + 1
  BY DEF Edit, Counts, Upset
<1>2. want' \in 1..2
  BY DEF Edit, Inv, TypeOK
<1> QED BY <1>1, <1>2, PlanInv

LEMMA DestroyInv == ASSUME Inv, Destroy PROVE Inv'
<1>0. Res \subseteq All
  BY InvLayout DEF Layout
<1>1. /\ UNCHANGED <<stack, cloud, want, gen, outgoing, touched, upsets>>
      /\ destroying' = TRUE /\ saved' = Recovered /\ retire' = {} /\ pc' = [r \in All |-> "idle"]
  BY DEF Destroy
<1>2. TypeOK'
  BY <1>1, RecoveredIs, StackStays DEF Inv, TypeOK, Step, Rest
<1>3. CloudInv'
  BY <1>1, StackStays DEF Inv, CloudInv, Sound
<1>4. OrderInv'
  BY <1>0, <1>1, StackStays DEF OrderInv, Order, Deleting
<1>5. RecordInv'
  <2>1. ASSUME NEW p \in Parents \cap Res PROVE ParentRec(p)'
    <3>1. ParentRec(p) /\ p \in All /\ Key(p) = <<p, gen[p]>>
      BY <1>0, KeyIsId DEF Inv, RecordInv
    <3>2. saved'[p] = saved[p] \/ saved'[p].at = Key(p)
      BY <1>1, <3>1, RecoveredIs
    <3> QED BY <1>1, <3>1, <3>2 DEF ParentRec
  <2>2. ASSUME "c" \in Res PROVE ChildRec'
    <3>1. ChildRec /\ "c" \in All /\ "a" \in All
      BY <1>0, <2>2 DEF Inv, RecordInv, All, Parents
    <3>2. /\ Key("c") \in Id /\ Key("c")[1] = "c" /\ Key("c")[2] = gen["a"]
          /\ stack = "acr" => Key("c")[3] = gen["c"]
      BY <3>1, KeyIsId
    <3>3. gen["c"] <= gen["a"] /\ gen["a"] \in Nat /\ gen["c"] \in Nat
      BY <3>1, GensAre DEF Inv, CountInv
    <3>4. saved'["c"] = saved["c"] \/ saved'["c"].at = Key("c")
      BY <1>1, <3>1, RecoveredIs
    <3> QED BY <1>1, <3>1, <3>2, <3>3, <3>4 DEF ChildRec
  <2> QED BY <1>1, <2>1, <2>2, StackStays DEF RecordInv
<1>6. CountInv'
  <2>1. \A p \in Parents : ~Due(p)'
    BY <1>1 DEF Due
  <2> QED BY <1>1, <2>1 DEF Inv, CountInv
<1> QED BY <1>2, <1>3, <1>4, <1>5, <1>6 DEF Inv

-----------------------------------------------------------------------------
(* The invariant holds.                                                      *)

\* What is not the step of one handler.
Outside ==
    \/ Rerun \/ TaskEnds \/ Console \/ Destroy \/ ProcessDies
    \/ \E names \in SUBSET (Parents \cap Res), edited \in BOOLEAN : Edit(names, edited)

\* Every step is one of the moves.
KnownStep == (\E r \in Res : Known(r) \/ StartDelete(r)) \/ Outside

LEMMA StepIsKnown == ASSUME Inv, Next PROVE KnownStep
BY InvLayout, ProviderIsKnown DEF Next, Handler, Disturbance, KnownStep, Outside, Inv

LEMMA NextInv == ASSUME Inv, Next PROVE Inv'
<1>1. ASSUME NEW r \in Res, Known(r) \/ StartDelete(r) PROVE Inv'
  BY <1>1, ComparedInv, RenewedInv, LookedInv, WorkedInv, ConfirmedInv, DroppedInv, VanishedInv, StartDeleteInv
     DEF Known
<1>2. ASSUME Rerun \/ TaskEnds \/ Console \/ Destroy \/ ProcessDies PROVE Inv'
  BY <1>2, RerunInv, TaskEndsInv, ConsoleInv, DestroyInv, ProcessDiesInv
<1>3. ASSUME NEW names \in SUBSET (Parents \cap Res), NEW edited \in BOOLEAN, Edit(names, edited) PROVE Inv'
  BY <1>3, EditInv
<1> QED BY <1>1, <1>2, <1>3, StepIsKnown DEF KnownStep, Outside

LEMMA StutterInv == ASSUME Inv, UNCHANGED vars PROVE Inv'
<1>1. UNCHANGED <<stack, cloud, engine, touched, pc, upsets>> /\ Counts
  BY DEF vars, Counts, Calm
<1>2. OrderInv'
  BY <1>1, StackStays DEF Inv, OrderInv, Order, engine, Victim
<1> QED BY <1>1, <1>2, QuietSteps DEF Inv, TypeOK

\* What is on record, in the cloud and under way is always in order: a handler
\* runs only when its neighbours let it, and a name of an earlier generation is
\* on record only as one that goes.
THEOREM InvHolds == Spec => []Inv
<1>1. Inv /\ [Next]_vars => Inv'
  BY NextInv, StutterInv
<1> QED BY <1>1, InitInv, PTL DEF Spec

\* The type invariant, whatever is deployed and however often it is disturbed.
THEOREM TypeCorrect == Spec => []TypeOK
<1>1. Inv => TypeOK
  BY DEF Inv
<1> QED BY <1>1, InvHolds, PTL

-----------------------------------------------------------------------------
(* The handlers of one resource leave the others alone.                      *)

LEMMA OthersStay ==
    ASSUME Inv, NEW r \in Res, Known(r) \/ StartDelete(r)
    PROVE  /\ r \in All /\ stack' = stack /\ want' = want /\ destroying' = destroying
           /\ \A s \in All \ {r} :
                /\ pc'[s] = pc[s] /\ saved'[s] = saved[s] /\ outgoing'[s] = outgoing[s] /\ gen'[s] = gen[s]
                /\ (s \in touched' <=> s \in touched) /\ (s \in retire' <=> s \in retire)
           /\ ~Renewed(r) => gen' = gen /\ retire' = retire
           /\ \A i \in Id : i[1] # r =>
                \/ cloud'[i] = cloud[i]
                \/ /\ cloud'[i] = Absent /\ i \in Bound(Doomed(r)) /\ Dropped(r) /\ Removed(r, Doomed(r))
                   /\ KindOf(r) \in {"Database", "SecurityGroup"}
<1>0. r \in All
  BY InvLayout DEF Layout
<1>t. /\ pc \in [All -> Step] /\ saved \in [All -> Output \cup {None}]
      /\ outgoing \in [All -> Output \cup {None}]
  BY DEF Inv, TypeOK
<1>1. CASE Compared(r)
  BY <1>0, <1>1, <1>t DEF Compared, engine, Goto
<1>2. CASE Renewed(r)
  BY <1>0, <1>2, <1>t, RenewedGen DEF Renewed, Goto
<1>3. CASE Looked(r)
  BY <1>0, <1>3, <1>t DEF Looked, Handled, Moves, Quiet, engine, Goto
<1>4. CASE Worked(r)
  <2>1. UNCHANGED <<stack, engine, touched>> /\ \E s \in Step : Goto(r, s)
    BY <1>4 DEF Worked, Handled, Moves, Quiet, Step, Rest
  <2>2. Key(r)[1] = r
    BY <1>0, KeyIsId
  <2>3. \A i \in Id : i[1] # r => cloud'[i] = cloud[i]
    BY <1>4, <2>2, WorkedCloud
  <2> QED BY <1>0, <1>t, <2>1, <2>3 DEF engine, Goto
<1>5. CASE Confirmed(r)
  BY <1>0, <1>5, <1>t DEF Confirmed, Fail, Goto
<1>6. CASE Dropped(r)
  <2>1. UNCHANGED <<stack, engine, touched>> /\ \E s \in Step : Goto(r, s)
    BY <1>6 DEF Dropped, Handled, Moves, Quiet, Step, Rest
  <2>2. Doomed(r)[1] = r
    BY <1>6, DroppedIs DEF Dropped, Deleting
  <2>3. \A i \in Id : i[1] # r =>
          \/ cloud'[i] = cloud[i]
          \/ /\ cloud'[i] = Absent /\ i \in Bound(Doomed(r)) /\ Removed(r, Doomed(r))
             /\ KindOf(r) \in {"Database", "SecurityGroup"}
    BY <1>6, <2>2, DroppedCloud
  <2> QED BY <1>0, <1>6, <1>t, <2>1, <2>3 DEF engine, Goto
<1>7. CASE Vanished(r)
  BY <1>0, <1>7, <1>t DEF Vanished, Fail, Goto
<1>8. CASE StartDelete(r)
  BY <1>0, <1>8, <1>t DEF StartDelete, Quiet, engine, Goto
<1> QED BY <1>1, <1>2, <1>3, <1>4, <1>5, <1>6, <1>7, <1>8 DEF Known

\* A resource that is present was made by this stack, or has a name that could
\* be taken; nobody depends on what is not there.
LEMMA ForeignIs ==
    ASSUME Inv, NEW k \in Id
    PROVE  /\ Present(k) => k[1] \in Res
           /\ Present(k) /\ ~cloud[k].ours => KindOf(k[1]) \in Named /\ cloud[k].state = "ready"
           /\ cloud[k].guest => Present(k) /\ KindOf(k[1]) \in Hosts /\ cloud[k].state = "ready"
           /\ ~Present(k) => cloud[k] = Absent /\ ~cloud[k].ours
           /\ Busy(k) => KindOf(k[1]) \in Slow /\ Present(k)
<1>1. Sound(k, cloud[k])
  BY DEF Inv, CloudInv
<1> QED BY <1>1 DEF Sound, Present, Busy, Absent

LEMMA NamedIsParent ==
    ASSUME Inv, NEW r \in Res, KindOf(r) \in Named \cup Hosts \cup Slow
    PROVE  r \in Parents
BY InvLayout DEF Layout, All, Parents, ChildKinds, Named, Hosts, Slow, Rules

-----------------------------------------------------------------------------
(* Names are taken, tags decide. *)

\* What is tuned is this stack's, is on record, or went away meanwhile.
OwnedInv == \A r \in Res : (KindOf(r) \in Named /\ pc[r] = "tune" /\ Present(Key(r))) => Owned(r)

LEMMA HandledOwned ==
    ASSUME Inv, OwnedInv, NEW r \in Res, Known(r) \/ StartDelete(r)
    PROVE  OwnedInv'
<1>0. r \in All /\ Res \subseteq All /\ stack' = stack
  BY OthersStay, InvLayout DEF Layout
<1>1. ASSUME NEW s \in Res, KindOf(s) \in Named, pc'[s] = "tune", Present(Key(s))'
      PROVE  Owned(s)'
  <2>1. s \in Parents /\ s \in All
    BY <1>0, <1>1, NamedIsParent
  <2>2. Key(s) = <<s, gen[s]>> /\ Key(s)' = <<s, gen'[s]>> /\ Key(s) \in Id
    BY <1>0, <2>1, KeyIsId DEF Key
  <2>3. CASE s # r
    <3>1. pc[s] = "tune" /\ saved'[s] = saved[s] /\ Key(s)' = Key(s)
      BY <1>1, <2>1, <2>2, <2>3, OthersStay
    <3>2. cloud'[Key(s)] = cloud[Key(s)]
      <4>1. Key(s)[1] = s /\ s # "c"
        BY <2>1, <2>2 DEF Parents
      <4> QED BY <2>2, <2>3, <4>1, OthersStay DEF Bound
    <3>3. Owned(s)
      BY <1>1, <3>1, <3>2 DEF OwnedInv, Present
    <3> QED BY <3>1, <3>2, <3>3 DEF Owned
  <2>4. CASE s = r
    <3>1. CASE Looked(r)
      <4>1. UNCHANGED <<cloud, saved, gen>> /\ Owned(r)
        BY <1>1, <2>4, <3>1 DEF Looked, Handled, Quiet, engine
      <4> QED BY <2>2, <2>4, <4>1 DEF Owned
    <3>2. CASE Worked(r)
      <4>1. UNCHANGED <<saved, gen>> /\ Key(r)' = Key(r)
        BY <2>2, <2>4, <3>2 DEF Worked, Handled, Quiet, engine
      <4>2. CASE Unwritten(r)
        <5>1. pc[r] = "tune" /\ UNCHANGED cloud
          BY <1>1, <2>4, <4>2 DEF Unwritten, Named
        <5>2. Owned(r)
          BY <1>1, <2>4, <4>1, <5>1 DEF OwnedInv, Present
        <5> QED BY <2>4, <4>1, <5>1, <5>2 DEF Owned
      <4>3. CASE Created(r)
        BY <2>2, <2>4, <4>1, <4>3 DEF Created, Put, New, Owned, Inv, TypeOK
      <4>4. CASE Tuned(r)
        <5>1. cloud[Key(r)] \in Thing
          BY <2>2, <2>4 DEF Inv, TypeOK
        <5>2. cloud'[Key(r)].ours
          BY <2>2, <2>4, <4>4, <5>1 DEF Tuned, Write, Put, Inv, TypeOK, Thing
        <5> QED BY <2>4, <4>1, <5>2 DEF Owned
      <4>5. CASE Cleared(r)
        BY <1>1, <2>4, <4>5 DEF Cleared, Named
      <4> QED BY <3>2, <4>2, <4>3, <4>4, <4>5 DEF Worked
    <3>3. CASE ~Looked(r) /\ ~Worked(r)
      <4>1. pc'[r] # "tune"
        BY <1>0, <3>3 DEF Known, Compared, Renewed, Confirmed, Dropped, Vanished, StartDelete,
              Handled, Moves, Goto, Fail, Inv, TypeOK
      <4> QED BY <1>1, <2>4, <4>1
    <3> QED BY <3>1, <3>2, <3>3
  <2> QED BY <2>3, <2>4
<1> QED BY <1>0, <1>1, StackStays DEF OwnedInv

LEMMA OutsideOwned ==
    ASSUME Inv, OwnedInv, Outside
    PROVE  OwnedInv'
<1>0. Res \subseteq All
  BY InvLayout DEF Layout
<1>1. CASE Rerun \/ Destroy \/ ProcessDies
           \/ \E names \in SUBSET (Parents \cap Res), edited \in BOOLEAN : Edit(names, edited)
  <2>1. stack' = stack /\ \A r \in Res : pc'[r] # "tune"
    BY <1>0, <1>1 DEF Rerun, Destroy, ProcessDies, Edit, Plan, AtRest, Rest, Quiet
  <2> QED BY <2>1, StackStays DEF OwnedInv
<1>2. CASE TaskEnds
  <2>1. UNCHANGED <<stack, gen, saved, pc>>
    BY <1>2 DEF TaskEnds, engine
  <2>2. ASSUME NEW r \in Res, KindOf(r) \in Named, pc'[r] = "tune", Present(Key(r))' PROVE Owned(r)'
    <3>1. r \in Parents /\ Key(r)' = Key(r) /\ Key(r) \in Id /\ Key(r)[1] = r
      BY <1>0, <2>1, <2>2, NamedIsParent, KeyIsId DEF Key
    <3>2. ~Busy(Key(r))
      BY <2>2, <3>1, SlowIs, ForeignIs
    <3>3. cloud'[Key(r)] = cloud[Key(r)]
      BY <1>2, <3>1, <3>2 DEF TaskEnds, Put, Busy, Inv, TypeOK
    <3> QED BY <2>1, <2>2, <3>1, <3>3 DEF Owned, OwnedInv, Present
  <2> QED BY <2>1, <2>2, StackStays DEF OwnedInv
<1>3. CASE Console
  <2>1. UNCHANGED <<stack, gen, saved, pc>>
    BY <1>3, ConsoleIs DEF engine
  <2>2. PICK q \in Res, k \in Id : k[1] = q /\ (Edited(q, k) \/ Deleted(q, k) \/ Used(q, k) \/ Claimed(q, k))
    BY <1>3, ConsoleIs
  <2>3. ASSUME NEW r \in Res, KindOf(r) \in Named, pc'[r] = "tune", Present(Key(r))' PROVE Owned(r)'
    <3>1. r \in Parents /\ Key(r)' = Key(r) /\ Key(r) \in Id /\ Key(r)[1] = r
      BY <1>0, <2>1, <2>3, NamedIsParent, KeyIsId DEF Key
    <3>2. Present(Key(r)) => Owned(r)
      BY <2>1, <2>3 DEF OwnedInv
    <3>t. cloud \in [Id -> Thing] /\ cloud[k] \in Thing
      BY DEF Inv, TypeOK
    <3>3. CASE Edited(q, k) \/ Used(q, k)
      <4>1. Present(Key(r)) /\ (cloud'[Key(r)].ours <=> cloud[Key(r)].ours)
        BY <2>3, <3>1, <3>3, <3>t DEF Edited, Used, Put, Present, Thing
      <4> QED BY <2>1, <3>1, <3>2, <4>1 DEF Owned
    <3>4. CASE Deleted(q, k)
      <4>1. cloud'[Key(r)] = cloud[Key(r)]
        BY <2>3, <3>1, <3>4 DEF Deleted, Present, Absent
      <4> QED BY <2>1, <2>3, <3>1, <3>2, <4>1 DEF Owned, Present
    <3>5. CASE Claimed(q, k)
      <4>1. k # Key(r)
        BY <2>1, <2>2, <2>3, <3>1, <3>5 DEF Claimed
      <4>2. cloud'[Key(r)] = cloud[Key(r)]
        BY <3>1, <3>5, <3>t, <4>1 DEF Claimed, Put
      <4> QED BY <2>1, <2>3, <3>1, <3>2, <4>2 DEF Owned, Present
    <3> QED BY <2>2, <3>3, <3>4, <3>5
  <2> QED BY <2>1, <2>3, StackStays DEF OwnedInv
<1> QED BY <1>1, <1>2, <1>3 DEF Outside

\* What a step leaves to another owner.
Spared(k) ==
    /\ (Present(k) /\ ~cloud[k].ours /\ k \notin {s.at : s \in Kept}) => cloud'[k] = cloud[k]
    /\ cloud[k].guest => cloud'[k].guest

LEMMA SameIsSpared == ASSUME NEW k, cloud'[k] = cloud[k] PROVE Spared(k)
BY DEF Spared

LEMMA WorkedSpares ==
    ASSUME Inv, OwnedInv, NEW r \in Res, Worked(r), NEW k \in Id
    PROVE  Spared(k)
<1>0. r \in All /\ Key(r) \in Id /\ Key(r)[1] = r
  BY InvLayout, KeyIsId DEF Layout
<1>t. cloud \in [Id -> Thing] /\ cloud[Key(r)] \in Thing
  BY <1>0 DEF Inv, TypeOK
<1>1. CASE k # Key(r)
  BY <1>1, WorkedCloud, SameIsSpared
<1>2. CASE k = Key(r)
  <2>1. CASE Unwritten(r)
    BY <2>1, SameIsSpared DEF Unwritten
  <2>2. CASE Created(r)
    <3>1. KindOf(r) \in Covered => KindOf(r) \notin Named \cup Hosts
      BY DEF Covered, Named, Hosts, Rules
    <3> QED BY <1>0, <1>2, <2>2, <3>1, ForeignIs DEF Created, Spared
  <2>3. CASE Tuned(r)
    <3>1. cloud[k].guest => cloud'[k].guest
      BY <1>t, <1>2, <2>3 DEF Tuned, Write, Put, Thing
    <3>2. ASSUME Present(k), ~cloud[k].ours PROVE k \in {s.at : s \in Kept}
      <4>1. KindOf(r) \in Named /\ r \in Parents
        BY <1>0, <1>2, <3>2, ForeignIs, NamedIsParent
      <4>2. Owned(r)
        BY <1>2, <2>3, <3>2, <4>1 DEF OwnedInv, Tuned
      <4>3. saved[r] # None
        BY <1>2, <3>2, <4>2 DEF Owned
      <4>4. saved[r].at = Key(r)
        BY <1>0, <4>1, <4>3, KeyIsId DEF Inv, RecordInv, ParentRec
      <4> QED BY <1>2, <4>3, <4>4 DEF Kept
    <3> QED BY <3>1, <3>2 DEF Spared
  <2>4. CASE Cleared(r)
    <3>1. KindOf(r) \notin Named \cup Hosts
      BY <2>4 DEF Cleared, Named, Hosts
    <3> QED BY <1>0, <1>2, <3>1, ForeignIs DEF Spared
  <2> QED BY <2>1, <2>2, <2>3, <2>4 DEF Worked
<1> QED BY <1>1, <1>2

LEMMA DroppedSpares ==
    ASSUME Inv, NEW r \in Res, Dropped(r), NEW k \in Id
    PROVE  Spared(k)
<1>0. r \in All /\ Victim(r) # None /\ Doomed(r) \in Id /\ Doomed(r)[1] = r
  BY DroppedIs DEF Dropped, Deleting
<1>t. cloud \in [Id -> Thing] /\ cloud[Doomed(r)] \in Thing
  BY <1>0 DEF Inv, TypeOK
<1>1. CASE k # Doomed(r)
  <2>1. CASE cloud'[k] = cloud[k]
    BY <2>1, SameIsSpared
  <2>2. CASE k \in Bound(Doomed(r))
    <3>1. k[1] = "c" /\ Present(k)
      BY <2>2 DEF Bound
    <3>2. "c" \in Res /\ KindOf("c") \notin Named \cup Hosts
      BY <3>1, ForeignIs, NamedIsParent DEF Parents
    <3> QED BY <3>1, <3>2, ForeignIs DEF Spared
  <2> QED BY <1>1, <2>1, <2>2, DroppedCloud
<1>2. CASE k = Doomed(r)
  <2>1. Victim(r) \in Kept
    BY <1>0 DEF Kept, Victim
  <2>2. k \in {s.at : s \in Kept}
    BY <1>2, <2>1 DEF Doomed
  <2>3. ASSUME cloud[k].guest PROVE cloud'[k].guest
    <3>1. KindOf(r) # "TairIpGroup"
      BY <1>0, <1>2, <2>3, ForeignIs DEF Hosts
    <3>2. ~Removed(r, k) /\ ~Emptied(r, k)
      BY <2>3, <3>1 DEF Removed, Emptied, Needed
    <3>3. UNCHANGED cloud \/ Pruned(r, k)
      BY <1>2, <3>2 DEF Dropped
    <3> QED BY <1>2, <1>t, <2>3, <3>3 DEF Pruned, Put, Thing
  <2> QED BY <2>2, <2>3 DEF Spared
<1> QED BY <1>1, <1>2

LEMMA TaskEndsSpares == ASSUME Inv, TaskEnds, NEW k \in Id PROVE Spared(k)
<1>1. CASE Busy(k)
  BY <1>1, ForeignIs DEF Spared, Busy
<1>2. CASE ~Busy(k)
  <2>1. cloud'[k] = cloud[k]
    BY <1>2 DEF TaskEnds, Put, Busy, Inv, TypeOK
  <2> QED BY <2>1, SameIsSpared
<1> QED BY <1>1, <1>2

\* What another owner has under a name of this stack, and what others made
\* depend on a resource of it, stays, whatever the handlers do and wherever
\* they fail.
THEOREM OthersAreKept == Spec => OthersKept
<1>1. ASSUME Inv, OwnedInv, [Next]_vars, ~Console, NEW k \in Id PROVE Spared(k)
  <2>1. ASSUME NEW r \in Res, Known(r) \/ StartDelete(r) PROVE Spared(k)
    <3>1. CASE Worked(r)
      BY <1>1, <3>1, WorkedSpares
    <3>2. CASE Dropped(r)
      BY <1>1, <3>2, DroppedSpares
    <3>3. CASE ~Worked(r) /\ ~Dropped(r)
      <4>1. UNCHANGED cloud
        BY <2>1, <3>3 DEF Known, Compared, Renewed, Looked, Confirmed, Vanished, StartDelete
      <4> QED BY <4>1, SameIsSpared
    <3> QED BY <3>1, <3>2, <3>3
  <2>2. CASE TaskEnds
    BY <1>1, <2>2, TaskEndsSpares
  <2>3. CASE UNCHANGED vars \/ Rerun \/ Destroy \/ ProcessDies
             \/ \E names \in SUBSET (Parents \cap Res), edited \in BOOLEAN : Edit(names, edited)
    <3>1. UNCHANGED cloud
      BY <2>3 DEF vars, Rerun, Destroy, ProcessDies, Edit
    <3> QED BY <3>1, SameIsSpared
  <2> QED BY <1>1, <2>1, <2>2, <2>3, StepIsKnown DEF KnownStep, Outside
<1>2. Inv /\ OwnedInv /\ [Next]_vars =>
        [\A k \in Id : ~Console =>
           /\ (Present(k) /\ ~cloud[k].ours /\ k \notin {s.at : s \in Kept}) => cloud'[k] = cloud[k]
           /\ cloud[k].guest => cloud'[k].guest]_vars
  BY <1>1 DEF Spared
<1>3. Init => OwnedInv
  <2>1. ASSUME Init PROVE OwnedInv
    <3>1. Inv /\ \A r \in All : pc[r] = "idle"
      BY <2>1, InitInv DEF Init
    <3> QED BY <3>1, InvLayout DEF OwnedInv, Layout
  <2> QED BY <2>1
<1>4. Inv /\ OwnedInv /\ [Next]_vars => OwnedInv'
  <2>1. ASSUME Inv, OwnedInv, UNCHANGED vars PROVE OwnedInv'
    <3>1. UNCHANGED <<stack, cloud, saved, gen, want, pc>>
      BY <2>1 DEF vars, engine
    <3>2. \A r : Key(r)' = Key(r)
      BY <3>1, StackStays DEF Key
    <3> QED BY <2>1, <3>1, <3>2, StackStays DEF OwnedInv, Owned, Present
  <2>2. ASSUME Inv, OwnedInv, KnownStep PROVE OwnedInv'
    BY <2>2, HandledOwned, OutsideOwned DEF KnownStep
  <2> QED BY <2>1, <2>2, StepIsKnown
<1> QED BY <1>2, <1>3, <1>4, InvHolds, PTL DEF Spec, OthersKept

-----------------------------------------------------------------------------
(* What is done is on record, and a child follows its parents.               *)

DoneKept ==
    \A r \in Res : (pc[r] \in {"done", "planned"} \/ (~destroying /\ pc[r] \in Deleting)) => saved[r] # None
NearInv == ("c" \in Res /\ ~destroying) => \A p \in Near :
    /\ pc["c"] \in Working => pc[p] = "done"
    /\ pc["c"] = "done" => pc[p] \in {"done", "failed"} \cup Deleting
DoneOrder == DoneKept /\ NearInv

\* How the handlers of a resource move its step.
LEMMA KnownSteps ==
    ASSUME Inv, NEW r \in Res, Known(r) \/ StartDelete(r)
    PROVE  /\ Compared(r) => /\ pc[r] \in {"idle", "planned"} /\ pc'[r] \in {"look", "done"}
                             /\ pc'[r] = "done" => pc[r] = "planned"
                             /\ saved' = saved /\ cloud' = cloud
           /\ Renewed(r) => pc[r] \in {"idle", "planned"} /\ pc'[r] = "look" /\ saved'[r] = None /\ cloud' = cloud
           /\ Looked(r) => pc[r] = "look" /\ pc'[r] \in Working \cup {"failed"} /\ saved' = saved /\ cloud' = cloud
           /\ Worked(r) => pc[r] \in Working /\ pc'[r] \in Working \cup {"failed"} /\ saved' = saved
           /\ Confirmed(r) => /\ pc[r] = "confirm" /\ pc'[r] \in {"done", "failed"} /\ cloud' = cloud
                              /\ pc'[r] = "done" =>
                                   /\ saved'[r] # None /\ saved'[r].at = Key(r) /\ saved'[r].rev = Wanted(r)
                                   /\ cloud[Key(r)].state = "ready"
                                   /\ Fits(r) \/ KindOf(r) \in Secret \cup {"Link"}
                                   /\ touched' = IF Fits(r) THEN touched \ {r} ELSE touched
                              /\ pc'[r] # "done" => saved' = saved /\ touched' = touched
           /\ Dropped(r) => pc[r] \in Deleting /\ pc'[r] \in Deleting \cup {"failed"} /\ saved' = saved
           /\ Vanished(r) => /\ pc[r] \in Deleting /\ pc'[r] \in {"done", "failed", "idle", "gone"} /\ cloud' = cloud
                             /\ ~destroying => saved' = saved /\ pc'[r] \in {"done", "failed"}
                             /\ destroying => pc'[r] # "done"
           /\ StartDelete(r) => /\ pc'[r] \in {"dRead", "gone"} /\ saved' = saved /\ cloud' = cloud
                                /\ ~destroying => pc'[r] = "dRead" /\ AllDone
           /\ ~Confirmed(r) => touched' = touched
<1>0. r \in All /\ pc \in [All -> Step] /\ saved \in [All -> Output \cup {None}]
  BY InvLayout DEF Layout, Inv, TypeOK
<1>1. \A s : Goto(r, s) => pc'[r] = s
  BY <1>0 DEF Goto
<1>2. Compared(r) => /\ pc[r] \in {"idle", "planned"} /\ pc'[r] \in {"look", "done"}
                     /\ pc'[r] = "done" => pc[r] = "planned"
                     /\ saved' = saved /\ cloud' = cloud
  BY <1>1 DEF Compared, Begins, engine
<1>3. Renewed(r) => pc[r] \in {"idle", "planned"} /\ pc'[r] = "look" /\ saved'[r] = None /\ cloud' = cloud
  BY <1>0, <1>1 DEF Renewed, Begins
<1>4. Looked(r) => pc[r] = "look" /\ pc'[r] \in Working \cup {"failed"} /\ saved' = saved /\ cloud' = cloud
  BY <1>1 DEF Looked, Handled, Moves, Quiet, engine, Working
<1>5. Worked(r) => pc[r] \in Working /\ pc'[r] \in Working \cup {"failed"} /\ saved' = saved
  BY <1>1 DEF Worked, Handled, Moves, Quiet, engine, Working
<1>6. ASSUME Confirmed(r)
      PROVE  /\ pc[r] = "confirm" /\ pc'[r] \in {"done", "failed"} /\ cloud' = cloud
             /\ pc'[r] = "done" =>
                  /\ saved'[r] # None /\ saved'[r].at = Key(r) /\ saved'[r].rev = Wanted(r)
                  /\ cloud[Key(r)].state = "ready"
                  /\ Fits(r) \/ KindOf(r) \in Secret \cup {"Link"}
                  /\ touched' = IF Fits(r) THEN touched \ {r} ELSE touched
             /\ pc'[r] # "done" => saved' = saved /\ touched' = touched
  <2> DEFINE o == [at |-> Key(r), rev |-> Wanted(r)]
  <2>1. o \in Output /\ o.at = Key(r) /\ o.rev = Wanted(r)
    BY <1>0, KeyIsId, WantedIs DEF Output
  <2>2. o # None
    BY <2>1, NoneAssumption
  <2>3. CASE Fail(r) /\ UNCHANGED <<saved, touched>>
    BY <1>1, <1>6, <2>3 DEF Confirmed, Fail
  <2>4. CASE /\ Goto(r, "done") /\ cloud[Key(r)].state = "ready"
             /\ Fits(r) \/ KindOf(r) \in Secret \cup {"Link"}
             /\ saved' = [saved EXCEPT ![r] = o]
             /\ touched' = IF Fits(r) THEN touched \ {r} ELSE touched
    <3> HIDE DEF o
    <3> QED BY <1>0, <1>1, <1>6, <2>1, <2>2, <2>4 DEF Confirmed
  <2> QED BY <1>6, <2>3, <2>4 DEF Confirmed
<1>7. Dropped(r) => pc[r] \in Deleting /\ pc'[r] \in Deleting \cup {"failed"} /\ saved' = saved
  BY <1>1 DEF Dropped, Handled, Moves, Quiet, engine, Deleting
<1>8. ASSUME Vanished(r)
      PROVE  /\ pc[r] \in Deleting /\ pc'[r] \in {"done", "failed", "idle", "gone"} /\ cloud' = cloud
             /\ ~destroying => saved' = saved /\ pc'[r] \in {"done", "failed"}
             /\ destroying => pc'[r] # "done"
  <2>1. ~destroying => outgoing[r] # None
    BY <1>8, DroppedIs DEF Vanished, Deleting
  <2> QED BY <1>1, <1>8, <2>1 DEF Vanished, Deleting, Fail
<1>9. ASSUME StartDelete(r)
      PROVE  /\ pc'[r] \in {"dRead", "gone"} /\ saved' = saved /\ cloud' = cloud
             /\ ~destroying => pc'[r] = "dRead" /\ AllDone
  BY <1>1, <1>9 DEF StartDelete, Quiet, engine, Victim
<1>10. ~Confirmed(r) => touched' = touched
  BY DEF Known, Compared, Renewed, Looked, Worked, Dropped, Vanished, StartDelete, Handled, Quiet
<1> QED BY <1>2, <1>3, <1>4, <1>5, <1>6, <1>7, <1>8, <1>9, <1>10

LEMMA HandledDone ==
    ASSUME Inv, DoneOrder, NEW r \in Res, Known(r) \/ StartDelete(r)
    PROVE  DoneOrder'
<1>0. r \in All /\ Res \subseteq All /\ stack' = stack /\ destroying' = destroying
  BY OthersStay, InvLayout DEF Layout
<1>1. ASSUME NEW s \in Res, pc'[s] \in {"done", "planned"} \/ (~destroying /\ pc'[s] \in Deleting)
      PROVE  saved'[s] # None
  <2>1. CASE s # r
    BY <1>0, <1>1, <2>1, OthersStay DEF DoneOrder, DoneKept
  <2>2. CASE s = r
    <3>1. CASE Compared(r) \/ Renewed(r) \/ Looked(r) \/ Worked(r) \/ Confirmed(r)
      BY <1>1, <2>2, <3>1, KnownSteps DEF DoneOrder, DoneKept, Working, Deleting
    <3>2. CASE Dropped(r) \/ Vanished(r) \/ StartDelete(r)
      BY <1>1, <2>2, <3>2, KnownSteps DEF DoneOrder, DoneKept, Deleting, AllDone
    <3> QED BY <3>1, <3>2 DEF Known
  <2> QED BY <2>1, <2>2
<1>2. ASSUME "c" \in Res, ~destroying, NEW p \in Near
      PROVE  /\ pc'["c"] \in Working => pc'[p] = "done"
             /\ pc'["c"] = "done" => pc'[p] \in {"done", "failed"} \cup Deleting
  <2>0. /\ p \in All /\ "c" \in All /\ p # "c"
        /\ p \in Res
        /\ pc["c"] \in Working => pc[p] = "done"
        /\ pc["c"] = "done" => pc[p] \in {"done", "failed"} \cup Deleting
    BY <1>2, InvLayout DEF DoneOrder, NearInv, Near, All, Parents, Layout
  <2>1. CASE r # "c" /\ r # p
    BY <1>0, <2>0, <2>1, OthersStay
  <2>2. CASE r = p
    <3>1. pc'["c"] = pc["c"]
      BY <1>0, <2>0, <2>2, OthersStay
    <3>2. CASE StartDelete(r)
      BY <1>2, <2>0, <2>2, <3>1, <3>2, KnownSteps DEF AllDone, Working, Deleting
    <3>3. CASE Compared(r) \/ Renewed(r) \/ Looked(r) \/ Worked(r) \/ Confirmed(r)
      BY <2>0, <2>2, <3>1, <3>3, KnownSteps DEF Working, Deleting
    <3>4. CASE Dropped(r) \/ Vanished(r)
      BY <1>2, <2>0, <2>2, <3>1, <3>4, KnownSteps DEF Working, Deleting
    <3> QED BY <3>2, <3>3, <3>4 DEF Known
  <2>3. CASE r = "c"
    <3>1. pc'[p] = pc[p]
      BY <1>0, <2>0, <2>3, OthersStay
    <3>2. CASE Compared(r) \/ Renewed(r)
      <4>1. pc[p] = "done"
        BY <1>2, <2>3, <3>2, KeysParents DEF Compared, Renewed, Begins, Nears, Key, Parents
      <4> QED BY <3>1, <4>1
    <3>3. CASE Looked(r) \/ Worked(r) \/ Confirmed(r)
      BY <2>0, <2>3, <3>1, <3>3, KnownSteps DEF Working
    <3>4. CASE Dropped(r) \/ Vanished(r)
      <4>1. pc[p] = "done"
        BY <1>2, <2>0, <2>3, <3>4, DroppedIs DEF Dropped, Vanished, Deleting
      <4> QED BY <3>1, <4>1
    <3>5. CASE StartDelete(r)
      BY <1>2, <2>3, <3>5, KnownSteps DEF Working
    <3> QED BY <3>2, <3>3, <3>4, <3>5 DEF Known
  <2> QED BY <2>1, <2>2, <2>3
<1>3. Near' = Near /\ Res' = Res
  BY <1>0, StackStays DEF Near
<1> QED BY <1>0, <1>1, <1>2, <1>3 DEF DoneOrder, DoneKept, NearInv

LEMMA OutsideDone ==
    ASSUME Inv, DoneOrder, Outside
    PROVE  DoneOrder'
<1>0. Res \subseteq All
  BY InvLayout DEF Layout
<1>1. CASE ~destroying /\ \E names, edited : Plan(names, edited) /\ AtRest
                                          /\ UNCHANGED <<stack, destroying>>
  <2>1. PICK names, edited : Plan(names, edited) /\ AtRest /\ UNCHANGED <<stack, destroying>>
    BY <1>1
  <2>2. \A r \in Res : /\ pc'[r] \in {"idle", "planned"}
                       /\ pc'[r] = "planned" <=> pc[r] \in {"done", "planned"}
    BY <1>1, <2>1, PlanPc
  <2>3. \A r \in Res : saved[r] # None => saved'[r] # None
    BY <1>0, <2>1, RecoveredIs DEF Plan
  <2>4. Near' = Near /\ Res' = Res
    BY <2>1, StackStays DEF Near
  <2> QED BY <2>1, <2>2, <2>3, <2>4 DEF DoneOrder, DoneKept, NearInv, Working, Deleting
<1>2. CASE destroying' /\ stack' = stack /\ \A r \in Res : pc'[r] \notin {"done", "planned"}
  BY <1>2, StackStays DEF DoneOrder, DoneKept, NearInv
<1>3. CASE UNCHANGED <<stack, engine, pc>>
  BY <1>3, StackStays DEF DoneOrder, DoneKept, NearInv, engine, Near
<1>4. CASE ProcessDies
  <2>1. UNCHANGED <<stack, engine>> /\ \A s \in Res : (pc'[s] = pc[s] /\ pc[s] \in Rest) \/ pc'[s] = "failed"
    BY <1>0, <1>4 DEF ProcessDies, Quiet
  <2>2. Near' = Near /\ Res' = Res
    BY <2>1, StackStays DEF Near
  <2>3. "c" \in Res => Near \subseteq Res
    BY InvLayout DEF Near, Layout, Parents
  <2> QED BY <2>1, <2>2, <2>3 DEF DoneOrder, DoneKept, NearInv, engine, Rest, Working, Deleting
<1>5. CASE Destroy
  BY <1>0, <1>2, <1>5 DEF Destroy
<1>6. CASE Rerun /\ destroying
  <2>1. /\ stack' = stack /\ destroying'
        /\ \A r \in Res : pc'[r] = IF pc[r] = "failed" THEN "idle" ELSE pc[r]
    BY <1>0, <1>6 DEF Rerun
  <2>2. \A r \in Res : pc[r] \notin {"done", "planned"}
    BY <1>6 DEF Inv, OrderInv, Order, Deleting
  <2> QED BY <1>2, <2>1, <2>2
<1>7. CASE Rerun /\ ~destroying
  BY <1>1, <1>7 DEF Rerun
<1>8. ASSUME NEW names \in SUBSET (Parents \cap Res), NEW edited \in BOOLEAN, Edit(names, edited)
      PROVE  DoneOrder'
  BY <1>1, <1>8 DEF Edit
<1>9. CASE TaskEnds \/ Console
  BY <1>3, <1>9 DEF TaskEnds, Console
<1> QED BY <1>4, <1>5, <1>6, <1>7, <1>8, <1>9 DEF Outside

-----------------------------------------------------------------------------
(* A child has its parents.                                                  *)

\* On record, as it is or as what it replaced.
Holds(k) ==
    \/ saved[k[1]] # None /\ saved[k[1]].at = k
    \/ outgoing[k[1]] # None /\ outgoing[k[1]].at = k
GroundInv == \A t \in Id : (t[1] = "c" /\ Present(t)) =>
    \A k \in ParentsOf(t) : cloud[k].state = "ready" /\ Holds(k)

LEMMA NearKinds ==
    ASSUME Inv, "c" \in Res, NEW p \in Near
    PROVE  /\ p \in Parents /\ p \in Res /\ p \in All /\ p # "c"
           /\ KindOf(p) \in {"Role", "Account", "Policy", "Database", "Namespace", "SecurityGroup"}
BY InvLayout DEF Layout, Near, Parents, All

\* What a handler at work makes of its resource.
LEMMA WorkedIs ==
    ASSUME Inv, NEW r \in Res, Worked(r)
    PROVE  \/ cloud'[Key(r)] = cloud[Key(r)]
           \/ Created(r) /\ cloud'[Key(r)] = New(r)
           \/ /\ Tuned(r) /\ cloud[Key(r)].state = "ready"
              /\ cloud'[Key(r)].state = "ready" /\ cloud'[Key(r)].rev = Wanted(r)
              /\ cloud'[Key(r)].ours
           \/ Cleared(r) /\ cloud'[Key(r)] = Absent
<1>0. Key(r) \in Id /\ cloud \in [Id -> Thing] /\ cloud[Key(r)] \in Thing
  BY InvLayout, KeyIsId DEF Layout, Inv, TypeOK
<1>1. CASE Unwritten(r)
  BY <1>1 DEF Unwritten
<1>2. CASE Created(r)
  BY <1>0, <1>2 DEF Created, Put
<1>3. CASE Tuned(r)
  <2> DEFINE w == [cloud[Key(r)] EXCEPT !.rev = Wanted(r), !.ours = TRUE, !.spare = @ \/ KindOf(r) = "Policy"]
  <2>1. w.state = cloud[Key(r)].state /\ w.rev = Wanted(r) /\ w.ours
    BY <1>0 DEF Thing
  <2>2. cloud'[Key(r)] = w /\ cloud[Key(r)].state = "ready"
    BY <1>0, <1>3 DEF Tuned, Write, Put
  <2> HIDE DEF w
  <2> QED BY <1>3, <2>1, <2>2
<1>4. CASE Cleared(r)
  BY <1>0, <1>4 DEF Cleared, Put
<1> QED BY <1>1, <1>2, <1>3, <1>4 DEF Worked

\* A deletion makes nothing.
LEMMA DroppedLess ==
    ASSUME Inv, NEW r \in Res, Dropped(r), NEW i \in Id
    PROVE  /\ Present(i)' => Present(i)
           /\ cloud'[i].ours => cloud[i].ours
           /\ ~Removed(r, Doomed(r)) => cloud'[i].state = cloud[i].state
           /\ ~Removed(r, Doomed(r)) /\ ~Emptied(r, Doomed(r)) => cloud'[i].rev = cloud[i].rev
<1>0. r \in All /\ Doomed(r) \in Id /\ Doomed(r)[1] = r /\ stack' = stack
  BY DroppedIs DEF Dropped, Deleting, Handled, Quiet
<1>t. cloud \in [Id -> Thing] /\ cloud[Doomed(r)] \in Thing
  BY <1>0 DEF Inv, TypeOK
<1>1. CASE UNCHANGED cloud
  BY <1>1 DEF Present
<1>2. CASE Pruned(r, Doomed(r))
  BY <1>t, <1>2 DEF Pruned, Put, Thing, Present
<1>3. CASE Emptied(r, Doomed(r))
  BY <1>t, <1>3 DEF Emptied, Put, Thing, Present
<1>4. CASE Removed(r, Doomed(r))
  <2>1. CASE i = Doomed(r)
    <3>1. cloud[i].state = "ready"
      BY <1>4, <2>1 DEF Removed
    <3>2. cloud'[i].ours \in {cloud[i].ours, FALSE}
      BY <1>0, <1>4, <2>1, RemovedCloud
    <3> QED BY <1>4, <3>1, <3>2 DEF Present
  <2>2. CASE i # Doomed(r)
    <3>1. cloud'[i] = cloud[i] \/ cloud'[i] = Absent
      BY <1>0, <1>4, <2>2, RemovedCloud
    <3> QED BY <1>4, <3>1 DEF Present, Absent
  <2> QED BY <2>1, <2>2
<1> QED BY <1>1, <1>2, <1>3, <1>4 DEF Dropped

\* A parent of a child that stays, stays.
LEMMA NearStays ==
    ASSUME Inv, DoneOrder, GroundInv, NEW r \in Res, Known(r) \/ StartDelete(r),
           NEW t \in Id, t[1] = "c", Present(t), Present(t)', NEW k \in ParentsOf(t)
    PROVE  cloud'[k].state = "ready" /\ Holds(k)'
<1>0. /\ r \in All /\ k \in Id /\ k[1] \in Near /\ t \in Bound(k)
      /\ cloud[k].state = "ready" /\ Holds(k) /\ "c" \in Res
  BY OthersStay, ParentsAre, ForeignIs DEF GroundInv, Near, Parents, Bound
<1>1. /\ k[1] \in Parents /\ k[1] \in Res /\ k[1] \in All /\ k[1] # "c"
      /\ KindOf(k[1]) \in {"Role", "Account", "Policy", "Database", "Namespace", "SecurityGroup"}
      /\ ParentRec(k[1]) /\ Key(k[1]) = <<k[1], gen[k[1]]>> /\ Key(k[1]) \in Id
  BY <1>0, NearKinds, KeyIsId DEF Inv, RecordInv
<1>t. /\ saved \in [All -> Output \cup {None}]
      /\ outgoing \in [All -> Output \cup {None}]
  BY DEF Inv, TypeOK
<1>2. CASE r # k[1]
  <2>1. k \notin Bound(Doomed(r))
    BY <1>1 DEF Bound
  <2>2. cloud'[k] = cloud[k] /\ saved'[k[1]] = saved[k[1]] /\ outgoing'[k[1]] = outgoing[k[1]]
    BY <1>0, <1>1, <1>2, <2>1, OthersStay
  <2> QED BY <1>0, <2>2 DEF Holds
<1>3. CASE r = k[1] /\ (Compared(r) \/ Looked(r) \/ StartDelete(r))
  <2>1. UNCHANGED <<cloud, saved, outgoing>>
    BY <1>3 DEF Compared, Looked, Handled, StartDelete, Quiet, engine
  <2> QED BY <1>0, <2>1 DEF Holds
<1>4. CASE r = k[1] /\ Renewed(r)
  <2>1. UNCHANGED cloud /\ outgoing'[r] = saved[r] /\ outgoing[r] = None
    BY <1>0, <1>1, <1>4, <1>t DEF Renewed, ParentRec
  <2> QED BY <1>0, <1>4, <2>1 DEF Holds
<1>5. CASE r = k[1] /\ Worked(r)
  <2>1. UNCHANGED <<saved, outgoing>>
    BY <1>5 DEF Worked, Handled, Quiet, engine
  <2>2. cloud'[k].state = "ready"
    <3>1. CASE k # Key(r)
      BY <1>0, <1>5, <3>1, WorkedCloud
    <3>2. CASE k = Key(r)
      <4>1. ~Created(r) /\ ~Cleared(r)
        BY <1>0, <1>1, <1>5, <3>2 DEF Created, Cleared, Present, Covered, Rules
      <4> QED BY <1>0, <1>5, <3>2, <4>1, WorkedIs
    <3> QED BY <3>1, <3>2
  <2> QED BY <1>0, <2>1, <2>2 DEF Holds
<1>6. CASE r = k[1] /\ Confirmed(r)
  <2>1. UNCHANGED <<cloud, outgoing>>
    BY <1>6 DEF Confirmed
  <2>2. saved'[r] = saved[r] \/ (saved'[r] # None /\ saved'[r].at = Key(r))
    BY <1>0, <1>6, KnownSteps
  <2> QED BY <1>0, <1>1, <1>6, <2>1, <2>2 DEF Holds, ParentRec
<1>7. CASE r = k[1] /\ Dropped(r)
  <2>1. UNCHANGED <<saved, outgoing>>
    BY <1>7 DEF Dropped, Handled, Quiet, engine
  <2>2. cloud'[k].state = "ready"
    <3>1. CASE ~Removed(r, Doomed(r))
      BY <1>0, <1>7, <3>1, DroppedLess
    <3>2. CASE Removed(r, Doomed(r)) /\ k # Doomed(r)
      <4>1. k \notin Bound(Doomed(r))
        BY <1>1 DEF Bound
      <4> QED BY <1>0, <1>7, <3>2, <4>1, DroppedCloud
    <3>3. CASE Removed(r, Doomed(r)) /\ k = Doomed(r)
      <4>1. KindOf(r) \in {"Database", "SecurityGroup"}
        BY <1>0, <1>1, <1>7, <3>3 DEF Removed, Needed
      <4>2. cloud'[t] = Absent
        BY <1>0, <1>1, <3>3, <4>1 DEF Removed, Remove
      <4> QED BY <4>2 DEF Present, Absent
    <3> QED BY <3>1, <3>2, <3>3
  <2> QED BY <1>0, <2>1, <2>2 DEF Holds
<1>8. CASE r = k[1] /\ Vanished(r)
  <2>1. UNCHANGED cloud /\ Present(k)
    BY <1>0, <1>8 DEF Vanished, Present
  <2>2. Holds(k)'
    <3>1. CASE UNCHANGED <<saved, outgoing>>
      BY <1>0, <3>1 DEF Holds
    <3>2. CASE ~Present(Doomed(r)) /\ outgoing[r] # None /\ outgoing' = [outgoing EXCEPT ![r] = None] /\ UNCHANGED saved
      BY <1>0, <1>8, <2>1, <3>2 DEF Holds, Doomed, Victim
    <3>3. CASE ~Present(Doomed(r)) /\ outgoing[r] = None /\ UNCHANGED outgoing
      BY <1>0, <1>8, <2>1, <3>3 DEF Holds, Doomed, Victim
    <3> QED BY <1>8, <3>1, <3>2, <3>3 DEF Vanished
  <2> QED BY <1>0, <2>1, <2>2
<1> QED BY <1>2, <1>3, <1>4, <1>5, <1>6, <1>7, <1>8 DEF Known

\* A child is made while its parents are there, and done.
LEMMA MadeIsGrounded ==
    ASSUME Inv, DoneOrder, NEW r \in Res, Known(r) \/ StartDelete(r),
           NEW t \in Id, t[1] = "c", ~Present(t), Present(t)', NEW k \in ParentsOf(t)
    PROVE  cloud'[k].state = "ready" /\ Holds(k)'
<1>0. r \in All /\ k \in Id /\ k[1] \in Near /\ k[1] \in Parents
  BY OthersStay, ParentsAre DEF Near, Parents
<1>1. r = "c"
  BY OthersStay DEF Present, Absent
<1>2. Worked(r)
  <2>1. ~Dropped(r)
    BY DroppedLess
  <2>2. cloud' # cloud
    BY DEF Present
  <2> QED BY <2>1, <2>2, KnownSteps DEF Known, Looked, Vanished
<1>3. t = Key(r) /\ Created(r)
  <2>1. t = Key(r)
    BY <1>2, WorkedCloud DEF Present
  <2> QED BY <1>2, <2>1, WorkedIs DEF Present, Absent
<1>4. cloud[k].state = "ready" /\ k = Key(k[1])
  BY <1>1, <1>3, KeysParents DEF Created, Grounded
<1>5. pc[k[1]] = "done"
  <2>1. ~destroying /\ pc["c"] \in Working
    BY <1>1, <1>2, WorkingIs DEF Worked, Working
  <2> QED BY <1>0, <1>1, <2>1 DEF DoneOrder, NearInv
<1>6. k[1] \in Res /\ k[1] # "c" /\ k[1] \in All
  BY <1>0, <1>1, NearKinds
<1>7. saved[k[1]] # None /\ saved[k[1]].at = k
  BY <1>0, <1>4, <1>5, <1>6, KeyIsId DEF DoneOrder, DoneKept, Inv, RecordInv, ParentRec
<1>8. cloud'[k] = cloud[k]
  BY <1>0, <1>1, <1>2, <1>3, <1>6, WorkedCloud, KeyIsId
<1>9. saved'[k[1]] = saved[k[1]]
  BY <1>1, <1>6, OthersStay
<1> QED BY <1>4, <1>7, <1>8, <1>9 DEF Holds

LEMMA HandledGround ==
    ASSUME Inv, DoneOrder, GroundInv, NEW r \in Res, Known(r) \/ StartDelete(r)
    PROVE  GroundInv'
<1>1. stack' = stack
  BY OthersStay
<1>2. \A t : ParentsOf(t)' = ParentsOf(t)
  BY <1>1, StackStays
<1> QED BY <1>2, NearStays, MadeIsGrounded DEF GroundInv

LEMMA OutsideGround ==
    ASSUME Inv, GroundInv, Outside
    PROVE  GroundInv'
<1>s. stack' = stack
  BY DEF Outside, Rerun, TaskEnds, Console, Destroy, ProcessDies, Quiet, Edit
<1>p. \A t : ParentsOf(t)' = ParentsOf(t)
  BY <1>s, StackStays
<1>1. CASE Rerun \/ Destroy \/ ProcessDies
           \/ \E names \in SUBSET (Parents \cap Res), edited \in BOOLEAN : Edit(names, edited)
  <2>1. UNCHANGED <<cloud, outgoing>> /\ (saved' = saved \/ saved' = Recovered)
    BY <1>1 DEF Rerun, Destroy, ProcessDies, Quiet, engine, Edit, Plan
  <2>2. \A p \in All : saved[p] # None => saved'[p] = saved[p]
    BY <2>1, RecoveredIs
  <2>3. ASSUME NEW t \in Id, t[1] = "c", NEW k \in ParentsOf(t), Holds(k) PROVE Holds(k)'
    <3>1. k[1] \in All
      BY <2>3, ParentsAre, IdCases
    <3> QED BY <2>1, <2>2, <2>3, <3>1 DEF Holds
  <2> QED BY <1>p, <2>1, <2>3 DEF GroundInv, Present
<1>2. CASE TaskEnds
  <2>1. UNCHANGED <<saved, outgoing>>
    BY <1>2 DEF TaskEnds, engine
  <2>2. \A i \in Id : cloud'[i] = cloud[i] \/ (Busy(i) /\ cloud[i].state # "ready" /\ Present(i))
    BY <1>2 DEF TaskEnds, Put, Busy, Present, Inv, TypeOK
  <2>3. \A t \in Id : t[1] = "c" /\ Present(t)' => Present(t)
    BY <2>2 DEF Present
  <2>4. ASSUME NEW t \in Id, t[1] = "c", Present(t)', NEW k \in ParentsOf(t)
        PROVE  cloud'[k].state = "ready" /\ Holds(k)'
    <3>1. k \in Id /\ cloud[k].state = "ready" /\ Holds(k)
      BY <2>3, <2>4, ParentsAre DEF GroundInv
    <3> QED BY <2>1, <2>2, <3>1 DEF Holds
  <2> QED BY <1>p, <2>4 DEF GroundInv
<1>3. CASE Console
  <2>1. UNCHANGED <<saved, outgoing>>
    BY <1>3, ConsoleIs DEF engine
  <2>2. PICK q \in Res, i \in Id : i[1] = q /\ (Edited(q, i) \/ Deleted(q, i) \/ Used(q, i) \/ Claimed(q, i))
    BY <1>3, ConsoleIs
  <2>t. cloud \in [Id -> Thing] /\ cloud[i] \in Thing
    BY DEF Inv, TypeOK
  <2>3. ASSUME NEW t \in Id, t[1] = "c", Present(t)', NEW k \in ParentsOf(t)
        PROVE  cloud'[k].state = "ready" /\ Holds(k)'
    <3>0. k \in Id /\ k[1] \in Parents
      BY <2>3, ParentsAre
    <3>1. Present(t)
      <4>1. CASE Edited(q, i) \/ Used(q, i)
        BY <2>3, <2>t, <4>1 DEF Edited, Used, Put, Present, Thing
      <4>2. CASE Deleted(q, i)
        BY <2>3, <4>2 DEF Deleted, Present, Absent
      <4>3. CASE Claimed(q, i)
        <5>1. q # "c"
          BY <4>3, NamedIsParent DEF Claimed, Parents
        <5> QED BY <2>2, <2>3, <2>t, <4>3, <5>1 DEF Claimed, Put, Present
      <4> QED BY <2>2, <4>1, <4>2, <4>3
    <3>2. cloud[k].state = "ready" /\ Holds(k)
      BY <2>3, <3>1 DEF GroundInv
    <3>3. cloud'[k].state = "ready"
      <4>1. CASE Edited(q, i) \/ Used(q, i)
        BY <3>0, <3>2, <2>t, <4>1 DEF Edited, Used, Put, Present, Thing
      <4>2. CASE Deleted(q, i)
        <5>1. k \notin Taken(q, i)
          <6>1. k \notin Bound(i)
            BY <3>0 DEF Bound, Parents
          <6>2. ASSUME k = i PROVE FALSE
            <7>1. q # "c" /\ t \in Bound(i)
              BY <2>2, <2>3, <3>0, <3>1, <6>2 DEF Bound, Parents
            <7> QED BY <2>3, <4>2, <7>1 DEF Deleted, Taken, Present, Absent
          <6> QED BY <6>1, <6>2 DEF Taken
        <5> QED BY <3>0, <3>2, <4>2, <5>1 DEF Deleted
      <4>3. CASE Claimed(q, i)
        BY <3>0, <3>2, <2>t, <4>3 DEF Claimed, Put, Present
      <4> QED BY <2>2, <4>1, <4>2, <4>3
    <3> QED BY <2>1, <3>2, <3>3 DEF Holds
  <2> QED BY <1>p, <2>3 DEF GroundInv
<1> QED BY <1>1, <1>2, <1>3 DEF Outside

-----------------------------------------------------------------------------
(* Where the child on record is, and where its predecessor was.              *)

ChildPlace ==
    /\ saved["c"] # None => (Ties => saved["c"].at[3] <= gen["b"])
    /\ outgoing["c"] # None => /\ outgoing["c"].at # Key("c") /\ outgoing["c"].at[2] <= gen["a"]
                               /\ Ties => outgoing["c"].at[3] <= gen["b"]
    /\ "c" \in retire => saved["c"].at # Key("c")
    /\ (~destroying /\ saved["c"] # None) => saved["a"] # None \/ saved["c"].at[2] < gen["a"]
    /\ (~destroying /\ saved["c"] # None /\ "c" \notin retire /\ KindOf("c") \in Rules) =>
         saved["c"].at[2] < gen["a"] \/ "a" \in retire \/ saved["c"].at[3] = want
PlaceInv == "c" \in Res => ChildPlace

LEMMA ChildKey ==
    /\ Key("c") = <<"c", gen["a"], IF Ties THEN gen["b"] ELSE IF KindOf("c") \in Rules THEN want ELSE gen["c"]>>
    /\ Key("c")' = <<"c", gen'["a"], IF Ties' THEN gen'["b"]
                                     ELSE IF KindOf("c")' \in Rules THEN want' ELSE gen'["c"]>>
BY DEF Key, Parents

LEMMA ChildIs ==
    ASSUME Inv, "c" \in Res
    PROVE  /\ {"a", "b", "c"} \subseteq All /\ "a" \in Res /\ "b" \in Res
           /\ \A r \in {"a", "b", "c"} : gen[r] \in Nat
           /\ want \in Nat
           /\ KindOf("c") \in Rules => ~Ties
           /\ stack = "acr" <=> KindOf("c") = "Repository"
           /\ Ties => KindOf("c") \notin Rules \cup {"Repository"}
           /\ ~Ties => KindOf("c") \in Rules \cup {"Repository"}
           /\ saved["c"] # None => /\ saved["c"].at \in Id /\ saved["c"].at[1] = "c"
                                   /\ saved["c"].at[2] \in Nat /\ saved["c"].at[3] \in Nat
           /\ outgoing["c"] # None => /\ outgoing["c"].at \in Id /\ outgoing["c"].at[1] = "c"
                                      /\ outgoing["c"].at[2] \in Nat /\ outgoing["c"].at[3] \in Nat
<1>1. {"a", "b", "c"} \subseteq All /\ "a" \in Res /\ "b" \in Res
  BY InvLayout DEF Layout, All, Parents
<1>2. (\A r \in {"a", "b", "c"} : gen[r] \in Nat) /\ want \in Nat
  BY <1>1, GensAre
<1>3. /\ KindOf("c") \in Rules => ~Ties
      /\ stack = "acr" <=> KindOf("c") = "Repository"
      /\ Ties => KindOf("c") \notin Rules \cup {"Repository"}
      /\ ~Ties => KindOf("c") \in Rules \cup {"Repository"}
  BY InvLayout DEF Layout, Rules
<1>4. ASSUME NEW k \in Id, k[1] = "c" PROVE k[2] \in Nat /\ k[3] \in Nat
  BY <1>4, IdCases, BoundAssumption DEF Generation
<1>5. saved["c"] # None => saved["c"].at \in Id /\ saved["c"].at[1] = "c"
  BY <1>1 DEF Inv, TypeOK, Output, RecordInv, ChildRec
<1>6. outgoing["c"] # None => outgoing["c"].at \in Id /\ outgoing["c"].at[1] = "c"
  BY <1>1 DEF Inv, TypeOK, Output, RecordInv, ChildRec
<1> QED BY <1>1, <1>2, <1>3, <1>4, <1>5, <1>6

\* What these steps leave to the others.
LEMMA EngineStays ==
    ASSUME NEW r, Compared(r) \/ Looked(r) \/ Worked(r) \/ Dropped(r) \/ StartDelete(r)
    PROVE  UNCHANGED <<stack, engine>>
BY DEF Compared, Looked, Worked, Dropped, StartDelete, Handled, Quiet

LEMMA RenewedPlace ==
    ASSUME Inv, PlaceInv, "c" \in Res, NEW r \in Res, Renewed(r)
    PROVE  ChildPlace'
<1>0. /\ UNCHANGED <<stack, want, destroying>> /\ r \in retire /\ ChildPlace /\ ChildRec
      /\ (Ties' <=> Ties) /\ KindOf("c")' = KindOf("c")
  BY StackStays DEF Renewed, PlaceInv, Inv, RecordInv
<1>1. \A s \in All \ {r} : /\ saved'[s] = saved[s] /\ outgoing'[s] = outgoing[s] /\ gen'[s] = gen[s]
                           /\ s \in retire' <=> s \in retire
  BY OthersStay DEF Known
<1>2. CASE r = "c"
  <2>1. saved'["c"] = None /\ outgoing'["c"] = saved["c"] /\ "c" \notin retire'
    BY <1>0, <1>2, ChildIs DEF Renewed, Inv, TypeOK
  <2>2. /\ gen'["a"] = gen["a"] /\ gen'["b"] = gen["b"]
        /\ gen'["c"] = gen["c"] \/ (gen'["c"] = gen["c"] + 1 /\ stack = "acr")
    BY <1>1, <1>2, ChildIs, RenewedGen
  <2>3. /\ saved["c"] # None /\ saved["c"].at # Key("c") /\ saved["c"].at[2] <= gen["a"]
        /\ Ties => saved["c"].at[3] <= gen["b"]
        /\ stack = "acr" => saved["c"].at[3] = gen["c"]
    BY <1>0, <1>2 DEF ChildPlace, ChildRec
  <2>4. saved["c"].at # Key("c")'
    <3>1. CASE gen'["c"] = gen["c"]
      BY <1>0, <2>2, <2>3, <3>1, ChildKey
    <3>2. CASE gen'["c"] = gen["c"] + 1 /\ stack = "acr"
      <4>1. Key("c")'[3] = gen["c"] + 1
        BY <1>0, <3>2, ChildKey, ChildIs DEF Rules
      <4> QED BY <2>3, <3>2, <4>1, ChildIs
    <3> QED BY <2>2, <3>1, <3>2
  <2> QED BY <1>0, <2>1, <2>2, <2>3, <2>4 DEF ChildPlace
<1>3. CASE r = "a"
  <2>1. /\ gen'["a"] = gen["a"] + 1 /\ gen'["b"] = gen["b"] /\ gen'["c"] = gen["c"]
        /\ saved'["c"] = saved["c"] /\ outgoing'["c"] = outgoing["c"]
        /\ "c" \in retire' <=> "c" \in retire
    BY <1>1, <1>3, ChildIs, RenewedGen DEF Parents
  <2>2. Key("c")'[2] = gen["a"] + 1
    BY <2>1, ChildKey
  <2>3. outgoing["c"] # None => outgoing["c"].at # Key("c")'
    BY <1>0, <2>2, ChildIs DEF ChildPlace
  <2>4. saved["c"] # None => saved["c"].at # Key("c")' /\ saved["c"].at[2] < gen["a"] + 1
    BY <1>0, <2>2, ChildIs DEF ChildRec
  <2>5. "c" \in retire => saved["c"] # None
    BY <1>0 DEF ChildRec
  <2>6. outgoing["c"] # None => outgoing["c"].at[2] <= gen["a"] + 1
    BY <1>0, ChildIs DEF ChildPlace
  <2> QED BY <1>0, <2>1, <2>3, <2>4, <2>5, <2>6 DEF ChildPlace
<1>4. CASE r = "b"
  <2>1. /\ gen'["a"] = gen["a"] /\ gen'["b"] = gen["b"] + 1 /\ gen'["c"] = gen["c"]
        /\ saved'["c"] = saved["c"] /\ outgoing'["c"] = outgoing["c"]
        /\ saved'["a"] = saved["a"]
        /\ "c" \in retire' <=> "c" \in retire
        /\ "a" \in retire' <=> "a" \in retire
    BY <1>1, <1>4, ChildIs, RenewedGen DEF Parents
  <2>2. CASE ~Ties
    <3>1. Key("c")' = Key("c")
      BY <1>0, <2>1, <2>2, ChildKey
    <3> QED BY <1>0, <2>1, <2>2, <3>1 DEF ChildPlace
  <2>3. CASE Ties
    <3>1. Key("c")'[3] = gen["b"] + 1
      BY <1>0, <2>1, <2>3, ChildKey
    <3>2. outgoing["c"] # None => outgoing["c"].at # Key("c")' /\ outgoing["c"].at[3] <= gen["b"] + 1
      BY <1>0, <2>3, <3>1, ChildIs DEF ChildPlace
    <3>3. saved["c"] # None => saved["c"].at # Key("c")' /\ saved["c"].at[3] <= gen["b"] + 1
      BY <1>0, <2>3, <3>1, ChildIs DEF ChildPlace
    <3>4. "c" \in retire => saved["c"] # None
      BY <1>0 DEF ChildRec
    <3> QED BY <1>0, <2>1, <3>2, <3>3, <3>4 DEF ChildPlace
  <2> QED BY <2>2, <2>3
<1>5. r \in {"a", "b", "c"}
  BY InvLayout DEF Layout, All, Parents
<1> QED BY <1>2, <1>3, <1>4, <1>5

LEMMA HandledPlace ==
    ASSUME Inv, DoneOrder, PlaceInv, NEW r \in Res, Known(r) \/ StartDelete(r)
    PROVE  PlaceInv'
<1> SUFFICES ASSUME "c" \in Res PROVE ChildPlace'
  BY OthersStay, StackStays DEF PlaceInv
<1>0. /\ UNCHANGED <<stack, want, destroying>> /\ ChildPlace /\ ChildRec
      /\ (Ties' <=> Ties) /\ KindOf("c")' = KindOf("c")
  BY OthersStay, StackStays DEF PlaceInv, Inv, RecordInv
<1>1. CASE UNCHANGED engine
  <2>1. UNCHANGED <<gen, retire, saved, outgoing>> /\ Key("c")' = Key("c")
    BY <1>0, <1>1, ChildKey DEF engine
  <2> QED BY <1>0, <2>1 DEF ChildPlace
<1>2. CASE Renewed(r)
  BY <1>2, RenewedPlace
<1>3. CASE Confirmed(r)
  <2>1. UNCHANGED <<gen, retire, outgoing>> /\ Key("c")' = Key("c")
    BY <1>0, <1>3, ChildKey DEF Confirmed
  <2>2. CASE r = "c"
    <3>1. saved'["a"] = saved["a"] /\ saved["a"] # None /\ "c" \notin retire
      <4>1. pc["a"] = "done"
        BY <1>3, <2>2, WorkingIs, ChildIs DEF Confirmed, Working, DoneOrder, NearInv, Near, Parents
      <4> QED BY <1>3, <2>2, <4>1, WorkingIs, ChildIs, OthersStay DEF Confirmed, Working, DoneOrder, DoneKept
    <3>2. saved'["c"] = saved["c"] \/ (saved'["c"] # None /\ saved'["c"].at = Key("c"))
      BY <1>3, <2>2, KnownSteps
    <3>3. (Ties => Key("c")[3] <= gen["b"]) /\ (KindOf("c") \in Rules => Key("c")[3] = want)
      BY ChildKey, ChildIs
    <3> QED BY <1>0, <2>1, <3>1, <3>2, <3>3 DEF ChildPlace
  <2>3. CASE r # "c"
    <3>1. saved'["c"] = saved["c"] /\ (saved["a"] # None => saved'["a"] # None)
      BY <1>3, <2>3, ChildIs, KnownSteps, OthersStay
    <3> QED BY <1>0, <2>1, <3>1 DEF ChildPlace
  <2> QED BY <2>2, <2>3
<1>4. CASE Vanished(r)
  <2>1. UNCHANGED <<gen, retire>> /\ Key("c")' = Key("c")
    BY <1>0, <1>4, ChildKey DEF Vanished
  <2>2. /\ saved'["c"] # None => saved'["c"] = saved["c"]
        /\ outgoing'["c"] # None => outgoing'["c"] = outgoing["c"]
        /\ saved' = saved \/ destroying
    BY <1>4, ChildIs, KnownSteps DEF Vanished, Inv, TypeOK
  <2>3. destroying => retire = {}
    BY DEF Inv, OrderInv, Order
  <2> QED BY <1>0, <2>1, <2>2, <2>3 DEF ChildPlace
<1> QED BY <1>1, <1>2, <1>3, <1>4, EngineStays DEF Known

\* A plan is made for what the stack says now.
LEMMA PlansAre ==
    ASSUME Inv, (Rerun /\ ~destroying) \/
                \E names \in SUBSET (Parents \cap Res), edited \in BOOLEAN : Edit(names, edited)
    PROVE  /\ AtRest /\ ~destroying /\ UNCHANGED <<stack, cloud, gen, outgoing, destroying>>
           /\ saved' = Recovered
           /\ \E names \in SUBSET Parents, edited \in BOOLEAN :
                /\ Plan(names, edited)
                /\ \/ ~edited /\ want' = want
                   \/ edited /\ want' = 3 - want /\ retire = {} /\ \A r \in Res : outgoing[r] = None
<1>1. CASE Rerun /\ ~destroying
  BY <1>1 DEF Rerun, Plan
<1>2. CASE \E names \in SUBSET (Parents \cap Res), edited \in BOOLEAN : Edit(names, edited)
  BY <1>2 DEF Edit, Plan
<1> QED BY <1>1, <1>2

\* A child that is there has its parents on record.
LEMMA PresentIsBehind ==
    ASSUME Inv, GroundInv, Present(Key("c")), "c" \in Res
    PROVE  saved["a"] # None
<1>1. Key("c") \in Id /\ Key("c")[1] = "c" /\ Key("c")[2] = gen["a"]
  BY ChildIs, KeyIsId
<1>2. <<"a", gen["a"]>> \in ParentsOf(Key("c"))
  BY <1>1 DEF ParentsOf
<1>3. Holds(<<"a", gen["a"]>>)
  BY <1>1, <1>2 DEF GroundInv
<1>4. ParentRec("a") /\ gen["a"] \in Nat
  BY ChildIs DEF Inv, RecordInv, Parents
<1> QED BY <1>3, <1>4 DEF Holds, ParentRec

LEMMA PlanPlace ==
    ASSUME Inv, GroundInv, PlaceInv, "c" \in Res, (Rerun /\ ~destroying) \/
             \E names \in SUBSET (Parents \cap Res), edited \in BOOLEAN : Edit(names, edited)
    PROVE  ChildPlace'
<1>0. /\ ~destroying /\ UNCHANGED <<stack, cloud, gen, outgoing, destroying>> /\ saved' = Recovered
      /\ ChildPlace /\ ChildRec /\ (Ties' <=> Ties) /\ KindOf("c")' = KindOf("c")
  BY PlansAre, StackStays DEF PlaceInv, Inv, RecordInv
<1>1. PICK names \in SUBSET Parents, edited \in BOOLEAN :
        /\ Plan(names, edited)
        /\ \/ ~edited /\ want' = want
           \/ edited /\ want' = 3 - want /\ retire = {} /\ \A r \in Res : outgoing[r] = None
  BY PlansAre
<1> DEFINE out == Outdated(Recovered, names, edited)
<1>2. retire' = retire \cup out
  BY <1>1 DEF Plan
<1>3. "c" \in out => /\ Recovered["c"] # None
                     /\ Recovered["c"].at # Key("c") \/ (edited /\ KindOf("c") \in Rules)
  BY OutdatedIs
<1>4. (Recovered["c"] # None /\ outgoing["c"] = None /\ edited /\ KindOf("c") \in Rules
       /\ Recovered["a"] # None) => "c" \in out \/ "a" \in retire'
  <2>1. KindOf("c") \in Rules => Near = {"a"}
    BY ChildIs DEF Near
  <2>2. (/\ "c" \notin out /\ Recovered["c"] # None /\ outgoing["c"] = None
         /\ \A p \in Near : p \notin out \cup retire /\ Recovered[p] # None) =>
          ~(edited /\ KindOf("c") \in Rules)
    BY OutdatedIs
  <2> HIDE DEF out
  <2> QED BY <1>2, <2>1, <2>2
<1>5. \/ Recovered["c"] = saved["c"]
      \/ /\ saved["c"] = None /\ Recovered["c"] # None /\ Recovered["c"].at = Key("c")
         /\ saved["a"] # None
  BY ChildIs, RecoveredIs, PresentIsBehind DEF Mine
<1>6. saved["a"] # None => Recovered["a"] # None
  BY ChildIs, RecoveredIs
<1> HIDE DEF out
<1>7. /\ Key("c")[2] = gen["a"] /\ (Ties => Key("c")[3] <= gen["b"])
      /\ KindOf("c") \in Rules => Key("c")[3] = want
      /\ Key("c")' = Key("c") \/ (edited /\ KindOf("c") \in Rules)
      /\ KindOf("c") \in Rules => Key("c")'[2] = gen["a"] /\ Key("c")'[3] = want'
  BY <1>0, <1>1, ChildKey, ChildIs
<1>8. edited => want' # want
  BY <1>1, ChildIs DEF Inv, TypeOK
<1>9. Recovered["c"] # None => (Ties => Recovered["c"].at[3] <= gen["b"])
  BY <1>0, <1>5, <1>7 DEF ChildPlace
<1>10. outgoing["c"] # None => outgoing["c"].at # Key("c")'
  BY <1>0, <1>1, <1>7 DEF ChildPlace
<1>11. Recovered["c"] # None => Recovered["a"] # None \/ Recovered["c"].at[2] < gen["a"]
  BY <1>0, <1>5, <1>6 DEF ChildPlace
<1>12. ASSUME Recovered["c"] # None, KindOf("c") \in Rules, "c" \notin retire
       PROVE  \/ Recovered["c"].at[2] < gen["a"] \/ "a" \in retire
              \/ Recovered["c"].at[3] = want
  BY <1>0, <1>5, <1>7, <1>12 DEF ChildPlace
<1>13. ASSUME "c" \in retire' PROVE Recovered["c"].at # Key("c")'
  <2>1. CASE Key("c")' = Key("c") /\ ~(edited /\ KindOf("c") \in Rules)
    <3>1. CASE "c" \in retire
      <4>1. Recovered["c"] = saved["c"]
        BY <1>0, <1>5, <3>1 DEF ChildRec
      <4> QED BY <1>0, <2>1, <3>1, <4>1 DEF ChildPlace
    <3>2. CASE "c" \in out
      BY <1>3, <2>1, <3>2 DEF out
    <3> QED BY <1>2, <1>13, <3>1, <3>2
  <2>2. CASE edited /\ KindOf("c") \in Rules
    <3>1. retire = {} /\ "c" \in out
      BY <1>1, <1>2, <1>13, <2>2
    <3>2. Recovered["c"] # None /\ (Recovered["c"].at[2] < gen["a"] \/ Recovered["c"].at[3] = want)
      BY <1>3, <1>12, <2>2, <3>1 DEF out
    <3>3. gen["a"] \in Nat
      BY ChildIs
    <3> QED BY <1>7, <1>8, <2>2, <3>2, <3>3
  <2> QED BY <1>7, <2>1, <2>2
<1>14. ASSUME Recovered["c"] # None, "c" \notin retire', KindOf("c") \in Rules
       PROVE  Recovered["c"].at[2] < gen["a"] \/ "a" \in retire' \/ Recovered["c"].at[3] = want'
  <2>1. CASE ~edited
    BY <1>1, <1>2, <1>12, <1>14, <2>1
  <2>2. CASE edited
    BY <1>1, <1>2, <1>4, <1>11, <1>14, <2>2 DEF out
  <2> QED BY <2>1, <2>2
<1> QED BY <1>0, <1>9, <1>10, <1>11, <1>13, <1>14 DEF ChildPlace

LEMMA OutsidePlace ==
    ASSUME Inv, GroundInv, PlaceInv, Outside
    PROVE  PlaceInv'
<1>s. stack' = stack
  BY DEF Outside, Rerun, TaskEnds, Console, Destroy, ProcessDies, Quiet, Edit
<1> SUFFICES ASSUME "c" \in Res PROVE ChildPlace'
  BY <1>s, StackStays DEF PlaceInv
<1>0. ChildPlace /\ ChildRec /\ (Ties' <=> Ties) /\ KindOf("c")' = KindOf("c")
  BY <1>s, StackStays DEF PlaceInv, Inv, RecordInv
<1>1. CASE (Rerun /\ ~destroying) \/
             \E names \in SUBSET (Parents \cap Res), edited \in BOOLEAN : Edit(names, edited)
  BY <1>1, PlanPlace
<1>2. CASE UNCHANGED engine
  <2>1. UNCHANGED <<want, destroying, gen, retire, saved, outgoing>> /\ Key("c")' = Key("c")
    BY <1>0, <1>2, ChildKey DEF engine
  <2> QED BY <1>0, <2>1 DEF ChildPlace
<1>3. CASE Destroy
  <2>1. UNCHANGED <<want, gen, outgoing>> /\ destroying' /\ saved' = Recovered /\ retire' = {}
    BY <1>3 DEF Destroy
  <2>2. Key("c")' = Key("c") /\ (Ties => Key("c")[3] <= gen["b"])
    BY <1>0, <2>1, ChildKey, ChildIs
  <2>3. Recovered["c"] = saved["c"] \/ Recovered["c"].at = Key("c")
    BY ChildIs, RecoveredIs
  <2> QED BY <1>0, <2>1, <2>2, <2>3 DEF ChildPlace
<1>4. (TaskEnds \/ Console \/ ProcessDies \/ (Rerun /\ destroying)) => UNCHANGED engine
  BY DEF TaskEnds, Console, ProcessDies, Quiet, Rerun, engine
<1> QED BY <1>1, <1>2, <1>3, <1>4 DEF Outside

-----------------------------------------------------------------------------
(* What is done is what the stack says.                                      *)

Good(r) ==
    /\ saved[r] # None /\ saved[r].at = Key(r)
    /\ r \notin touched => Fits(r)
    /\ KindOf(r) \notin Looks => saved[r].rev = Wanted(r)
MadeInv == \A r \in Res : (pc[r] = "done" \/ (~destroying /\ pc[r] \in Deleting)) => Good(r)

\* What is to be compared by its inputs is what these say, if nobody changed it.
MeantInv == \A r \in Res : (pc[r] = "planned" /\ r \notin touched /\ KindOf(r) \notin Looks) =>
    cloud[saved[r].at].state = "ready" /\ cloud[saved[r].at].rev = saved[r].rev

\* A password on record is the one that was set, if nobody changed it.
AsWanted(r) == (saved[r] # None /\ saved[r].rev = want) \/ pc[r] = "confirm"
SetInv == \A r \in Res : (KindOf(r) \in Secret /\ r \notin touched /\ Present(Key(r)) /\ AsWanted(r)) =>
    cloud[Key(r)].rev = want

GoodInv == MadeInv /\ MeantInv /\ SetInv

LEMMA WantedStays ==
    ASSUME stack' = stack, want' = want
    PROVE  \A r : Wanted(r)' = Wanted(r)
<1>1. ASSUME NEW r PROVE Wanted(r)' = Wanted(r)
  <2>1. KindOf(r)' = KindOf(r)
    BY StackStays
  <2> QED BY <2>1 DEF Wanted
<1> QED BY <1>1

LEMMA KeyStays ==
    ASSUME stack' = stack, want' = want, NEW r, \A s \in All : gen'[s] = gen[s], r \in All
    PROVE  Key(r)' = Key(r)
<1>1. CASE r \in Parents
  BY <1>1 DEF Key
<1>2. CASE r = "c"
  BY <1>2, ChildKey, StackStays DEF All, Parents
<1> QED BY <1>1, <1>2 DEF All

LEMMA GoodStays ==
    ASSUME NEW r, Good(r), stack' = stack, want' = want, Key(r)' = Key(r), saved'[r] = saved[r],
           r \in touched => r \in touched',
           Fits(r) /\ r \notin touched' =>
              cloud'[Key(r)].state = "ready" /\ cloud'[Key(r)].rev = cloud[Key(r)].rev
    PROVE  Good(r)'
<1>1. Wanted(r)' = Wanted(r) /\ KindOf(r)' = KindOf(r)
  BY WantedStays, StackStays
<1> QED BY <1>1 DEF Good, Fits

\* The name a resource has now is no longer that of what it replaced.
LEMMA DroppedSparesKeys ==
    ASSUME Inv, PlaceInv, ~destroying, NEW s \in Res, Dropped(s), NEW r \in Res
    PROVE  cloud'[Key(r)] = cloud[Key(r)]
<1>1. /\ s \in All /\ Doomed(s) \in Id /\ Doomed(s)[1] = s
      /\ outgoing[s] # None /\ Doomed(s) = outgoing[s].at
  BY DroppedIs DEF Dropped, Deleting
<1>2. r \in All /\ Key(r) \in Id /\ Key(r)[1] = r
  BY InvLayout, KeyIsId DEF Layout
<1>3. ASSUME s \in Parents PROVE Doomed(s) # Key(s)
  <2>1. ParentRec(s) /\ gen[s] \in Nat /\ Key(s) = <<s, gen[s]>>
    BY <1>1, <1>3, GensAre DEF Inv, RecordInv, Key
  <2>2. outgoing[s].at[2] < gen[s] /\ Key(s)[2] = gen[s]
    BY <1>1, <2>1 DEF ParentRec
  <2> QED BY <1>1, <2>1, <2>2, IdCases, BoundAssumption DEF Generation
<1>4. Doomed(s) # Key(r)
  <2>1. CASE r # s
    BY <1>1, <1>2, <2>1
  <2>2. CASE r = s /\ r = "c"
    BY <1>1, <2>2 DEF PlaceInv, ChildPlace
  <2> QED BY <1>1, <1>3, <2>1, <2>2 DEF All
<1>5. Key(r) \notin Bound(Doomed(s))
  <2>1. ASSUME Key(r) \in Bound(Doomed(s)) PROVE FALSE
    <3>1. r = "c" /\ Doomed(s) \in ParentsOf(Key("c"))
      BY <1>2, <2>1 DEF Bound
    <3>2. Doomed(s)[1] \in Near /\ Doomed(s) = Key(Doomed(s)[1])
      BY <3>1, KeysParents
    <3> QED BY <1>1, <1>3, <3>2 DEF Near, Parents
  <2> QED BY <2>1
<1> QED BY <1>2, <1>4, <1>5, DroppedCloud

\* What stays of a resource while another one is handled.
LEMMA OtherKeys ==
    ASSUME Inv, DoneOrder, PlaceInv, NEW s \in Res, Known(s) \/ StartDelete(s), NEW r \in Res, r # s
    PROVE  /\ ~destroying \/ r # "c" => cloud'[Key(r)] = cloud[Key(r)]
           /\ (r = "c" => pc["c"] = "done" \/ pc["c"] \in Deleting) => Key(r)' = Key(r)
<1>0. r \in All /\ s \in All /\ Key(r) \in Id /\ Key(r)[1] = r
  BY InvLayout, KeyIsId DEF Layout
<1>1. ASSUME ~destroying \/ r # "c" PROVE cloud'[Key(r)] = cloud[Key(r)]
  <2>1. CASE r # "c"
    <3>1. Key(r) \notin Bound(Doomed(s))
      BY <1>0, <2>1 DEF Bound
    <3> QED BY <1>0, <3>1, OthersStay
  <2>2. CASE ~destroying
    <3>1. CASE Dropped(s)
      BY <2>2, <3>1, DroppedSparesKeys
    <3>2. CASE ~Dropped(s)
      BY <1>0, <3>2, OthersStay
    <3> QED BY <3>1, <3>2
  <2> QED BY <1>1, <2>1, <2>2
<1>2. ASSUME r = "c" => pc["c"] = "done" \/ pc["c"] \in Deleting PROVE Key(r)' = Key(r)
  <2>0. stack' = stack /\ want' = want
    BY OthersStay
  <2>1. CASE ~Renewed(s)
    BY <1>0, <2>0, <2>1, OthersStay, KeyStays
  <2>2. CASE Renewed(s) /\ r # "c"
    BY <1>0, <2>2, OthersStay DEF Key, All
  <2>3. CASE Renewed(s) /\ r = "c"
    <3>1. ~destroying /\ pc[s] \in {"idle", "planned"}
      BY <2>3 DEF Renewed, Begins
    <3>2. s \notin Near
      BY <1>2, <2>3, <3>1, DroppedIs DEF DoneOrder, NearInv, Deleting
    <3>3. s = "b" /\ ~Ties
      BY <1>0, <2>3, <3>2 DEF Near, All, Parents
    <3>4. gen'["a"] = gen["a"] /\ gen'["c"] = gen["c"]
      BY <2>3, <3>3, ChildIs, OthersStay
    <3> QED BY <2>0, <2>3, <3>3, <3>4, ChildKey, StackStays
  <2> QED BY <2>1, <2>2, <2>3
<1> QED BY <1>1, <1>2

LEMMA HandledMade ==
    ASSUME Inv, DoneOrder, PlaceInv, GoodInv, NEW s \in Res, Known(s) \/ StartDelete(s)
    PROVE  MadeInv'
<1>0. /\ s \in All /\ Res \subseteq All /\ UNCHANGED <<stack, want, destroying>>
      /\ touched \in SUBSET Res
  BY OthersStay, InvLayout DEF Layout, Inv, TypeOK
<1>1. ASSUME NEW r \in Res, r # s, pc'[r] = "done" \/ (~destroying /\ pc'[r] \in Deleting)
      PROVE  Good(r)'
  <2>1. /\ pc'[r] = pc[r] /\ saved'[r] = saved[r] /\ (r \in touched' <=> r \in touched)
    BY <1>0, <1>1, OthersStay
  <2>2. Good(r) /\ ~destroying
    BY <1>1, <2>1 DEF GoodInv, MadeInv, Inv, OrderInv, Order, Deleting
  <2>3. cloud'[Key(r)] = cloud[Key(r)] /\ Key(r)' = Key(r)
    BY <1>1, <2>1, <2>2, OtherKeys
  <2> QED BY <1>0, <2>1, <2>2, <2>3, GoodStays DEF Fits
<1>2. ASSUME pc'[s] = "done" \/ (~destroying /\ pc'[s] \in Deleting)
      PROVE  Good(s)'
  <2>0. Wanted(s)' = Wanted(s) /\ KindOf(s)' = KindOf(s)
    BY <1>0, WantedStays, StackStays
  <2>1. ~Renewed(s) /\ ~Looked(s) /\ ~Worked(s) /\ Key(s)' = Key(s)
    <3>1. ~Renewed(s) /\ ~Looked(s) /\ ~Worked(s)
      BY <1>2, KnownSteps DEF Working, Deleting
    <3> QED BY <1>0, <3>1, OthersStay, KeyStays
  <2>2. CASE Compared(s)
    <3>1. /\ pc[s] = "planned" /\ UNCHANGED <<cloud, saved, touched>>
          /\ IF KindOf(s) \in Looks THEN InPlace(s) ELSE SameInputs(s)
      BY <1>0, <1>2, <2>2 DEF Compared, engine, Deleting, Goto, Inv, TypeOK
    <3>2. Good(s)
      <4>1. CASE KindOf(s) \in Looks
        BY <3>1, <4>1 DEF InPlace, Good
      <4>2. CASE KindOf(s) \notin Looks
        <5>1. saved[s] # None
          BY <3>1 DEF DoneOrder, DoneKept
        <5>2. saved[s].at = Key(s) /\ saved[s].rev = Wanted(s)
          BY <3>1, <4>2 DEF SameInputs
        <5>3. s \notin touched => Fits(s)
          BY <3>1, <4>2, <5>2 DEF GoodInv, MeantInv, Fits
        <5> QED BY <5>1, <5>2, <5>3 DEF Good
      <4> QED BY <4>1, <4>2
    <3> QED BY <1>0, <2>1, <3>1, <3>2, GoodStays DEF Fits
  <2>3. CASE Confirmed(s)
    <3>1. /\ saved'[s] # None /\ saved'[s].at = Key(s) /\ saved'[s].rev = Wanted(s)
          /\ cloud[Key(s)].state = "ready" /\ cloud' = cloud
          /\ Fits(s) \/ KindOf(s) \in Secret \cup {"Link"}
          /\ touched' = IF Fits(s) THEN touched \ {s} ELSE touched
          /\ pc[s] = "confirm"
      BY <1>2, <2>3, KnownSteps DEF Deleting
    <3>2. s \notin touched' => Fits(s)
      <4>1. CASE KindOf(s) = "Link"
        <5>1. cloud[Key(s)].rev = 1
          BY <1>0, <3>1, <4>1, KeyIsId DEF Inv, CloudInv, Sound
        <5> QED BY <3>1, <4>1, <5>1 DEF Fits, Wanted, Unchanging
      <4>2. CASE KindOf(s) \in Secret /\ s \notin touched
        <5>1. cloud[Key(s)].rev = want
          BY <3>1, <4>2 DEF GoodInv, SetInv, AsWanted, Present
        <5>2. Wanted(s) = want
          BY <4>2 DEF Wanted, Secret, Unchanging, Rules
        <5> QED BY <3>1, <5>1, <5>2 DEF Fits
      <4> QED BY <3>1, <4>1, <4>2
    <3> QED BY <2>0, <2>1, <3>1, <3>2 DEF Good, Fits
  <2>4. CASE Dropped(s) \/ Vanished(s) \/ StartDelete(s)
    <3>1. ~destroying /\ Good(s) /\ saved' = saved /\ touched' = touched
      BY <1>2, <2>4, KnownSteps DEF Dropped, Vanished, Handled, Quiet, StartDelete, GoodInv, MadeInv, Deleting, AllDone
    <3>2. cloud'[Key(s)] = cloud[Key(s)]
      BY <2>4, <3>1, DroppedSparesKeys, KnownSteps
    <3> QED BY <1>0, <2>1, <3>1, <3>2, GoodStays DEF Fits
  <2> QED BY <2>1, <2>2, <2>3, <2>4 DEF Known
<1> QED BY <1>0, <1>1, <1>2, StackStays DEF MadeInv

LEMMA HandledMeant ==
    ASSUME Inv, DoneOrder, PlaceInv, GoodInv, NEW s \in Res, Known(s) \/ StartDelete(s)
    PROVE  MeantInv'
<1>0. s \in All /\ Res \subseteq All /\ UNCHANGED <<stack, destroying>>
  BY OthersStay, InvLayout DEF Layout
<1>1. ASSUME NEW r \in Res, pc'[r] = "planned", r \notin touched', KindOf(r) \notin Looks
      PROVE  cloud'[saved'[r].at].state = "ready" /\ cloud'[saved'[r].at].rev = saved'[r].rev
  <2>1. r # s
    <3>1. pc'[s] # "planned"
      BY KnownSteps DEF Known, Working, Deleting
    <3> QED BY <1>1, <3>1
  <2>2. /\ pc[r] = "planned" /\ saved'[r] = saved[r] /\ r \notin touched
    BY <1>0, <1>1, <2>1, OthersStay
  <2>3. /\ saved[r] # None /\ saved[r].at \in Id /\ saved[r].at[1] = r
        /\ ~destroying /\ ~Dropped(s)
    <3>1. saved[r] # None /\ saved[r].at \in Id
      BY <1>0, <2>2 DEF DoneOrder, DoneKept, Inv, TypeOK, Output
    <3>2. saved[r].at[1] = r
      <4>1. CASE r = "c"
        BY <3>1, <4>1, ChildIs
      <4>2. CASE r \in Parents
        BY <3>1, <4>2 DEF Inv, RecordInv, ParentRec
      <4> QED BY <1>0, <4>1, <4>2 DEF All
    <3>3. ~destroying
      BY <2>2 DEF Inv, OrderInv, Order, Deleting
    <3>4. ~Dropped(s)
      BY <2>1, <2>2, <3>3, DroppedIs DEF Dropped, Deleting
    <3> QED BY <3>1, <3>2, <3>3, <3>4
  <2>4. cloud'[saved[r].at] = cloud[saved[r].at]
    BY <2>1, <2>3, OthersStay
  <2> QED BY <1>1, <2>2, <2>4 DEF GoodInv, MeantInv
<1> QED BY <1>0, <1>1, StackStays DEF MeantInv

LEMMA SecretIs ==
    ASSUME Inv, NEW r \in Res, KindOf(r) \in Secret
    PROVE  /\ r \in Parents /\ r \in All /\ r # "c" /\ Key(r) \in Id /\ Key(r)[1] = r /\ Wanted(r) = want
           /\ KindOf(r) \notin Looks \cup Covered \cup {"AclEntry", "TairIpGroup", "Policy"}
           /\ KindOf(r) \in Slow /\ KindOf(r) \notin Named \cup {"Database", "SecurityGroup"}
<1>1. KindOf(r) \in Slow
  BY DEF Secret, Slow
<1>2. r \in Parents /\ r \in All /\ r # "c"
  BY <1>1, NamedIsParent DEF Parents, All
<1>3. Wanted(r) = want
  BY DEF Wanted, Secret, Unchanging, Rules
<1>4. /\ KindOf(r) \notin Looks \cup Covered \cup {"AclEntry", "TairIpGroup", "Policy"}
      /\ KindOf(r) \notin Named \cup {"Database", "SecurityGroup"}
  BY DEF Secret, Looks, Covered, Named, Rules
<1> QED BY <1>1, <1>2, <1>3, <1>4, KeyIsId

LEMMA HandledSet ==
    ASSUME Inv, GoodInv, NEW s \in Res, Known(s) \/ StartDelete(s)
    PROVE  SetInv'
<1>0. s \in All /\ Res \subseteq All /\ UNCHANGED <<stack, want, destroying>>
  BY OthersStay, InvLayout DEF Layout
<1>1. ASSUME NEW r \in Res, KindOf(r) \in Secret, r \notin touched', Present(Key(r))', AsWanted(r)'
      PROVE  cloud'[Key(r)'].rev = want
  <2>0. /\ r \in Parents /\ r \in All /\ r # "c" /\ Key(r) \in Id /\ Key(r)[1] = r /\ Wanted(r) = want
        /\ KindOf(r) \notin Looks \cup Covered \cup {"AclEntry", "TairIpGroup", "Policy"}
        /\ KindOf(r) \in Slow /\ KindOf(r) \notin Named \cup {"Database", "SecurityGroup"}
    BY <1>1, SecretIs
  <2>1. r \notin touched /\ Present(Key(r)) /\ AsWanted(r) => cloud[Key(r)].rev = want
    BY <1>1 DEF GoodInv, SetInv
  <2>2. CASE r # s
    <3>1. /\ pc'[r] = pc[r] /\ saved'[r] = saved[r] /\ gen'[r] = gen[r] /\ r \notin touched
      BY <1>1, <2>0, <2>2, OthersStay
    <3>2. cloud'[Key(r)] = cloud[Key(r)] /\ Key(r)' = Key(r)
      <4>1. Key(r) \notin Bound(Doomed(s))
        BY <2>0 DEF Bound
      <4>2. Key(r)' = Key(r)
        BY <2>0, <3>1 DEF Key
      <4> QED BY <2>0, <2>2, <4>1, <4>2, OthersStay
    <3>3. Present(Key(r)) /\ AsWanted(r)
      BY <1>0, <1>1, <3>1, <3>2 DEF Present, AsWanted
    <3> QED BY <2>1, <3>1, <3>2, <3>3
  <2>3. CASE r = s /\ (Compared(s) \/ Looked(s) \/ StartDelete(s))
    <3>1. UNCHANGED <<cloud, saved, gen, touched>> /\ pc'[r] # "confirm" /\ Key(r)' = Key(r)
      <4>1. UNCHANGED <<cloud, saved, gen, touched>>
        BY <2>3 DEF Compared, Looked, StartDelete, Handled, Quiet, engine
      <4>2. pc'[r] # "confirm"
        <5>1. Compared(s) => pc'[s] \in {"look", "done"}
          BY KnownSteps
        <5>2. StartDelete(s) => pc'[s] \in {"dRead", "gone"}
          BY KnownSteps
        <5>3. Looked(s) => pc'[s] \in {"tune", "create", "failed"}
          BY <1>0 DEF Looked, Handled, Moves, Goto, Inv, TypeOK
        <5> QED BY <2>3, <5>1, <5>2, <5>3
      <4>3. Key(r)' = Key(r)
        BY <2>0, <4>1 DEF Key
      <4> QED BY <4>1, <4>2, <4>3
    <3> QED BY <1>0, <1>1, <2>1, <3>1 DEF AsWanted, Present
  <2>4. CASE r = s /\ Renewed(s)
    <3>1. pc'[r] = "look" /\ saved'[r] = None
      BY <2>4, KnownSteps
    <3> QED BY <1>1, <3>1 DEF AsWanted
  <2>5. CASE r = s /\ Worked(s)
    <3>1. UNCHANGED <<saved, gen, touched, stack, want>> /\ Key(r)' = Key(r)
      <4>1. UNCHANGED <<saved, gen, touched, stack, want>>
        BY <2>5 DEF Worked, Handled, Quiet, engine
      <4> QED BY <2>0, <4>1 DEF Key
    <3>2. CASE Unwritten(s)
      <4>1. cloud' = cloud /\ (pc'[r] = "confirm" => SameInputs(r))
        BY <1>1, <2>5, <3>2 DEF Unwritten
      <4>2. SameInputs(r) => saved[r] # None /\ saved[r].rev = want
        <5> DEFINE o == [at |-> Key(r), rev |-> Wanted(r)]
        <5>1. o \in Output /\ o.rev = want
          BY <2>0, WantedIs DEF Output
        <5>2. o # None
          BY <5>1, NoneAssumption
        <5>3. SameInputs(r) => saved[r] = o
          BY DEF SameInputs
        <5> HIDE DEF o
        <5> QED BY <5>1, <5>2, <5>3
      <4> QED BY <1>0, <1>1, <2>1, <3>1, <4>1, <4>2 DEF AsWanted, Present
    <3>3. CASE Created(s)
      <4>1. cloud'[Key(r)] = New(r)
        BY <2>0, <2>5, <3>3 DEF Created, Put, Inv, TypeOK
      <4> QED BY <2>0, <3>1, <4>1 DEF New
    <3>4. CASE Tuned(s)
      <4>1. cloud[Key(r)] \in Thing /\ cloud \in [Id -> Thing]
        BY <2>0 DEF Inv, TypeOK
      <4>2. cloud'[Key(r)].rev = Wanted(r)
        BY <2>0, <2>5, <3>4, <4>1 DEF Tuned, Write, Put, Thing
      <4> QED BY <2>0, <3>1, <4>2
    <3>5. ~Cleared(s)
      BY <2>0, <2>5 DEF Cleared
    <3> QED BY <2>5, <3>2, <3>3, <3>4, <3>5 DEF Worked
  <2>6. CASE r = s /\ Confirmed(s)
    <3>1. UNCHANGED <<cloud, gen>> /\ Key(r)' = Key(r)
      BY <2>0, <2>6 DEF Confirmed, Key
    <3>2. CASE pc'[s] # "done"
      <4>1. saved' = saved /\ touched' = touched /\ pc'[s] = "failed"
        BY <2>6, <3>2, KnownSteps
      <4> QED BY <1>0, <1>1, <2>1, <2>6, <3>1, <4>1 DEF AsWanted, Present
    <3>3. CASE pc'[s] = "done"
      <4>1. /\ touched' = IF Fits(s) THEN touched \ {s} ELSE touched
            /\ pc[s] = "confirm"
        BY <2>6, <3>3, KnownSteps
      <4> QED BY <1>0, <1>1, <2>0, <2>1, <2>6, <3>1, <4>1 DEF AsWanted, Present, Fits
    <3> QED BY <3>2, <3>3
  <2>7. CASE r = s /\ Dropped(s)
    <3>1. /\ UNCHANGED <<saved, gen, touched>> /\ pc'[r] # "confirm" /\ Key(r)' = Key(r)
      <4>1. UNCHANGED <<saved, gen, touched>>
        BY <2>7 DEF Dropped, Handled, Quiet, engine
      <4>2. pc'[r] # "confirm"
        BY <2>7, KnownSteps DEF Deleting
      <4> QED BY <2>0, <4>1, <4>2 DEF Key
    <3>2. Present(Key(r)) /\ cloud'[Key(r)].rev = cloud[Key(r)].rev
      <4>0. Present(Key(r))
        BY <1>1, <2>0, <2>7, <3>1, DroppedLess DEF Present
      <4>1. ~Emptied(s, Doomed(s))
        BY <2>0, <2>7 DEF Emptied
      <4>2. CASE ~Removed(s, Doomed(s))
        BY <2>0, <2>7, <4>0, <4>1, <4>2, DroppedLess
      <4>3. CASE Removed(s, Doomed(s))
        <5>1. cloud[Key(r)] \in Thing /\ Doomed(s) \in Id
          BY <2>0, <2>7, DroppedIs DEF Inv, TypeOK, Dropped, Deleting
        <5>2. cloud'[Key(r)] = IF Key(r) = Doomed(s) THEN [cloud[Key(r)] EXCEPT !.state = "deleting"]
                               ELSE cloud[Key(r)]
          BY <1>1, <2>0, <2>7, <3>1, <4>3 DEF Removed, Remove, Present, Absent
        <5> QED BY <4>0, <5>1, <5>2 DEF Thing
      <4> QED BY <4>2, <4>3
    <3> QED BY <1>0, <1>1, <2>1, <3>1, <3>2 DEF AsWanted
  <2>8. CASE r = s /\ Vanished(s)
    <3>1. UNCHANGED <<cloud, gen, touched>> /\ Key(r)' = Key(r)
      BY <2>0, <2>8 DEF Vanished, Key
    <3>2. pc'[r] # "confirm"
      BY <2>8, KnownSteps
    <3>3. saved'[r] = saved[r] \/ saved'[r] = None
      BY <1>0, <2>0, <2>8 DEF Vanished, Inv, TypeOK
    <3> QED BY <1>0, <1>1, <2>1, <3>1, <3>2, <3>3 DEF AsWanted, Present
  <2> QED BY <2>2, <2>3, <2>4, <2>5, <2>6, <2>7, <2>8 DEF Known
<1> QED BY <1>0, <1>1, StackStays DEF SetInv

LEMMA SavedIs ==
    ASSUME Inv, NEW r \in Res, saved[r] # None
    PROVE  saved[r].at \in Id /\ saved[r].at[1] = r /\ (r \in Parents => saved[r].at = Key(r))
<1>1. r \in All /\ saved[r].at \in Id
  BY InvLayout DEF Layout, Inv, TypeOK, Output
<1>2. CASE r = "c"
  BY <1>1, <1>2, ChildIs DEF Parents
<1>3. CASE r \in Parents
  BY <1>1, <1>3, KeyIsId DEF Inv, RecordInv, ParentRec
<1> QED BY <1>1, <1>2, <1>3 DEF All

\* A person leaves a trace where this stack's own is changed.
LEMMA ConsoleKeeps ==
    ASSUME Inv, Console, NEW i \in Id, i[1] \notin touched'
    PROVE  /\ i[1] \notin touched
           /\ (Present(i) /\ (cloud[i].ours \/ cloud[i].rev # 3)) =>
                cloud'[i].state = cloud[i].state /\ cloud'[i].rev = cloud[i].rev
           /\ (Present(i)' /\ KindOf(i[1]) \notin Named) => Present(i) /\ cloud'[i].rev = cloud[i].rev
<1>1. PICK q \in Res, k \in Id : k[1] = q /\ (Edited(q, k) \/ Deleted(q, k) \/ Used(q, k) \/ Claimed(q, k))
  BY ConsoleIs
<1>t. cloud \in [Id -> Thing] /\ cloud[k] \in Thing /\ cloud[i] \in Thing /\ Sound(i, cloud[i])
  BY DEF Inv, TypeOK, CloudInv
<1>2. CASE Edited(q, k)
  BY <1>1, <1>2, <1>t DEF Edited, Put, Present
<1>3. CASE Deleted(q, k)
  <2>1. CASE i \in Taken(q, k)
    <3>1. ~cloud[i].ours /\ i[1] \notin touched /\ cloud'[i] = Absent
      BY <1>3, <2>1 DEF Deleted
    <3> QED BY <1>t, <3>1 DEF Sound, Present, Absent
  <2>2. CASE i \notin Taken(q, k)
    BY <1>3, <2>2 DEF Deleted, Present
  <2> QED BY <2>1, <2>2
<1>4. CASE Used(q, k)
  BY <1>1, <1>4, <1>t DEF Used, Put, Present, Thing
<1>5. CASE Claimed(q, k)
  BY <1>1, <1>5, <1>t DEF Claimed, Put, Present
<1> QED BY <1>1, <1>2, <1>3, <1>4, <1>5

LEMMA TaskEndsKeeps ==
    ASSUME Inv, TaskEnds, NEW i \in Id
    PROVE  /\ cloud[i].state = "ready" => cloud'[i] = cloud[i]
           /\ Present(i)' => Present(i) /\ cloud'[i].rev = cloud[i].rev
           /\ cloud'[i].ours => cloud[i].ours
<1>1. cloud \in [Id -> Thing] /\ cloud[i] \in Thing
  BY DEF Inv, TypeOK
<1> QED BY <1>1 DEF TaskEnds, Put, Present, Absent, Thing

LEMMA QuietKeys ==
    ASSUME Inv, UNCHANGED <<stack, want, gen>>, NEW r \in Res
    PROVE  Key(r)' = Key(r) /\ Key(r) \in Id /\ Key(r)[1] = r /\ r \in All
BY InvLayout, KeyStays, KeyIsId DEF Layout

LEMMA PlanGood ==
    ASSUME Inv, DoneOrder, GoodInv, (Rerun /\ ~destroying) \/
             \E names \in SUBSET (Parents \cap Res), edited \in BOOLEAN : Edit(names, edited)
    PROVE  GoodInv'
<1>0. /\ AtRest /\ ~destroying /\ UNCHANGED <<stack, cloud, gen, outgoing, destroying>>
      /\ saved' = Recovered /\ Res \subseteq All
  BY PlansAre, InvLayout DEF Layout
<1>1. PICK names \in SUBSET Parents, edited \in BOOLEAN :
        /\ Plan(names, edited)
        /\ \/ ~edited /\ want' = want
           \/ edited /\ want' = 3 - want /\ retire = {} /\ \A r \in Res : outgoing[r] = None
  BY PlansAre
<1>2. ASSUME NEW r \in Res
      PROVE  pc'[r] \in {"idle", "planned"} /\ (pc'[r] = "planned" <=> pc[r] \in {"done", "planned"})
  BY <1>0, <1>1, PlanPc
<1>3. MadeInv'
  <2>1. \A r \in Res : pc'[r] # "done" /\ pc'[r] \notin Deleting
    BY <1>2 DEF Deleting
  <2> QED BY <1>0, <2>1, StackStays DEF MadeInv
<1>4. MeantInv'
  <2>1. ASSUME NEW r \in Res, pc'[r] = "planned", r \notin touched', KindOf(r) \notin Looks
        PROVE  cloud[saved'[r].at].state = "ready" /\ cloud[saved'[r].at].rev = saved'[r].rev
    <3>1. pc[r] \in {"done", "planned"} /\ saved[r] # None /\ saved'[r] = saved[r] /\ r \notin touched
      BY <1>0, <1>1, <1>2, <2>1, RecoveredIs DEF DoneOrder, DoneKept, Plan
    <3>2. CASE pc[r] = "done"
      <4>1. Good(r)
        BY <3>2 DEF GoodInv, MadeInv
      <4> QED BY <2>1, <3>1, <4>1 DEF Good, Fits
    <3>3. CASE pc[r] = "planned"
      BY <2>1, <3>1, <3>3 DEF GoodInv, MeantInv
    <3> QED BY <3>1, <3>2, <3>3
  <2> QED BY <1>0, <2>1, StackStays DEF MeantInv
<1>5. SetInv'
  <2>1. ASSUME NEW r \in Res, KindOf(r) \in Secret, r \notin touched', Present(Key(r))', AsWanted(r)'
        PROVE  cloud'[Key(r)'].rev = want'
    <3>1. /\ r \in Parents /\ r \in All /\ Key(r) \in Id /\ KindOf(r) \notin Looks
      BY <2>1, SecretIs
    <3>2. Key(r)' = Key(r) /\ Present(Key(r))
      BY <1>0, <2>1, <3>1 DEF Key, Present
    <3>3. saved'[r] # None /\ saved'[r].rev = want'
      BY <1>2, <2>1 DEF AsWanted
    <3>4. CASE saved[r] = None
      BY <1>0, <3>1, <3>2, <3>3, <3>4, RecoveredIs
    <3>5. CASE saved[r] # None
      <4>1. saved'[r] = saved[r] /\ r \notin touched /\ (edited => cloud[Key(r)].rev = saved[r].rev)
        BY <1>0, <1>1, <2>1, <3>1, <3>5, RecoveredIs DEF Plan
      <4>2. CASE edited
        BY <1>0, <3>2, <3>3, <4>1, <4>2
      <4>3. CASE ~edited
        BY <1>0, <1>1, <2>1, <3>2, <3>3, <3>5, <4>1, <4>3 DEF GoodInv, SetInv, AsWanted
      <4> QED BY <4>2, <4>3
    <3> QED BY <3>4, <3>5
  <2> QED BY <1>0, <2>1, StackStays DEF SetInv
<1> QED BY <1>3, <1>4, <1>5 DEF GoodInv

LEMMA DestroyGood ==
    ASSUME Inv, GoodInv, Destroy
    PROVE  GoodInv'
<1>0. /\ UNCHANGED <<stack, cloud, want, gen, touched>> /\ Res \subseteq All
      /\ saved' = Recovered /\ destroying' /\ \A r \in Res : pc'[r] = "idle"
  BY InvLayout DEF Layout, Destroy
<1>1. MadeInv' /\ MeantInv'
  BY <1>0, StackStays DEF MadeInv, MeantInv
<1>2. ASSUME NEW r \in Res, KindOf(r) \in Secret, r \notin touched', Present(Key(r))', AsWanted(r)'
      PROVE  cloud'[Key(r)'].rev = want'
  <2>1. Key(r)' = Key(r) /\ Present(Key(r)) /\ r \in All
    BY <1>0, <1>2, QuietKeys DEF Present
  <2>2. saved'[r] # None /\ saved'[r].rev = want
    BY <1>0, <1>2 DEF AsWanted
  <2>3. CASE saved[r] = None
    BY <1>0, <2>1, <2>2, <2>3, RecoveredIs
  <2>4. CASE saved[r] # None
    <3>1. saved'[r] = saved[r]
      BY <1>0, <2>1, <2>4, RecoveredIs
    <3> QED BY <1>0, <1>2, <2>1, <2>2, <3>1 DEF GoodInv, SetInv, AsWanted
  <2> QED BY <2>3, <2>4
<1>3. SetInv'
  BY <1>0, <1>2, StackStays DEF SetInv
<1> QED BY <1>1, <1>3 DEF GoodInv

LEMMA CloudGood ==
    ASSUME Inv, DoneOrder, GoodInv, TaskEnds \/ Console
    PROVE  GoodInv'
<1>0. /\ UNCHANGED <<stack, engine, pc>> /\ UNCHANGED <<want, gen, saved, destroying>> /\ Res \subseteq All
      /\ \A r \in Res : Key(r)' = Key(r) /\ Key(r) \in Id /\ Key(r)[1] = r
  <2>1. UNCHANGED <<stack, engine, pc>>
    BY DEF TaskEnds, Console
  <2>2. UNCHANGED <<want, gen, saved, destroying>>
    BY <2>1 DEF engine
  <2> QED BY <2>1, <2>2, InvLayout, QuietKeys DEF Layout
\* What is ready and as it should be stays so, or was changed by a person.
<1>1. ASSUME NEW i \in Id, i[1] \notin touched', cloud[i].state = "ready",
             KindOf(i[1]) \in Named => cloud[i].rev # 3, i[1] \in Res
      PROVE  i[1] \notin touched /\ cloud'[i].state = "ready" /\ cloud'[i].rev = cloud[i].rev
  <2>1. CASE TaskEnds
    BY <1>1, <2>1, TaskEndsKeeps DEF TaskEnds
  <2>2. CASE Console
    <3>1. Present(i)
      BY <1>1 DEF Present
    <3>2. cloud[i].ours \/ cloud[i].rev # 3
      BY <1>1, <3>1, ForeignIs
    <3> QED BY <1>1, <2>2, <3>1, <3>2, ConsoleKeeps
  <2> QED BY <2>1, <2>2
<1>2. \A r \in Res : r \in touched => r \in touched'
  BY DEF TaskEnds, Console
<1>3. ASSUME NEW r \in Res, pc'[r] = "done" \/ (~destroying /\ pc'[r] \in Deleting) PROVE Good(r)'
  <2>1. Good(r)
    BY <1>0, <1>3 DEF GoodInv, MadeInv
  <2>2. Fits(r) /\ r \notin touched' =>
          cloud'[Key(r)].state = "ready" /\ cloud'[Key(r)].rev = cloud[Key(r)].rev
    <3>1. Fits(r) => cloud[Key(r)].state = "ready" /\ cloud[Key(r)].rev # 3
      BY WantedIs DEF Fits
    <3> QED BY <1>0, <1>1, <3>1
  <2> QED BY <1>0, <1>2, <2>1, <2>2, GoodStays
<1>4. ASSUME NEW r \in Res, pc'[r] = "planned", r \notin touched', KindOf(r) \notin Looks
      PROVE  cloud'[saved'[r].at].state = "ready" /\ cloud'[saved'[r].at].rev = saved'[r].rev
  <2>1. saved[r] # None /\ saved[r].at \in Id /\ saved[r].at[1] = r
    BY <1>0, <1>4, SavedIs DEF DoneOrder, DoneKept
  <2>2. r \notin touched /\ KindOf(r) \notin Named
    BY <1>2, <1>4 DEF Looks
  <2>3. cloud[saved[r].at].state = "ready" /\ cloud[saved[r].at].rev = saved[r].rev
    BY <1>0, <1>4, <2>2 DEF GoodInv, MeantInv
  <2> QED BY <1>0, <1>1, <1>4, <2>1, <2>2, <2>3
<1>5. ASSUME NEW r \in Res, KindOf(r) \in Secret, r \notin touched', Present(Key(r))', AsWanted(r)'
      PROVE  cloud'[Key(r)'].rev = want'
  <2>1. Present(Key(r)) /\ cloud'[Key(r)].rev = cloud[Key(r)].rev
    <3>1. Present(Key(r))'
      BY <1>5
    <3>2. cloud'[Key(r)].state # "absent" /\ KindOf(Key(r)[1]) \notin Named
      BY <1>0, <1>5, <3>1, SecretIs DEF Present
    <3>3. CASE TaskEnds
      BY <1>0, <3>2, <3>3, TaskEndsKeeps DEF Present
    <3>4. CASE Console
      BY <1>0, <1>5, <3>2, <3>4, ConsoleKeeps DEF Present
    <3> QED BY <3>3, <3>4
  <2>2. r \notin touched /\ AsWanted(r)
    BY <1>0, <1>2, <1>5 DEF AsWanted
  <2> QED BY <1>0, <1>5, <2>1, <2>2 DEF GoodInv, SetInv
<1> QED BY <1>0, <1>3, <1>4, <1>5, StackStays DEF GoodInv, MadeInv, MeantInv, SetInv

LEMMA RestGood ==
    ASSUME Inv, GoodInv, UNCHANGED <<stack, cloud, engine, touched>>,
           \A r \in Res : pc'[r] = pc[r] \/ pc'[r] \in {"failed", "idle"}
    PROVE  GoodInv'
<1>0. /\ UNCHANGED <<want, gen, saved, destroying>>
      /\ \A r \in Res : Key(r)' = Key(r)
  BY QuietKeys DEF engine
<1>1. ASSUME NEW r \in Res, pc'[r] = "done" \/ (~destroying /\ pc'[r] \in Deleting) PROVE Good(r)'
  <2>1. Good(r)
    BY <1>0, <1>1 DEF GoodInv, MadeInv, Deleting
  <2> QED BY <1>0, <2>1, GoodStays DEF Fits
<1>2. MeantInv'
  BY <1>0, StackStays DEF GoodInv, MeantInv
<1>3. SetInv'
  BY <1>0, StackStays DEF GoodInv, SetInv, AsWanted, Present
<1> QED BY <1>0, <1>1, <1>2, <1>3, StackStays DEF GoodInv, MadeInv

LEMMA OutsideGood ==
    ASSUME Inv, DoneOrder, GoodInv, Outside
    PROVE  GoodInv'
<1>0. Res \subseteq All
  BY InvLayout DEF Layout
<1>1. CASE Rerun /\ destroying
  <2>1. UNCHANGED <<stack, cloud, engine, touched>> /\ \A r \in Res : pc'[r] = pc[r] \/ pc'[r] \in {"failed", "idle"}
    BY <1>0, <1>1 DEF Rerun, engine
  <2> QED BY <2>1, RestGood
<1>2. CASE ProcessDies
  <2>1. UNCHANGED <<stack, cloud, engine, touched>> /\ \A r \in Res : pc'[r] = pc[r] \/ pc'[r] \in {"failed", "idle"}
    BY <1>0, <1>2 DEF ProcessDies, Quiet
  <2> QED BY <2>1, RestGood
<1> QED BY <1>1, <1>2, PlanGood, DestroyGood, CloudGood DEF Outside

-----------------------------------------------------------------------------
(* Together: the second invariant.                                           *)

Strong == Inv /\ DoneOrder /\ GroundInv /\ PlaceInv /\ GoodInv

LEMMA InitStrong == ASSUME Init PROVE Strong
<1>0. Inv /\ Res \subseteq All
  BY InitInv, InvLayout DEF Layout
<1>1. \A r \in Res : pc[r] = "idle" /\ saved[r] = None /\ outgoing[r] = None
  BY <1>0 DEF Init
<1>2. \A k \in Id : ~Present(k)
  BY DEF Init, Present, Absent
<1>3. DoneOrder
  BY <1>1 DEF DoneOrder, DoneKept, NearInv, Working, Deleting
<1>4. GroundInv
  BY <1>2 DEF GroundInv
<1>5. PlaceInv
  BY <1>1 DEF Init, PlaceInv, ChildPlace
<1>6. GoodInv
  BY <1>1 DEF GoodInv, MadeInv, MeantInv, SetInv, AsWanted, Deleting
<1> QED BY <1>0, <1>3, <1>4, <1>5, <1>6 DEF Strong

LEMMA NextStrong == ASSUME Strong, [Next]_vars PROVE Strong'
<1>1. ASSUME NEW r \in Res, Known(r) \/ StartDelete(r)
      PROVE  DoneOrder' /\ GroundInv' /\ PlaceInv' /\ GoodInv'
  BY <1>1, HandledDone, HandledGround, HandledPlace, HandledMade, HandledMeant, HandledSet DEF Strong, GoodInv
<1>2. ASSUME Outside
      PROVE  DoneOrder' /\ GroundInv' /\ PlaceInv' /\ GoodInv'
  <2>1. DoneOrder'
    BY <1>2, OutsideDone DEF Strong
  <2>2. GroundInv'
    BY <1>2, OutsideGround DEF Strong
  <2>3. PlaceInv'
    BY <1>2, OutsidePlace DEF Strong
  <2>4. GoodInv'
    BY <1>2, OutsideGood DEF Strong
  <2> QED BY <2>1, <2>2, <2>3, <2>4
<1>3. ASSUME UNCHANGED vars PROVE DoneOrder' /\ GroundInv' /\ PlaceInv' /\ GoodInv'
  <2>1. UNCHANGED <<stack, cloud, engine, touched, pc>> /\ UNCHANGED <<want, gen, retire, saved, outgoing, destroying>>
    BY <1>3 DEF vars, engine
  <2>2. GoodInv'
    BY <2>1, RestGood DEF Strong
  <2>3. DoneOrder'
    BY <2>1, StackStays DEF Strong, DoneOrder, DoneKept, NearInv, Near
  <2>4. GroundInv'
    BY <2>1, StackStays DEF Strong, GroundInv, Present, Holds
  <2>5. PlaceInv'
    <3>1. Key("c")' = Key("c")
      BY <2>1, ChildKey, StackStays
    <3> QED BY <2>1, <3>1, StackStays DEF Strong, PlaceInv, ChildPlace
  <2> QED BY <2>2, <2>3, <2>4, <2>5
<1>4. CASE Next
  <2>1. KnownStep
    BY <1>4, StepIsKnown DEF Strong
  <2>2. DoneOrder' /\ GroundInv' /\ PlaceInv' /\ GoodInv'
    BY <1>1, <1>2, <2>1 DEF KnownStep
  <2> QED BY <1>4, <2>2, NextInv DEF Strong
<1>5. CASE UNCHANGED vars
  BY <1>3, <1>5, StutterInv DEF Strong
<1> QED BY <1>4, <1>5

\* Whatever was interrupted or edited, a child never stands on a parent that is
\* gone, unready or off the record, and a resource that is done has what the
\* stack asks for unless somebody changed it.
THEOREM StrongHolds == Spec => []Strong
BY InitStrong, NextStrong, PTL DEF Spec

-----------------------------------------------------------------------------
(* Access is never taken away before it is given anew.                       *)

\* A child that stays as good as it was serves as it did.
LEMMA ServesStill ==
    ASSUME Strong, NEW r \in Res, Known(r) \/ StartDelete(r), NEW k \in Id, k[1] = "c",
           cloud[k].state = "ready", cloud'[k].state = "ready", cloud'[k].rev # 3
    PROVE  Serves(k)'
<1>1. Present(k) /\ Present(k)' /\ stack' = stack
  BY OthersStay DEF Present, Strong
<1>2. \A p \in ParentsOf(k) : cloud'[p].state = "ready"
  BY <1>1, NearStays DEF Strong
<1> QED BY <1>1, <1>2, StackStays DEF Serves

LEMMA HandledServes ==
    ASSUME Strong, NEW r \in Res, Known(r) \/ StartDelete(r), Access, touched = {}, ~destroying
    PROVE  Access'
<1>1. PICK k \in Id : Serves(k)
  BY DEF Access
<1>2. k[1] = "c" /\ cloud[k].state = "ready" /\ cloud[k].rev # 3 /\ "c" \in Res
  BY <1>1, ForeignIs DEF Serves, Present, Strong
<1>3. /\ Key("c") \in Id /\ Key("c")[1] = "c" /\ Wanted("c") # 3
      /\ KindOf("c") \notin Slow \cup {"AclEntry"}
  <2>1. KindOf("c") \notin Slow \cup {"AclEntry"}
    BY <1>2, InvLayout DEF Strong, Layout, ChildKinds, Rules, Slow
  <2> QED BY <1>2, <2>1, ChildIs, KeyIsId, WantedIs DEF Strong
<1>4. CASE Dropped(r)
  <2>1. pc["c"] = "done" \/ pc["c"] \in Deleting
    BY <1>2, <1>4, DroppedIs DEF Strong, Dropped, Deleting
  <2>2. Good("c")
    BY <1>2, <2>1 DEF Strong, GoodInv, MadeInv
  <2>3. Fits("c")
    BY <2>2 DEF Good
  <2>4. cloud'[Key("c")] = cloud[Key("c")]
    BY <1>2, <1>4, DroppedSparesKeys DEF Strong
  <2>5. PICK i \in Id : i = Key("c")
    BY <1>3
  <2>6. cloud[i].state = "ready" /\ cloud'[i].state = "ready" /\ cloud'[i].rev # 3
    BY <1>3, <2>3, <2>4, <2>5 DEF Fits
  <2>7. Serves(i)'
    BY <1>3, <2>5, <2>6, ServesStill
  <2> QED BY <2>7 DEF Access
<1>5. CASE Worked(r)
  <2>1. cloud'[k].state = "ready" /\ cloud'[k].rev # 3
    <3>1. CASE k # Key(r)
      BY <1>2, <1>5, <3>1, WorkedCloud DEF Strong
    <3>2. CASE k = Key(r)
      <4>1. r = "c"
        BY <1>2, <3>2, InvLayout, KeyIsId DEF Layout, Strong
      <4>2. New(r).state = "ready" /\ New(r).rev # 3
        BY <1>3, <4>1 DEF New
      <4>3. ~Cleared(r)
        BY <1>3, <4>1 DEF Cleared
      <4> QED BY <1>2, <1>3, <1>5, <3>2, <4>1, <4>2, <4>3, WorkedIs DEF Strong
    <3> QED BY <3>1, <3>2
  <2> QED BY <1>2, <2>1, ServesStill DEF Access
<1>6. CASE ~Dropped(r) /\ ~Worked(r)
  <2>1. cloud' = cloud
    BY <1>6 DEF Known, Compared, Renewed, Looked, Confirmed, Vanished, StartDelete
  <2> QED BY <1>2, <2>1, ServesStill DEF Access
<1> QED BY <1>4, <1>5, <1>6

LEMMA OutsideServes ==
    ASSUME Strong, Access, TaskEnds \/ Rerun \/ ProcessDies \/ Destroy \/ UNCHANGED vars
             \/ \E names \in SUBSET (Parents \cap Res), edited \in BOOLEAN : Edit(names, edited)
    PROVE  Access'
<1>1. PICK k \in Id : Serves(k)
  BY DEF Access
<1>2. /\ k[1] = "c" /\ cloud[k].state = "ready" /\ cloud[k].rev # 3
      /\ \A p \in ParentsOf(k) : p \in Id /\ cloud[p].state = "ready"
  BY <1>1, ParentsAre DEF Serves
<1>3. stack' = stack
  BY DEF TaskEnds, Rerun, ProcessDies, Quiet, Destroy, Edit, vars
<1>4. \A i \in Id : cloud[i].state = "ready" => cloud'[i] = cloud[i]
  <2>1. CASE TaskEnds
    BY <2>1, TaskEndsKeeps DEF Strong
  <2>2. CASE ~TaskEnds
    BY <2>2 DEF Rerun, ProcessDies, Destroy, Edit, vars
  <2> QED BY <2>1, <2>2
<1>5. Serves(k)'
  BY <1>2, <1>3, <1>4, StackStays DEF Serves
<1> QED BY <1>5 DEF Access

\* Whatever is edited or replaced, wherever the run dies and whatever answer is
\* lost: while nobody changes what the stack made, a role that has its policy,
\* an account that has its database and a group that has its rule keep it.
THEOREM AccessIsKept == Spec => AccessKept
<1>1. ASSUME Strong, [Next]_vars, Access, ~Access', touched = {}
      PROVE  destroying \/ Console
  <2>1. CASE Next
    <3>1. KnownStep
      BY <1>1, <2>1, StepIsKnown DEF Strong
    <3> QED BY <1>1, <3>1, HandledServes, OutsideServes DEF KnownStep, Outside
  <2>2. CASE UNCHANGED vars
    BY <1>1, <2>2, OutsideServes
  <2> QED BY <1>1, <2>1, <2>2
<1>2. Strong /\ [Next]_vars => [(Access /\ ~Access' /\ touched = {}) => (destroying \/ Console)]_vars
  BY <1>1
<1> QED BY <1>2, StrongHolds, PTL DEF Spec, AccessKept

-----------------------------------------------------------------------------
(* What this stack made is known.                                            *)

\* A child on record under an earlier parent: that parent is still to go.
FollowInv == ("c" \in Res /\ ~destroying /\ saved["c"] # None /\ saved["c"].at[2] < gen["a"]) =>
    outgoing["a"] # None

\* Of a parent there is what its generation names, and what that replaced.
LineInv == \A p \in Parents \cap Res :
    /\ \A g \in Generation : Mine(<<p, g>>) =>
         g = gen[p] \/ (outgoing[p] # None /\ outgoing[p].at = <<p, g>>)
    /\ (destroying /\ saved[p] = None) => ~Mine(<<p, gen[p]>>)

\* Of a rule there is what the stack says, and what is replaced or about to be.
RuleInv == ("c" \in Res /\ KindOf("c") \in Rules /\ ~destroying /\ "a" \notin retire) =>
    \A w \in Generation : Mine(<<"c", gen["a"], w>>) =>
        \/ w = want
        \/ outgoing["c"] # None /\ outgoing["c"].at = <<"c", gen["a"], w>>
        \/ "c" \in retire /\ saved["c"].at = <<"c", gen["a"], w>>

\* Only its handler, at work, makes a resource this stack's own.
LEMMA HandledMakes ==
    ASSUME Inv, NEW r \in Res, Known(r) \/ StartDelete(r), NEW i \in Id, Mine(i)'
    PROVE  Mine(i) \/ (Worked(r) /\ i = Key(r))
<1>1. CASE Worked(r)
  BY <1>1, WorkedCloud DEF Mine, Present
<1>2. CASE Dropped(r)
  BY <1>2, DroppedLess DEF Mine
<1>3. CASE ~Worked(r) /\ ~Dropped(r)
  BY <1>3 DEF Known, Compared, Renewed, Looked, Confirmed, Vanished, StartDelete, Mine, Present
<1> QED BY <1>1, <1>2, <1>3

LEMMA OutsideMakes ==
    ASSUME Inv, Outside,
           NEW i \in Id, Mine(i)'
    PROVE  Mine(i)
<1>1. CASE TaskEnds
  BY <1>1, TaskEndsKeeps DEF Mine
<1>2. CASE Console
  <2>1. PICK q \in Res, k \in Id : k[1] = q /\ (Edited(q, k) \/ Deleted(q, k) \/ Used(q, k) \/ Claimed(q, k))
    BY <1>2, ConsoleIs
  <2>t. cloud \in [Id -> Thing] /\ cloud[k] \in Thing
    BY DEF Inv, TypeOK
  <2>2. CASE Edited(q, k) \/ Used(q, k)
    BY <2>2, <2>t DEF Edited, Used, Put, Mine, Present, Thing
  <2>3. CASE Deleted(q, k)
    BY <2>3 DEF Deleted, Mine, Present, Absent
  <2>4. CASE Claimed(q, k)
    BY <2>4, <2>t DEF Claimed, Put, Mine, Present, Absent
  <2> QED BY <2>1, <2>2, <2>3, <2>4
<1>3. CASE ~TaskEnds /\ ~Console
  BY <1>3 DEF Outside, Rerun, Destroy, ProcessDies, Edit, Mine, Present
<1> QED BY <1>1, <1>2, <1>3

LEMMA HandledFollow ==
    ASSUME Strong, FollowInv, NEW r \in Res, Known(r) \/ StartDelete(r)
    PROVE  FollowInv'
<1> SUFFICES ASSUME "c" \in Res, ~destroying, saved'["c"] # None, saved'["c"].at[2] < gen'["a"]
             PROVE  outgoing'["a"] # None
  BY OthersStay, StackStays DEF FollowInv, Strong
<1>0. {"a", "b", "c"} \subseteq All /\ gen["a"] \in Nat /\ gen["a"] \in Generation
  BY ChildIs, GensAre DEF Strong
<1>t. saved \in [All -> Output \cup {None}] /\ outgoing \in [All -> Output \cup {None}]
  BY DEF Strong, Inv, TypeOK
<1>1. CASE UNCHANGED engine
  BY <1>1 DEF FollowInv, engine
<1>2. CASE Renewed(r)
  <2>1. CASE r = "c"
    BY <1>0, <1>2, <1>t, <2>1 DEF Renewed
  <2>2. CASE r = "a"
    <3>1. ParentRec("a") /\ "a" \in retire
      BY <1>2, <2>2 DEF Strong, Inv, RecordInv, Renewed, Parents
    <3> QED BY <1>0, <1>2, <1>t, <2>2, <3>1 DEF Renewed, ParentRec
  <2>3. CASE r # "a" /\ r # "c"
    BY <1>0, <1>2, <2>3, OthersStay DEF Strong, FollowInv
  <2> QED BY <2>1, <2>2, <2>3
<1>3. CASE Confirmed(r)
  <2>1. gen' = gen /\ outgoing' = outgoing
    BY <1>3 DEF Confirmed
  <2>2. saved'["c"] = saved["c"] \/ saved'["c"].at = Key("c")
    <3>1. CASE r = "c"
      BY <1>3, <3>1, KnownSteps DEF Strong
    <3>2. CASE r # "c"
      BY <1>0, <3>2, OthersStay DEF Strong
    <3> QED BY <3>1, <3>2
  <2>3. saved'["c"].at # Key("c")
    BY <1>0, <2>1, ChildKey
  <2> QED BY <2>1, <2>2, <2>3 DEF FollowInv
<1>4. CASE Vanished(r)
  <2>1. gen' = gen /\ saved' = saved
    BY <1>4, KnownSteps DEF Vanished, Strong
  <2>2. CASE r = "a"
    <3>1. Good("c")
      BY <1>4, <2>2, DroppedIs DEF Strong, GoodInv, MadeInv, Vanished, Deleting
    <3> QED BY <1>0, <2>1, <3>1, ChildKey DEF Good
  <2>3. CASE r # "a"
    BY <1>0, <2>1, <2>3, OthersStay DEF Strong, FollowInv
  <2> QED BY <2>2, <2>3
<1> QED BY <1>1, <1>2, <1>3, <1>4, EngineStays DEF Known

LEMMA OutsideFollow ==
    ASSUME Strong, FollowInv, Outside
    PROVE  FollowInv'
<1>1. CASE (Rerun /\ ~destroying) \/
             \E names \in SUBSET (Parents \cap Res), edited \in BOOLEAN : Edit(names, edited)
  <2>1. UNCHANGED <<stack, gen, outgoing, destroying>> /\ saved' = Recovered
    BY <1>1, PlansAre DEF Strong
  <2> SUFFICES ASSUME "c" \in Res, ~destroying, Recovered["c"] # None, Recovered["c"].at[2] < gen["a"]
               PROVE  outgoing["a"] # None
    BY <2>1, StackStays DEF FollowInv
  <2>2. Recovered["c"] = saved["c"] \/ Recovered["c"].at = Key("c")
    BY ChildIs, RecoveredIs DEF Strong
  <2>3. Recovered["c"].at # Key("c")
    BY ChildKey, ChildIs DEF Strong
  <2> QED BY <2>2, <2>3 DEF FollowInv
<1>2. CASE UNCHANGED <<stack, engine>>
  BY <1>2, StackStays DEF FollowInv, engine
<1>3. CASE Destroy
  BY <1>3 DEF Destroy, FollowInv
<1>4. TaskEnds \/ Console \/ ProcessDies \/ (Rerun /\ destroying) => UNCHANGED <<stack, engine>>
  BY DEF TaskEnds, Console, ProcessDies, Quiet, Rerun, engine
<1> QED BY <1>1, <1>2, <1>3, <1>4 DEF Outside

LEMMA HandledLine ==
    ASSUME Inv, LineInv, NEW r \in Res, Known(r) \/ StartDelete(r)
    PROVE  LineInv'
<1>0. UNCHANGED <<stack, destroying>> /\ r \in All
  BY OthersStay
<1>t. saved \in [All -> Output \cup {None}] /\ outgoing \in [All -> Output \cup {None}]
  BY DEF Inv, TypeOK
<1>1. ASSUME NEW p \in Parents \cap Res
      PROVE  /\ \A g \in Generation : Mine(<<p, g>>)' =>
                   g = gen'[p] \/ (outgoing'[p] # None /\ outgoing'[p].at = <<p, g>>)
             /\ (destroying /\ saved'[p] = None) => ~Mine(<<p, gen[p]>>)'
  <2>0. /\ p \in All /\ ParentRec(p) /\ Key(p) = <<p, gen[p]>> /\ Key(p) \in Id /\ gen[p] \in Generation
        /\ \A g \in Generation : <<p, g>> \in Id
    BY GensAre, KeyIsId, PairIsId DEF Inv, RecordInv, All
  <2>1. ASSUME NEW g \in Generation, Mine(<<p, g>>)'
        PROVE  g = gen'[p] \/ (outgoing'[p] # None /\ outgoing'[p].at = <<p, g>>)
    <3>1. CASE Worked(r) /\ <<p, g>> = Key(r)
      <4>1. r = p /\ gen' = gen
        BY <1>0, <3>1, KeyIsId DEF Worked, Handled, Quiet, engine
      <4> QED BY <2>0, <3>1, <4>1
    <3>2. CASE Mine(<<p, g>>) /\ r # p
      BY <2>0, <3>2, OthersStay DEF LineInv
    <3>3. CASE Mine(<<p, g>>) /\ r = p
      <4>1. g = gen[p] \/ (outgoing[p] # None /\ outgoing[p].at = <<p, g>>)
        BY <3>3 DEF LineInv
      <4>2. CASE UNCHANGED engine \/ Confirmed(r)
        BY <4>1, <4>2 DEF engine, Confirmed
      <4>3. CASE Renewed(r)
        BY <2>0, <1>t, <3>3, <4>1, <4>3 DEF Renewed, ParentRec
      <4>4. CASE Vanished(r)
        <5>1. Present(<<p, g>>) /\ gen' = gen
          BY <3>3, <4>4 DEF Mine, Vanished
        <5>2. outgoing'[p] = outgoing[p] \/ ~Present(outgoing[p].at)
          BY <3>3, <4>4, <1>t, <2>0 DEF Vanished, Doomed, Victim
        <5> QED BY <4>1, <5>1, <5>2
      <4> QED BY <4>2, <4>3, <4>4, EngineStays DEF Known
    <3> QED BY <2>0, <2>1, <3>1, <3>2, <3>3, HandledMakes
  <2>2. ASSUME destroying, saved'[p] = None
        PROVE  ~Mine(<<p, gen[p]>>)'
    <3>1. ~Worked(r) /\ ~Renewed(r) /\ ~Confirmed(r)
      BY <2>2, WorkingIs DEF Worked, Renewed, Begins, Confirmed, Working
    <3>2. gen' = gen
      BY <3>1, OthersStay
    <3>3. ~Mine(Key(p))
      <4>1. CASE saved[p] = None
        BY <2>0, <2>2, <4>1 DEF LineInv
      <4>2. CASE saved[p] # None
        <5>1. r = p
          BY <2>0, <2>2, <4>2, OthersStay
        <5>2. Vanished(r)
          BY <2>2, <3>1, <4>2, <5>1, KnownSteps DEF Known
        <5>3. ~Present(Doomed(r)) /\ outgoing[r] = None
          BY <2>2, <4>2, <5>1, <5>2 DEF Vanished
        <5> QED BY <2>0, <4>2, <5>1, <5>3 DEF Doomed, Victim, ParentRec, Mine
      <4> QED BY <4>1, <4>2
    <3>4. ASSUME NEW i \in Id, i = Key(p), Mine(i)' PROVE FALSE
      BY <3>1, <3>3, <3>4, HandledMakes
    <3>5. PICK i \in Id : i = Key(p)
      BY <2>0
    <3>6. ~Mine(i)'
      BY <3>4, <3>5
    <3>7. i = <<p, gen'[p]>>
      BY <2>0, <3>2, <3>5
    <3> QED BY <3>6, <3>7 DEF Mine, Present
  <2> QED BY <2>1, <2>2
<1> QED BY <1>0, <1>1, StackStays DEF LineInv

LEMMA OutsideLine ==
    ASSUME Inv, LineInv, Outside
    PROVE  LineInv'
<1>0. UNCHANGED <<stack, gen, outgoing>>
  BY DEF Outside, Rerun, TaskEnds, Console, Destroy, ProcessDies, Quiet, engine, Edit
<1>1. ASSUME NEW p \in Parents \cap Res
      PROVE  /\ \A g \in Generation : Mine(<<p, g>>)' =>
                   g = gen'[p] \/ (outgoing'[p] # None /\ outgoing'[p].at = <<p, g>>)
             /\ (destroying' /\ saved'[p] = None) => ~Mine(<<p, gen[p]>>)'
  <2>0. /\ p \in All /\ Key(p) = <<p, gen[p]>> /\ Key(p) \in Id
        /\ \A g \in Generation : <<p, g>> \in Id
    BY KeyIsId, PairIsId DEF All
  <2>1. \A g \in Generation : Mine(<<p, g>>)' => Mine(<<p, g>>)
    BY <2>0, OutsideMakes
  <2>2. ASSUME destroying', saved'[p] = None PROVE ~Mine(<<p, gen[p]>>)
    <3>1. CASE Destroy
      BY <2>0, <2>2, <3>1, RecoveredIs DEF Destroy
    <3>2. CASE ~Destroy
      <4>1. destroying /\ saved' = saved
        BY <2>2, <3>2 DEF Outside, Rerun, TaskEnds, Console, ProcessDies, Quiet, engine, Edit
      <4> QED BY <2>2, <4>1 DEF LineInv
    <3> QED BY <3>1, <3>2
  <2>3. ASSUME destroying', saved'[p] = None, Mine(<<p, gen[p]>>)' PROVE FALSE
    <3>1. PICK i \in Id : i = <<p, gen[p]>>
      BY <2>0
    <3>2. Mine(i)'
      BY <1>0, <2>3, <3>1 DEF Mine, Present
    <3>3. Mine(i)
      BY <3>2, OutsideMakes
    <3> QED BY <2>2, <2>3, <3>1, <3>3
  <2> QED BY <1>0, <2>1, <2>3 DEF LineInv
<1> QED BY <1>0, <1>1, StackStays DEF LineInv

LEMMA RuleIs ==
    ASSUME Inv, "c" \in Res, KindOf("c") \in Rules, NEW w \in Generation
    PROVE  /\ <<"c", gen["a"], w>> \in Id /\ ~Ties /\ Key("c") = <<"c", gen["a"], want>>
           /\ <<"a", gen["a"]>> \in ParentsOf(<<"c", gen["a"], w>>)
<1>1. gen["a"] \in Generation /\ ~Ties
  BY ChildIs, GensAre
<1> QED BY <1>1, TripleIsId, ChildKey DEF ParentsOf

LEMMA HandledRule ==
    ASSUME Strong, RuleInv, NEW r \in Res, Known(r) \/ StartDelete(r)
    PROVE  RuleInv'
<1>s. UNCHANGED <<stack, want, destroying>> /\ r \in All
  BY OthersStay DEF Strong
<1> SUFFICES ASSUME "c" \in Res, KindOf("c") \in Rules, ~destroying, "a" \notin retire',
                    NEW w \in Generation, Mine(<<"c", gen["a"], w>>)'
             PROVE  \/ w = want
                    \/ outgoing'["c"] # None /\ outgoing'["c"].at = <<"c", gen'["a"], w>>
                    \/ "c" \in retire' /\ saved'["c"].at = <<"c", gen'["a"], w>>
  BY <1>s, StackStays DEF RuleInv
<1>0. {"a", "b", "c"} \subseteq All /\ ChildRec
  BY ChildIs DEF Strong, Inv, RecordInv
<1>t. saved \in [All -> Output \cup {None}] /\ outgoing \in [All -> Output \cup {None}]
  BY DEF Strong, Inv, TypeOK
<1>1. CASE Renewed(r) /\ r = "a"
  <2>1. gen'["a"] = gen["a"] + 1 /\ gen'["a"] \in Generation /\ gen["a"] \in Nat
    BY <1>0, <1>1, RenewedGen, ChildIs DEF Strong, Parents
  <2>2. PICK i \in Id : i = <<"c", gen'["a"], w>>
    BY <2>1, TripleIsId
  <2>3. Mine(i)'
    BY <2>2 DEF Mine, Present
  <2>4. Present(i)
    BY <1>1, <2>3, HandledMakes DEF Strong, Mine, Renewed, Begins, Worked
  <2>5. Holds(<<"a", gen'["a"]>>)
    <3>1. i[1] = "c" /\ <<"a", gen'["a"]>> \in ParentsOf(i)
      BY <2>2 DEF ParentsOf
    <3> QED BY <2>4, <3>1 DEF Strong, GroundInv
  <2>6. ParentRec("a")
    BY <1>1 DEF Strong, Inv, RecordInv, Parents
  <2> QED BY <2>1, <2>5, <2>6 DEF Holds, ParentRec
<1>2. CASE ~(Renewed(r) /\ r = "a")
  <2>1. gen'["a"] = gen["a"] /\ "a" \notin retire
    BY <1>0, <1>2, OthersStay DEF Strong
  <2>2. PICK i \in Id : i = <<"c", gen["a"], w>>
    BY RuleIs DEF Strong
  <2>3. Mine(i)'
    BY <2>1, <2>2 DEF Mine, Present
  <2>4. CASE Worked(r) /\ i = Key(r)
    <3>1. r = "c"
      BY <1>s, <2>2, <2>4, KeyIsId DEF Strong
    <3> QED BY <2>2, <2>4, <3>1, RuleIs DEF Strong
  <2>5. CASE Mine(i) /\ w # want
    <3>1. \/ outgoing["c"] # None /\ outgoing["c"].at = i
          \/ "c" \in retire /\ saved["c"].at = i
      BY <2>1, <2>2, <2>5 DEF RuleInv
    <3>2. CASE UNCHANGED engine \/ r # "c"
      <4>1. saved'["c"] = saved["c"] /\ outgoing'["c"] = outgoing["c"] /\ ("c" \in retire => "c" \in retire')
        BY <1>0, <3>2, OthersStay DEF Strong, engine
      <4> QED BY <2>1, <2>2, <3>1, <4>1
    <3>3. CASE Renewed(r) /\ r = "c"
      <4>1. outgoing["c"] = None /\ saved["c"] # None /\ outgoing'["c"] = saved["c"]
        BY <1>0, <1>t, <3>3 DEF Renewed, ChildRec
      <4> QED BY <2>1, <2>2, <3>1, <4>1
    <3>4. CASE Confirmed(r) /\ r = "c"
      <4>1. "c" \notin retire /\ outgoing' = outgoing
        BY <3>4, WorkingIs DEF Strong, Confirmed, Working
      <4> QED BY <2>1, <2>2, <3>1, <4>1
    <3>5. CASE Vanished(r) /\ r = "c"
      <4>1. /\ "c" \notin retire /\ Present(i)
            /\ outgoing'["c"] = outgoing["c"] \/ ~Present(outgoing["c"].at)
        BY <1>0, <1>t, <2>5, <3>5, DroppedIs DEF Strong, Vanished, Deleting, Doomed, Victim, Mine
      <4> QED BY <2>1, <2>2, <3>1, <4>1
    <3> QED BY <3>2, <3>3, <3>4, <3>5, EngineStays DEF Known
  <2> QED BY <2>3, <2>4, <2>5, HandledMakes DEF Strong
<1> QED BY <1>1, <1>2

LEMMA PlanRule ==
    ASSUME Strong, FollowInv, RuleInv, (Rerun /\ ~destroying) \/
             \E names \in SUBSET (Parents \cap Res), edited \in BOOLEAN : Edit(names, edited)
    PROVE  RuleInv'
<1>0. /\ ~destroying /\ UNCHANGED <<stack, cloud, gen, outgoing, destroying>> /\ saved' = Recovered
  BY PlansAre DEF Strong
<1>1. PICK names \in SUBSET Parents, edited \in BOOLEAN :
        /\ Plan(names, edited)
        /\ \/ ~edited /\ want' = want
           \/ edited /\ want' = 3 - want /\ retire = {} /\ \A r \in Res : outgoing[r] = None
  BY PlansAre DEF Strong
<1> DEFINE out == Outdated(Recovered, names, edited)
<1>2. retire' = retire \cup out
  BY <1>1 DEF Plan
<1> SUFFICES ASSUME "c" \in Res, KindOf("c") \in Rules, "a" \notin retire',
                    NEW w \in Generation, Mine(<<"c", gen["a"], w>>)
             PROVE  \/ w = want'
                    \/ outgoing["c"] # None /\ outgoing["c"].at = <<"c", gen["a"], w>>
                    \/ "c" \in retire' /\ Recovered["c"].at = <<"c", gen["a"], w>>
  BY <1>0, StackStays DEF RuleInv, Mine, Present
<1>3. {"a", "b", "c"} \subseteq All /\ ChildRec /\ "a" \in Res
  BY ChildIs DEF Strong, Inv, RecordInv
<1>4. \/ w = want
      \/ outgoing["c"] # None /\ outgoing["c"].at = <<"c", gen["a"], w>>
      \/ "c" \in retire /\ saved["c"].at = <<"c", gen["a"], w>>
  BY <1>0, <1>2 DEF RuleInv
<1>5. "c" \in retire => Recovered["c"] = saved["c"]
  BY <1>3, RecoveredIs DEF Strong, ChildRec
<1>6. CASE ~edited
  BY <1>1, <1>2, <1>4, <1>5, <1>6
<1>7. CASE edited
  <2>1. retire = {} /\ outgoing["c"] = None /\ outgoing["a"] = None /\ w = want
    BY <1>1, <1>3, <1>4, <1>7
  <2>2. Key("c") = <<"c", gen["a"], w>> /\ Mine(Key("c"))
    BY <2>1, RuleIs DEF Strong
  <2>3. saved["a"] # None
    BY <2>2, PresentIsBehind DEF Strong, Mine
  <2>4. Recovered["a"] # None /\ Recovered["c"] # None
    BY <1>3, <2>2, <2>3, RecoveredIs DEF Strong
  <2>5. Recovered["c"].at = Key("c")
    <3>1. CASE saved["c"] = None
      BY <1>3, <2>4, <3>1, RecoveredIs DEF Strong
    <3>2. CASE saved["c"] # None
      <4>1. Recovered["c"] = saved["c"]
        BY <1>3, <3>2, RecoveredIs DEF Strong
      <4>2. /\ saved["c"].at \in Id /\ saved["c"].at[1] = "c" /\ saved["c"].at[2] \in Nat
            /\ gen["a"] \in Nat /\ saved["c"].at[2] <= gen["a"]
        BY <1>3, <3>2, ChildIs DEF Strong, ChildRec
      <4>3. saved["c"].at[2] = gen["a"]
        BY <1>0, <2>1, <3>2, <4>2 DEF FollowInv
      <4>4. saved["c"].at[3] = want
        BY <1>0, <2>1, <3>2, <4>2, <4>3 DEF Strong, PlaceInv, ChildPlace
      <4>5. saved["c"].at = <<"c", gen["a"], want>>
        BY <4>2, <4>3, <4>4, IdCases
      <4> QED BY <2>1, <2>2, <4>1, <4>5
    <3> QED BY <3>1, <3>2
  <2>6. "c" \in out
    <3>1. Near = {"a"}
      BY ChildIs DEF Strong, Near
    <3>2. (/\ "c" \notin out /\ Recovered["c"] # None /\ outgoing["c"] = None
           /\ \A p \in Near : p \notin out \cup retire /\ Recovered[p] # None) =>
            ~(edited /\ KindOf("c") \in Rules)
      BY OutdatedIs
    <3> HIDE DEF out
    <3> QED BY <1>2, <1>7, <2>1, <2>4, <3>1, <3>2
  <2> QED BY <1>2, <2>2, <2>5, <2>6
<1> QED BY <1>6, <1>7

LEMMA OutsideRule ==
    ASSUME Strong, FollowInv, RuleInv, Outside
    PROVE  RuleInv'
<1>1. CASE (Rerun /\ ~destroying) \/
             \E names \in SUBSET (Parents \cap Res), edited \in BOOLEAN : Edit(names, edited)
  BY <1>1, PlanRule
<1>2. CASE Destroy
  BY <1>2 DEF Destroy, RuleInv
<1>3. CASE UNCHANGED <<stack, engine>>
  <2>1. UNCHANGED <<want, gen, retire, saved, outgoing, destroying>>
    BY <1>3 DEF engine
  <2>2. ASSUME "c" \in Res, KindOf("c") \in Rules, NEW w \in Generation, Mine(<<"c", gen["a"], w>>)'
        PROVE  Mine(<<"c", gen["a"], w>>)
    <3>1. PICK i \in Id : i = <<"c", gen["a"], w>>
      BY <2>2, RuleIs DEF Strong
    <3>2. Mine(i)'
      BY <2>1, <2>2, <3>1 DEF Mine, Present
    <3> QED BY <3>1, <3>2, OutsideMakes DEF Strong
  <2> QED BY <1>3, <2>1, <2>2, StackStays DEF RuleInv
<1>4. TaskEnds \/ Console \/ ProcessDies \/ (Rerun /\ destroying) => UNCHANGED <<stack, engine>>
  BY DEF TaskEnds, Console, ProcessDies, Quiet, Rerun, engine
<1> QED BY <1>1, <1>2, <1>3, <1>4 DEF Outside

-----------------------------------------------------------------------------
(* What a run that succeeded says is so.                                     *)

Full == Strong /\ FollowInv /\ LineInv /\ RuleInv

LEMMA InitFull == ASSUME Init PROVE Full
<1>1. Strong
  BY InitStrong
<1>2. \A i \in Id : ~Mine(i)
  BY DEF Init, Mine, Present, Absent
<1>3. FollowInv
  BY DEF Init, FollowInv, All
<1>4. LineInv
  <2>1. \A p \in Parents, g \in Generation : <<p, g>> \in Id
    BY PairIsId
  <2> QED BY <1>2, <2>1 DEF Init, LineInv
<1>5. RuleInv
  <2>1. ASSUME "c" \in Res, KindOf("c") \in Rules, NEW w \in Generation PROVE ~Mine(<<"c", gen["a"], w>>)
    BY <1>1, <1>2, <2>1, RuleIs DEF Strong
  <2> QED BY <2>1 DEF RuleInv
<1> QED BY <1>1, <1>3, <1>4, <1>5 DEF Full

LEMMA NextFull == ASSUME Full, [Next]_vars PROVE Full'
<1>1. Strong'
  BY NextStrong DEF Full
<1>2. CASE Next
  <2>1. KnownStep
    BY <1>2, StepIsKnown DEF Full, Strong
  <2>2. ASSUME NEW r \in Res, Known(r) \/ StartDelete(r) PROVE FollowInv' /\ LineInv' /\ RuleInv'
    BY <2>2, HandledFollow, HandledLine, HandledRule DEF Full, Strong
  <2>3. ASSUME Outside
        PROVE  FollowInv' /\ LineInv' /\ RuleInv'
    BY <2>3, OutsideFollow, OutsideLine, OutsideRule DEF Full, Strong
  <2> QED BY <1>1, <2>1, <2>2, <2>3 DEF KnownStep, Full
<1>3. CASE UNCHANGED vars
  <2>1. UNCHANGED <<stack, cloud>> /\ UNCHANGED <<want, gen, retire, saved, outgoing, destroying>>
    BY <1>3 DEF vars, engine
  <2>2. FollowInv'
    BY <2>1, StackStays DEF Full, FollowInv
  <2>3. LineInv'
    BY <2>1, StackStays DEF Full, LineInv, Mine, Present
  <2>4. RuleInv'
    BY <2>1, StackStays DEF Full, RuleInv, Mine, Present
  <2> QED BY <1>1, <2>2, <2>3, <2>4 DEF Full
<1> QED BY <1>2, <1>3

\* Wherever a run died, what this stack made is under a name that is on record
\* or that the next run comes back to.
THEOREM FullHolds == Spec => []Full
BY InitFull, NextFull, PTL DEF Spec

\* Where nothing is on its way out, what this stack made is on record.
LEMMA SweptIsKnown ==
    ASSUME Full, Swept, NEW k \in Id, Mine(k)
    PROVE  k \in {s.at : s \in Kept} \/ (k[1] = "c" /\ KindOf("c") = "Repository")
<1>0. /\ Inv /\ k[1] \in Res /\ Res \subseteq All /\ "a" \in Res
      /\ \A r \in Res : pc[r] = "done" /\ outgoing[r] = None /\ Good(r) /\ r \notin retire
  BY ForeignIs, InvLayout DEF Full, Strong, Swept, AllDone, GoodInv, MadeInv, Mine, Layout, Inv, OrderInv, Order
<1>1. \A r \in Res : Key(r) \in {s.at : s \in Kept}
  <2>1. ASSUME NEW r \in Res PROVE Key(r) \in {s.at : s \in Kept}
    <3>1. saved[r] # None /\ saved[r].at = Key(r)
      BY <1>0 DEF Good
    <3> QED BY <3>1 DEF Kept
  <2> QED BY <2>1
<1>2. CASE k[1] \in Parents
  <2>1. k = <<k[1], k[2]>> /\ k[2] \in Generation
    BY <1>2, IdCases
  <2>2. k[2] = gen[k[1]]
    BY <1>0, <1>2, <2>1 DEF Full, LineInv
  <2>3. k = Key(k[1])
    BY <1>2, <2>1, <2>2 DEF Key
  <2> QED BY <1>0, <1>1, <2>3
<1>3. CASE k[1] = "c" /\ KindOf("c") # "Repository"
  <2>1. k = <<"c", k[2], k[3]>> /\ k[2] \in Generation /\ k[3] \in Generation /\ "c" \in Res /\ "b" \in Res
    BY <1>0, <1>3, IdCases, ChildIs
  <2>2. \A p \in ParentsOf(k) : Holds(p)
    BY <1>3 DEF Full, Strong, GroundInv, Mine
  <2>3. \A r \in Res : r \in Parents => saved[r].at = <<r, gen[r]>>
    BY <1>0, KeyIsId DEF Good
  <2>4. k[2] = gen["a"]
    <3>1. Holds(<<"a", k[2]>>)
      BY <2>2 DEF ParentsOf
    <3> QED BY <1>0, <2>3, <3>1 DEF Holds, Parents
  <2>5. CASE Ties
    <3>1. Holds(<<"b", k[3]>>)
      BY <2>2, <2>5 DEF ParentsOf
    <3>2. k[3] = gen["b"]
      BY <1>0, <2>1, <2>3, <3>1 DEF Holds, Parents
    <3> QED BY <1>1, <2>1, <2>4, <2>5, <3>2, ChildKey
  <2>6. CASE ~Ties
    <3>1. KindOf("c") \in Rules /\ ~destroying
      BY <1>0, <1>3, <2>1, <2>6, ChildIs DEF Inv, OrderInv, Order, Deleting
    <3>2. k[3] = want
      BY <1>0, <2>1, <2>4, <3>1 DEF Full, RuleInv
    <3> QED BY <1>0, <1>1, <2>1, <2>4, <3>1, <3>2, RuleIs
  <2> QED BY <2>5, <2>6
<1> QED BY <1>0, <1>2, <1>3 DEF All

\* After a destroy there is nothing left to know.
LEMMA GoneIsGone ==
    ASSUME Full, AllGone, NEW k \in Id
    PROVE  ~Mine(k)
<1>0. /\ Inv /\ Res \subseteq All /\ "a" \in Res /\ destroying
      /\ \A r \in Res : saved[r] = None /\ outgoing[r] = None
  BY InvLayout DEF Full, Strong, AllGone, Layout, Inv, OrderInv, Order
<1>1. SUFFICES ASSUME Mine(k) PROVE FALSE
  OBVIOUS
<1>2. k[1] \in Res
  BY <1>0, <1>1, ForeignIs DEF Mine
<1>3. CASE k[1] \in Parents
  <2>1. k = <<k[1], k[2]>> /\ k[2] \in Generation
    BY <1>3, IdCases
  <2> QED BY <1>0, <1>1, <1>2, <1>3, <2>1 DEF Full, LineInv
<1>4. CASE k[1] = "c"
  <2>1. Holds(<<"a", k[2]>>)
    BY <1>1, <1>4 DEF Full, Strong, GroundInv, Mine, ParentsOf
  <2> QED BY <1>0, <2>1 DEF Holds
<1> QED BY <1>0, <1>2, <1>3, <1>4 DEF All

\* A run that succeeds has made every resource what the stack says and knows all
\* it ever made, whatever was edited, replaced, lost or changed meanwhile and
\* however often it died; a destroy that succeeds leaves none of it.
THEOREM SuccessIsReal == Spec => []SuccessMeansDone
<1>1. ASSUME Full PROVE SuccessMeansDone
  <2>1. AllDone => \A r \in Res \ touched : saved[r] # None /\ saved[r].at = Key(r) /\ Fits(r)
    BY <1>1 DEF Full, Strong, GoodInv, MadeInv, AllDone, Good
  <2>2. Swept => \A k \in Id : Mine(k) =>
          k \in {s.at : s \in Kept} \/ (k[1] = "c" /\ KindOf("c") = "Repository")
    BY <1>1, SweptIsKnown
  <2>3. AllGone => \A k \in Id : ~Mine(k)
    BY <1>1, GoneIsGone
  <2> QED BY <2>1, <2>2, <2>3 DEF SuccessMeansDone
<1> QED BY <1>1, FullHolds, PTL
=============================================================================
