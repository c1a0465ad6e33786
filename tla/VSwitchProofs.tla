--------------------------- MODULE VSwitchProofs ---------------------------
(***************************************************************************)
(* Proofs about VSwitch, for any set of fibers, names, VPCs, identities    *)
(* and any bounds: the state is well typed, creations in one VPC exclude   *)
(* each other, no creation is refused unless an earlier one was abandoned, *)
(* and two fibers that want one name buy one vSwitch.                      *)
(***************************************************************************)
EXTENDS VSwitch, TLAPS

LEMMA VpcType == \A f \in Fiber : vpc(f) \in Vpc
BY NamesAssumption DEF vpc

\* How the handlers leave the control state.
LEMMA EndType ==
    ASSUME TypeOK, NEW f \in Fiber, NEW step \in Step, End(f, step)
    PROVE  /\ pc' \in [Fiber -> Step]
           /\ cur' \in [Fiber -> Id \cup {NoId}]
           /\ left' \in [Fiber -> 0..DeleteAttempts]
<1>1. pc' \in [Fiber -> Step]
  BY DEF TypeOK, End, Goto
<1>2. cur' \in [Fiber -> Id \cup {NoId}]
  BY DEF TypeOK, End
<1>3. left' \in [Fiber -> 0..DeleteAttempts]
  <2>1. 0 \in 0..DeleteAttempts
    BY BoundsAssumption
  <2> QED BY <2>1 DEF TypeOK, End
<1> QED BY <1>1, <1>2, <1>3

LEMMA FailType ==
    ASSUME TypeOK, NEW f \in Fiber, Fail(f)
    PROVE  /\ pc' \in [Fiber -> Step]
           /\ cur' \in [Fiber -> Id \cup {NoId}]
           /\ left' \in [Fiber -> 0..DeleteAttempts]
           /\ free' \in [Vpc -> BOOLEAN]
           /\ gaveUp' \in [Vpc -> BOOLEAN]
<1>1. End(f, "idle") /\ "idle" \in Step
  BY DEF Fail, Step
<1>2. free' \in [Vpc -> BOOLEAN]
  BY VpcType DEF TypeOK, Fail, Released
<1>3. gaveUp' \in [Vpc -> BOOLEAN]
  BY VpcType DEF TypeOK, Fail, Abandon
<1> QED BY <1>1, <1>2, <1>3, EndType

LEMMA PurchaseType ==
    ASSUME TypeOK, NEW f \in Fiber, NEW id \in Id, Purchase(f, id)
    PROVE  sw' \in [Id -> Attributes]
<1>1. [Blank EXCEPT !.status = "Pending", !.token = f] \in Attributes
  BY DEF Blank, Attributes, Status, Holder
<1> QED BY <1>1 DEF Purchase, TypeOK

\* Whether the attributes are settled may change for any identity.
LEMMA SettledType ==
    ASSUME TypeOK, NEW id, NEW b \in BOOLEAN,
           sw' = [sw EXCEPT ![id].settled = b]
    PROVE  sw' \in [Id -> Attributes]
<1>1. ASSUME NEW a \in Attributes
      PROVE  [a EXCEPT !.settled = b] \in Attributes
  BY <1>1, Zenon DEF Attributes
<1>2. sw' = [sw EXCEPT ![id] = [sw[id] EXCEPT !.settled = b]]
  OBVIOUS
<1>3. sw \in [Id -> Attributes]
  BY DEF TypeOK
<1>4. CASE id \in Id
  <2>1. [sw[id] EXCEPT !.settled = b] \in Attributes
    BY <1>1, <1>3, <1>4
  <2> QED BY <1>2, <1>3, <1>4, <2>1
<1>5. CASE id \notin Id
  <2>1. sw' = sw
    BY <1>2, <1>3, <1>5
  <2> QED BY <1>3, <2>1
<1> QED BY <1>4, <1>5

LEMMA UpsetType ==
    ASSUME TypeOK, Upset \/ Calm
    PROVE  upsets' \in 0..MaxUpsets
BY BoundsAssumption DEF TypeOK, Upset, Calm

\* A step of a fiber that only moves on keeps the rest.
LEMMA GotoType ==
    ASSUME TypeOK, NEW f \in Fiber, NEW step \in Step, Goto(f, step)
    PROVE  pc' \in [Fiber -> Step]
BY DEF TypeOK, Goto

LEMMA AgainType ==
    ASSUME TypeOK, NEW f \in Fiber, Again(f)
    PROVE  /\ pc' \in [Fiber -> Step]
           /\ cur' \in [Fiber -> Id \cup {NoId}]
           /\ left' \in [Fiber -> 0..DeleteAttempts]
           /\ free' \in [Vpc -> BOOLEAN]
           /\ gaveUp' \in [Vpc -> BOOLEAN]
<1>1. CASE left[f] = 1 /\ Fail(f)
  BY <1>1, FailType
<1>2. CASE /\ left[f] > 1
           /\ left' = [left EXCEPT ![f] = @ - 1]
           /\ Goto(f, "deleteRead")
           /\ UNCHANGED <<free, cur, gaveUp>>
  <2>1. left[f] - 1 \in 0..DeleteAttempts
    BY <1>2, BoundsAssumption DEF TypeOK
  <2>2. pc' \in [Fiber -> Step]
    BY <1>2, GotoType DEF Step
  <2> QED BY <1>2, <2>1, <2>2 DEF TypeOK
<1> QED BY <1>1, <1>2 DEF Again

LEMMA ToWaitType ==
    ASSUME TypeOK, NEW f \in Fiber, ToWait(f)
    PROVE  /\ pc' \in [Fiber -> Step]
           /\ UNCHANGED <<free, cur, left, gaveUp>>
BY GotoType DEF ToWait, Step

LEMMA FoundType == \A f \in Fiber : TypeOK => Found(f) \subseteq Id
<1> SUFFICES ASSUME NEW f \in Fiber, TypeOK, NEW id \in Found(f)
             PROVE  id \in Id
  OBVIOUS
<1>1. CASE saved[f] # NoId /\ Live(saved[f])
  BY <1>1 DEF Found, TypeOK
<1>2. CASE ~(saved[f] # NoId /\ Live(saved[f]))
  BY <1>2 DEF Found, Named
<1> QED BY <1>1, <1>2

-----------------------------------------------------------------------------
LEMMA InitType == Init => TypeOK
<1>1. Blank \in Attributes
  BY DEF Blank, Attributes, Status, Holder
<1>2. "idle" \in Step /\ 0 \in 0..DeleteAttempts /\ 0 \in 0..MaxUpsets
  BY BoundsAssumption DEF Step
<1> SUFFICES ASSUME Init PROVE TypeOK
  OBVIOUS
<1>3. sw \in [Id -> Attributes] /\ late \in SUBSET Fiber /\ free \in [Vpc -> BOOLEAN]
      /\ gaveUp \in [Vpc -> BOOLEAN]
  BY <1>1 DEF Init
<1>4. pc \in [Fiber -> Step] /\ cur \in [Fiber -> Id \cup {NoId}]
      /\ saved \in [Fiber -> Id \cup {NoId}] /\ left \in [Fiber -> 0..DeleteAttempts]
  BY <1>2 DEF Init
<1> QED BY <1>2, <1>3, <1>4 DEF Init, TypeOK

LEMMA ReconcileType ==
    ASSUME TypeOK, NEW f \in Fiber, Reconcile(f)
    PROVE  TypeOK'
<1> USE DEF Engine
<1>1. CASE Start(f)
  <2>1. pc' \in [Fiber -> Step]
    BY <1>1, GotoType DEF Start, Step
  <2> QED BY <1>1, <2>1 DEF Start, TypeOK
<1>2. CASE Observe(f)
  <2>1. pc' \in [Fiber -> Step]
    BY <1>2, GotoType DEF Observe, Step
  <2>2. cur' \in [Fiber -> Id \cup {NoId}]
    BY <1>2, FoundType DEF Observe, TypeOK
  <2> QED BY <1>2, <2>1, <2>2 DEF Observe, TypeOK
<1>3. CASE Acquire(f)
  <2>1. pc' \in [Fiber -> Step]
    BY <1>3, GotoType DEF Acquire, Step, Critical
  <2>2. free' \in [Vpc -> BOOLEAN]
    BY <1>3, VpcType DEF Acquire, TypeOK
  <2> QED BY <1>3, <2>1, <2>2 DEF Acquire, TypeOK
<1>4. CASE ObserveAgain(f)
  <2>1. pc' \in [Fiber -> Step]
    BY <1>4, GotoType DEF ObserveAgain, Step, Critical
  <2>2. cur' \in [Fiber -> Id \cup {NoId}]
    BY <1>4, FoundType DEF ObserveAgain, TypeOK
  <2>3. free' \in [Vpc -> BOOLEAN]
    BY <1>4, VpcType DEF ObserveAgain, Released, TypeOK
  <2> QED BY <1>4, <2>1, <2>2, <2>3 DEF ObserveAgain, TypeOK
<1>5. CASE Create(f)
  <2>1. sw' \in [Id -> Attributes]
    BY <1>5, PurchaseType DEF Create, TypeOK
  <2>2. /\ pc' \in [Fiber -> Step]
        /\ cur' \in [Fiber -> Id \cup {NoId}]
        /\ left' \in [Fiber -> 0..DeleteAttempts]
        /\ free' \in [Vpc -> BOOLEAN]
        /\ gaveUp' \in [Vpc -> BOOLEAN]
    <3>1. CASE Fail(f)
      BY <3>1, FailType
    <3>2. CASE Stay(f)
      BY <3>2 DEF Stay, TypeOK
    <3>3. CASE \E id \in Id : /\ cur' = [cur EXCEPT ![f] = id]
                              /\ Goto(f, "await")
                              /\ UNCHANGED <<free, left, gaveUp>>
      BY <3>3, GotoType DEF TypeOK, Step, Critical
    <3> QED BY <1>5, <3>1, <3>2, <3>3 DEF Create
  <2>3. upsets' \in 0..MaxUpsets
    BY <1>5, UpsetType DEF Create
  <2>4. late' \in SUBSET Fiber
    BY <1>5 DEF Create, TypeOK
  <2> QED BY <1>5, <2>1, <2>2, <2>3, <2>4 DEF Create, TypeOK
<1>6. CASE Await(f)
  <2>1. /\ pc' \in [Fiber -> Step]
        /\ cur' \in [Fiber -> Id \cup {NoId}]
        /\ left' \in [Fiber -> 0..DeleteAttempts]
        /\ free' \in [Vpc -> BOOLEAN]
        /\ gaveUp' \in [Vpc -> BOOLEAN]
    <3>1. CASE Fail(f)
      BY <3>1, FailType
    <3>2. CASE /\ \E id \in IF Live(cur[f]) THEN {cur[f]} ELSE Named(f) :
                     cur' = [cur EXCEPT ![f] = id]
               /\ Goto(f, "configure") /\ Released(f)
               /\ UNCHANGED <<left, gaveUp>>
      <4>1. PICK id \in IF Live(cur[f]) THEN {cur[f]} ELSE Named(f) :
               cur' = [cur EXCEPT ![f] = id]
        BY <3>2
      <4>2. id \in Id \cup {NoId}
        BY <4>1 DEF Named, TypeOK
      <4>3. free' \in [Vpc -> BOOLEAN]
        BY <3>2, VpcType DEF Released, TypeOK
      <4> QED BY <3>2, <4>1, <4>2, <4>3, GotoType DEF TypeOK, Step
    <3> QED BY <1>6, <3>1, <3>2 DEF Await
  <2>2. upsets' \in 0..MaxUpsets
    BY <1>6, UpsetType DEF Await
  <2> QED BY <1>6, <2>1, <2>2 DEF Await, TypeOK
<1>7. CASE Configure(f)
  <2>1. CASE Fail(f) /\ UNCHANGED sw
    BY <1>7, <2>1, FailType DEF Configure, TypeOK
  <2>2. CASE ~(Fail(f) /\ UNCHANGED sw)
    <3>1. pc' \in [Fiber -> Step]
      BY <1>7, <2>2, GotoType DEF Configure, Step
    <3>2. sw' \in [Id -> Attributes]
      BY <1>7, <2>2, SettledType DEF Configure
    <3> QED BY <1>7, <2>2, <3>1, <3>2 DEF Configure, TypeOK
  <2> QED BY <2>1, <2>2
<1>8. CASE Final(f)
  <2>1. CASE Fail(f) /\ UNCHANGED saved
    BY <1>8, <2>1, FailType DEF Final, TypeOK
  <2>2. CASE ~(Fail(f) /\ UNCHANGED saved)
    <3>1. End(f, "done") /\ UNCHANGED <<free, gaveUp>>
      BY <1>8, <2>2 DEF Final
    <3>2. saved' \in [Fiber -> Id \cup {NoId}]
      BY <1>8, <2>2 DEF Final, TypeOK
    <3> QED BY <1>8, <3>1, <3>2, EndType DEF Final, TypeOK, Step
  <2> QED BY <2>1, <2>2
<1> QED BY <1>1, <1>2, <1>3, <1>4, <1>5, <1>6, <1>7, <1>8 DEF Reconcile

LEMMA DeleteType ==
    ASSUME TypeOK, NEW f \in Fiber, Delete(f)
    PROVE  TypeOK'
<1> USE DEF Engine
<1>1. CASE StartDelete(f)
  <2>1. pc' \in [Fiber -> Step]
    BY <1>1, GotoType DEF StartDelete, Step
  <2>2. left' \in [Fiber -> 0..DeleteAttempts]
    BY <1>1, BoundsAssumption DEF StartDelete, TypeOK
  <2> QED BY <1>1, <2>1, <2>2 DEF StartDelete, TypeOK
<1>2. CASE DeleteRead(f)
  <2>1. /\ pc' \in [Fiber -> Step]
        /\ cur' \in [Fiber -> Id \cup {NoId}]
        /\ left' \in [Fiber -> 0..DeleteAttempts]
        /\ free' \in [Vpc -> BOOLEAN]
        /\ gaveUp' \in [Vpc -> BOOLEAN]
    <3>1. CASE Again(f)
      BY <3>1, AgainType
    <3>2. CASE ToWait(f)
      BY <3>2, ToWaitType DEF TypeOK
    <3>3. CASE Goto(f, "deleteRequest") /\ UNCHANGED <<free, cur, left, gaveUp>>
      BY <3>3, GotoType DEF TypeOK, Step
    <3> QED BY <1>2, <3>1, <3>2, <3>3 DEF DeleteRead
  <2> QED BY <1>2, <2>1 DEF DeleteRead, TypeOK
<1>3. CASE DeleteRequest(f)
  <2>1. sw' \in [Id -> Attributes]
    BY <1>3 DEF DeleteRequest, TypeOK, Attributes, Status
  <2>2. /\ pc' \in [Fiber -> Step]
        /\ cur' \in [Fiber -> Id \cup {NoId}]
        /\ left' \in [Fiber -> 0..DeleteAttempts]
        /\ free' \in [Vpc -> BOOLEAN]
        /\ gaveUp' \in [Vpc -> BOOLEAN]
    <3>1. CASE Again(f)
      BY <3>1, AgainType
    <3>2. CASE ToWait(f)
      BY <3>2, ToWaitType DEF TypeOK
    <3>3. CASE Fail(f)
      BY <3>3, FailType
    <3>4. CASE Stay(f)
      BY <3>4 DEF Stay, TypeOK
    <3> QED BY <1>3, <3>1, <3>2, <3>3, <3>4 DEF DeleteRequest
  <2>3. upsets' \in 0..MaxUpsets
    BY <1>3, UpsetType DEF DeleteRequest
  <2> QED BY <1>3, <2>1, <2>2, <2>3 DEF DeleteRequest, TypeOK
<1>4. CASE DeleteWait(f)
  <2>1. CASE Fail(f)
    BY <1>4, <2>1, FailType DEF DeleteWait, TypeOK
  <2>2. CASE End(f, "gone") /\ UNCHANGED <<free, gaveUp>>
    BY <1>4, <2>2, EndType DEF DeleteWait, TypeOK, Step
  <2> QED BY <1>4, <2>1, <2>2 DEF DeleteWait
<1> QED BY <1>1, <1>2, <1>3, <1>4 DEF Delete

LEMMA CloudType ==
    ASSUME TypeOK, CloudStep
    PROVE  TypeOK'
<1>1. ASSUME NEW id \in Id, TaskEnds(id)
      PROVE  TypeOK'
  <2>1. sw' \in [Id -> Attributes]
    <3>1. sw[id] \in Attributes
      BY DEF TypeOK
    <3>2. ASSUME NEW h \in Holder,
                 sw' = [sw EXCEPT ![id].status = "Available", ![id].held = h]
          PROVE  sw' \in [Id -> Attributes]
      <4>1. [sw[id] EXCEPT !.status = "Available", !.held = h] \in Attributes
        BY <3>1 DEF Attributes, Status
      <4> QED BY <3>2, <4>1 DEF TypeOK
    <3>3. CASE sw' = [sw EXCEPT ![id].status = "gone"]
      <4>1. [sw[id] EXCEPT !.status = "gone"] \in Attributes
        BY <3>1 DEF Attributes, Status
      <4> QED BY <3>3, <4>1 DEF TypeOK
    <3> QED BY <1>1, <3>2, <3>3 DEF TaskEnds
  <2> QED BY <1>1, <2>1 DEF TaskEnds, TypeOK
<1>2. ASSUME NEW id \in Id, Drains(id)
      PROVE  TypeOK'
  <2>1. sw' \in [Id -> Attributes]
    BY <1>2 DEF Drains, TypeOK, Attributes, Holder
  <2> QED BY <1>2, <2>1 DEF Drains, TypeOK
<1>3. ASSUME NEW f \in Fiber, LateLands(f)
      PROVE  TypeOK'
  <2>1. sw' \in [Id -> Attributes]
    BY <1>3, PurchaseType DEF LateLands, TypeOK
  <2> QED BY <1>3, <2>1 DEF LateLands, TypeOK
<1> QED BY <1>1, <1>2, <1>3 DEF CloudStep

LEMMA DisturbanceType ==
    ASSUME TypeOK, Disturbance
    PROVE  TypeOK'
<1> USE DEF Engine
<1>1. ASSUME NEW id \in Id, ConsoleChange(id)
      PROVE  TypeOK'
  <2>1. sw' \in [Id -> Attributes]
    <3>1. CASE sw' = [sw EXCEPT ![id].settled = FALSE]
      BY <3>1, SettledType
    <3>2. CASE sw' = [sw EXCEPT ![id].status = "Deleting"]
      <4>1. [sw[id] EXCEPT !.status = "Deleting"] \in Attributes
        BY DEF TypeOK, Attributes, Status
      <4> QED BY <3>2, <4>1 DEF TypeOK
    <3>3. CASE sw' = [sw EXCEPT ![id].held = "nobody"]
      <4>1. [sw[id] EXCEPT !.held = "nobody"] \in Attributes
        BY DEF TypeOK, Attributes, Holder
      <4> QED BY <3>3, <4>1 DEF TypeOK
    <3> QED BY <1>1, <3>1, <3>2, <3>3 DEF ConsoleChange
  <2>2. upsets' \in 0..MaxUpsets
    BY <1>1, UpsetType DEF ConsoleChange
  <2> QED BY <1>1, <2>1, <2>2 DEF ConsoleChange, TypeOK
<1>2. ASSUME NEW f \in Fiber, Interrupt(f)
      PROVE  TypeOK'
  BY <1>2, FailType, UpsetType DEF Interrupt, TypeOK
<1>3. ASSUME NEW f \in Fiber, Redeploy(f)
      PROVE  TypeOK'
  <2>1. pc' \in [Fiber -> Step]
    BY <1>3, GotoType DEF Redeploy, Step
  <2> QED BY <1>3, <2>1, UpsetType DEF Redeploy, TypeOK
<1>4. CASE ProcessDies
  <2>1. pc' \in [Fiber -> Step]
    BY <1>4 DEF ProcessDies, TypeOK, Step
  <2>2. left' \in [Fiber -> 0..DeleteAttempts]
    BY <1>4, BoundsAssumption DEF ProcessDies
  <2>3. /\ free' \in [Vpc -> BOOLEAN]
        /\ gaveUp' \in [Vpc -> BOOLEAN]
        /\ cur' \in [Fiber -> Id \cup {NoId}]
    BY <1>4 DEF ProcessDies, TypeOK
  <2> QED BY <1>4, <2>1, <2>2, <2>3, UpsetType DEF ProcessDies, TypeOK
<1>5. CASE Destroy
  BY <1>5 DEF Destroy, TypeOK
<1> QED BY <1>1, <1>2, <1>3, <1>4, <1>5 DEF Disturbance

LEMMA NextType ==
    ASSUME TypeOK, [Next]_vars
    PROVE  TypeOK'
<1>1. CASE UNCHANGED vars
  BY <1>1 DEF vars, TypeOK
<1> QED BY <1>1, ReconcileType, DeleteType, CloudType, DisturbanceType DEF Next

\* Every reachable state is well typed.
THEOREM TypeCorrect == Spec => []TypeOK
BY InitType, NextType, PTL DEF Spec

-----------------------------------------------------------------------------
(* Mutual exclusion and the exclusive API. *)

\* A fiber inside withPermits holds the only permit of its VPC.
LockInv ==
    /\ CreatesExclude
    /\ \A f \in Fiber : pc[f] \in Critical => ~free[vpc(f)]

\* A token names one live vSwitch.
TokenInv ==
    /\ \A i \in Id : Live(i) => sw[i].token \in Fiber
    /\ \A i, j \in Id : (Live(i) /\ Live(j) /\ sw[i].token = sw[j].token) => i = j

\* A Pending vSwitch is awaited by the fiber that bought it, or about to be,
\* unless a creation in its VPC was abandoned.
PendingInv ==
    \A id \in Id : sw[id].status = "Pending" =>
       LET f == sw[id].token IN
         \/ gaveUp[vpc(f)]
         \/ pc[f] = "create"
         \/ pc[f] = "await" /\ cur[f] = id

\* A request still under way belongs to a creation that was abandoned.
LateInv == \A f \in late : gaveUp[vpc(f)]

SafeInv == LockInv /\ TokenInv /\ PendingInv /\ LateInv

\* Only fiber f may have bought something in this step.
Fresh(f) ==
    \A id \in Id : sw'[id].status = "Pending" =>
       \/ sw'[id].token = f
       \/ sw[id].status = "Pending" /\ sw'[id].token = sw[id].token

\* Nothing was bought in this step.
QuietCloud ==
    \A id \in Id :
       /\ sw'[id].token = sw[id].token
       /\ Live(id)' => Live(id)
       /\ sw'[id].status = "Pending" => sw[id].status = "Pending"

LEMMA InvImpliesProperties == SafeInv => CreatesExclude /\ NoRefusedCreate
<1> SUFFICES ASSUME SafeInv, NEW f \in Fiber, pc[f] = "create",
                    ~gaveUp[vpc(f)], Bought(f) = {}, NEW id \in Pending(vpc(f))
             PROVE  FALSE
  BY DEF SafeInv, LockInv, NoRefusedCreate, Accepts
<1> DEFINE g == sw[id].token
<1>1. id \in Id /\ sw[id].status = "Pending" /\ vpc(g) = vpc(f) /\ Live(id)
  BY DEF Pending, Live
<1>2. g \in Fiber
  BY <1>1 DEF SafeInv, TokenInv
<1>3. pc[g] \in Critical
  BY <1>1 DEF SafeInv, PendingInv, Critical
<1>4. g = f
  BY <1>1, <1>2, <1>3 DEF SafeInv, LockInv, CreatesExclude, Critical
<1>5. id \in Bought(f)
  BY <1>1, <1>4 DEF Bought
<1> QED BY <1>5

LEMMA QuietTokens ==
    ASSUME TokenInv, QuietCloud
    PROVE  TokenInv' /\ \A f \in Fiber : Fresh(f)
BY DEF TokenInv, QuietCloud, Fresh

LEMMA PurchaseTokens ==
    ASSUME TypeOK, TokenInv, NEW f \in Fiber, NEW id \in Id, Purchase(f, id)
    PROVE  /\ TokenInv'
           /\ Fresh(f)
           /\ \A i \in Id : (sw'[i].status = "Pending" /\ sw'[i].token = f) => i = id
<1>1. CASE Bought(f) # {}
  BY <1>1 DEF Purchase, TokenInv, Fresh, Bought, Live
<1>2. CASE Bought(f) = {}
  <2> DEFINE new == [Blank EXCEPT !.status = "Pending", !.token = f]
  <2>1. sw' = [sw EXCEPT ![id] = new]
    BY <1>2 DEF Purchase
  <2>2. new.status = "Pending" /\ new.token = f
    BY DEF Blank
  <2>3. sw'[id] = new /\ \A i \in Id \ {id} : sw'[i] = sw[i]
    BY <2>1 DEF TypeOK
  <2>4. \A i \in Id : Live(i) => sw[i].token # f
    BY <1>2 DEF Bought
  <2>5. \A i \in Id : sw[i].status = "Pending" => Live(i)
    BY DEF Live
  <2>6. \A i \in Id \ {id} : Live(i)' => Live(i) /\ sw'[i].token = sw[i].token
    BY <2>3 DEF Live
  <2> HIDE DEF new
  <2>7. TokenInv'
    BY <2>2, <2>3, <2>4, <2>6 DEF TokenInv
  <2>8. Fresh(f)
    BY <2>2, <2>3 DEF Fresh
  <2>9. \A i \in Id : (sw'[i].status = "Pending" /\ sw'[i].token = f) => i = id
    BY <2>3, <2>4, <2>5
  <2> QED BY <2>7, <2>8, <2>9
<1> QED BY <1>1, <1>2

\* A fiber that leaves withPermits, or was never inside, keeps the lock sound.
LEMMA LeaveKeepsLock ==
    ASSUME TypeOK, LockInv, NEW f \in Fiber, NEW step, step \notin Critical,
           Goto(f, step), Released(f)
    PROVE  LockInv'
<1>1. /\ pc'[f] \notin Critical
      /\ \A g \in Fiber \ {f} : pc'[g] = pc[g]
  BY DEF Goto, TypeOK
<1>2. \A g \in Fiber \ {f} : pc[g] \in Critical => free'[vpc(g)] = free[vpc(g)]
  BY VpcType DEF Released, LockInv, CreatesExclude, TypeOK
<1> QED BY <1>1, <1>2 DEF LockInv, CreatesExclude

LEMMA InsideKeepsLock ==
    ASSUME TypeOK, LockInv, NEW f \in Fiber, pc[f] \in Critical,
           NEW step \in Critical, Goto(f, step), UNCHANGED free
    PROVE  LockInv'
BY DEF Goto, TypeOK, LockInv, CreatesExclude

LEMMA StayKeepsLock ==
    ASSUME LockInv, UNCHANGED <<pc, free>>
    PROVE  LockInv'
BY DEF LockInv, CreatesExclude

LEMMA AcquireKeepsLock ==
    ASSUME TypeOK, LockInv, NEW f \in Fiber, Acquire(f)
    PROVE  LockInv'
<1>1. \A g \in Fiber \ {f} : pc'[g] = pc[g] /\ (vpc(g) = vpc(f) => pc[g] \notin Critical)
  BY DEF Acquire, Goto, TypeOK, LockInv
<1>2. ~free'[vpc(f)] /\ \A g \in Fiber : vpc(g) # vpc(f) => free'[vpc(g)] = free[vpc(g)]
  BY VpcType DEF Acquire, TypeOK
<1> QED BY <1>1, <1>2 DEF LockInv, CreatesExclude

\* A failing fiber abandons whatever it had bought or still has under way.
LEMMA FailKeeps ==
    ASSUME TypeOK, SafeInv, NEW f \in Fiber, Fail(f), TokenInv',
           QuietCloud \/ (Fresh(f) /\ pc[f] \in Critical),
           late' \subseteq late \/ (late' = late \cup {f} /\ pc[f] \in Critical)
    PROVE  SafeInv'
<1>1. LockInv'
  BY LeaveKeepsLock DEF SafeInv, Fail, End, Critical
<1>2. \A v \in Vpc : gaveUp[v] => gaveUp'[v]
  BY VpcType DEF Fail, Abandon, TypeOK
<1>3. pc[f] \in Critical => gaveUp'[vpc(f)]
  BY VpcType DEF Fail, Abandon, TypeOK
<1>4. \A g \in Fiber \ {f} : pc'[g] = pc[g] /\ cur'[g] = cur[g]
  BY DEF Fail, End, Goto, TypeOK
<1>5. LateInv'
  BY <1>2, <1>3, VpcType DEF LateInv, SafeInv, TypeOK
<1>6. PendingInv'
  <2> SUFFICES ASSUME NEW id \in Id, sw'[id].status = "Pending"
               PROVE  LET g == sw'[id].token IN
                        \/ gaveUp'[vpc(g)]
                        \/ pc'[g] = "create"
                        \/ pc'[g] = "await" /\ cur'[g] = id
    BY DEF PendingInv, vpc
  <2>1. CASE sw'[id].token = f /\ pc[f] \in Critical
    BY <2>1, <1>3
  <2>2. CASE sw[id].status = "Pending" /\ sw'[id].token = sw[id].token
    <3>1. sw[id].token \in Fiber
      BY <2>2 DEF SafeInv, TokenInv, Live
    <3> QED BY <2>2, <3>1, <1>2, <1>3, <1>4, VpcType DEF SafeInv, PendingInv, Critical
  <2> QED BY <2>1, <2>2 DEF QuietCloud, Fresh
<1> QED BY <1>1, <1>5, <1>6 DEF SafeInv

\* A fiber that is not creating and moves on outside withPermits changes
\* nothing for anybody else.
LEMMA LeaveKeeps ==
    ASSUME TypeOK, SafeInv, QuietCloud, NEW f \in Fiber, NEW step,
           step \notin Critical, Goto(f, step), Released(f),
           UNCHANGED <<gaveUp, late>>,
           \A g \in Fiber \ {f} : cur'[g] = cur[g],
           pc[f] \notin {"create", "await"}
    PROVE  SafeInv'
<1>1. LockInv'
  BY LeaveKeepsLock DEF SafeInv
<1>2. TokenInv'
  BY QuietTokens DEF SafeInv
<1>3. PendingInv'
  <2>1. \A g \in Fiber \ {f} : pc'[g] = pc[g] /\ cur'[g] = cur[g]
    BY DEF Goto, TypeOK
  <2>2. \A id \in Id : sw[id].status = "Pending" => sw[id].token \in Fiber
    BY DEF SafeInv, TokenInv, Live
  <2> QED BY <2>1, <2>2 DEF SafeInv, PendingInv, QuietCloud, vpc
<1>4. LateInv'
  BY DEF SafeInv, LateInv, vpc
<1> QED BY <1>1, <1>2, <1>3, <1>4 DEF SafeInv

LEMMA StillKeeps ==
    ASSUME TypeOK, SafeInv, QuietCloud, late' \subseteq late,
           UNCHANGED <<pc, cur, free, gaveUp>>
    PROVE  SafeInv'
<1>1. LockInv'
  BY StayKeepsLock DEF SafeInv
<1>2. TokenInv'
  BY QuietTokens DEF SafeInv
<1>3. PendingInv'
  BY DEF SafeInv, PendingInv, QuietCloud, vpc
<1>4. LateInv'
  BY DEF SafeInv, LateInv, vpc
<1> QED BY <1>1, <1>2, <1>3, <1>4 DEF SafeInv

LEMMA SameCloud == UNCHANGED sw => QuietCloud
BY DEF QuietCloud, Live

\* A vSwitch that is edited, or whose task ends, buys nothing.
LEMMA EditIsQuiet ==
    ASSUME TypeOK, NEW id \in Id, NEW a,
           sw' = [sw EXCEPT ![id] = a],
           a.token = sw[id].token,
           a.status \in {sw[id].status, "gone"}
             \/ (Live(id) /\ a.status \in {"Available", "Deleting"})
    PROVE  QuietCloud
<1>1. sw'[id] = a /\ \A i \in Id \ {id} : sw'[i] = sw[i]
  BY DEF TypeOK
<1> QED BY <1>1 DEF QuietCloud, Live

LEMMA StatusIsQuiet ==
    ASSUME TypeOK, NEW id \in Id, Live(id),
           NEW s \in {"Available", "Deleting", "gone"},
           \/ sw' = [sw EXCEPT ![id].status = s]
           \/ \E h \in Holder : sw' = [sw EXCEPT ![id].status = s, ![id].held = h]
    PROVE  QuietCloud
<1>1. sw[id] \in Attributes
  BY DEF TypeOK
<1>2. CASE sw' = [sw EXCEPT ![id].status = s]
  <2> DEFINE a == [sw[id] EXCEPT !.status = s]
  <2>1. a.token = sw[id].token /\ a.status = s
    BY <1>1 DEF Attributes
  <2>2. sw' = [sw EXCEPT ![id] = a]
    BY <1>2
  <2> QED BY <2>1, <2>2, EditIsQuiet
<1>3. ASSUME NEW h \in Holder, sw' = [sw EXCEPT ![id].status = s, ![id].held = h]
      PROVE  QuietCloud
  <2>1. /\ sw'[id].token = sw[id].token /\ sw'[id].status = s
        /\ \A i \in Id \ {id} : sw'[i] = sw[i]
    BY <1>1, <1>3 DEF TypeOK, Attributes
  <2> QED BY <2>1 DEF QuietCloud, Live
<1> QED BY <1>2, <1>3

LEMMA SettledIsQuiet ==
    ASSUME TypeOK, NEW id \in Id, NEW b \in BOOLEAN,
           sw' = [sw EXCEPT ![id].settled = b]
    PROVE  QuietCloud
<1> DEFINE a == [sw[id] EXCEPT !.settled = b]
<1>1. a.token = sw[id].token /\ a.status = sw[id].status
  BY DEF TypeOK, Attributes
<1>2. sw' = [sw EXCEPT ![id] = a]
  OBVIOUS
<1> QED BY <1>1, <1>2, EditIsQuiet

LEMMA HeldIsQuiet ==
    ASSUME TypeOK, NEW id \in Id, NEW h \in Holder,
           sw' = [sw EXCEPT ![id].held = h]
    PROVE  QuietCloud
<1> DEFINE a == [sw[id] EXCEPT !.held = h]
<1>1. a.token = sw[id].token /\ a.status = sw[id].status
  BY DEF TypeOK, Attributes
<1>2. sw' = [sw EXCEPT ![id] = a]
  OBVIOUS
<1> QED BY <1>1, <1>2, EditIsQuiet

-----------------------------------------------------------------------------
LEMMA InitSafe == Init => SafeInv
<1> SUFFICES ASSUME Init PROVE SafeInv
  OBVIOUS
<1>1. \A id \in Id : sw[id] = Blank /\ ~Live(id)
  BY DEF Init, Blank, Live
<1>2. \A f \in Fiber : pc[f] \notin Critical
  BY DEF Init, Critical
<1> QED BY <1>1, <1>2 DEF Init, Blank, SafeInv, LockInv, CreatesExclude,
                         TokenInv, PendingInv, LateInv

\* Every step of a fiber before it creates, and every step after.
LEMMA CreateKeeps ==
    ASSUME TypeOK, SafeInv, NEW f \in Fiber, Create(f)
    PROVE  SafeInv'
<1>0. pc[f] = "create" /\ pc[f] \in Critical
  BY DEF Create, Critical
<1>1. ASSUME NEW id \in Id, Purchase(f, id), UNCHANGED <<late, free, gaveUp>>,
             cur' = [cur EXCEPT ![f] = id], Goto(f, "await")
      PROVE  SafeInv'
  <2>1. LockInv'
    BY <1>0, <1>1, InsideKeepsLock DEF SafeInv, Critical
  <2>2. /\ TokenInv' /\ Fresh(f)
        /\ \A i \in Id : (sw'[i].status = "Pending" /\ sw'[i].token = f) => i = id
    BY <1>1, PurchaseTokens DEF SafeInv
  <2>3. PendingInv'
    <3>1. /\ pc'[f] = "await" /\ cur'[f] = id
          /\ \A g \in Fiber \ {f} : pc'[g] = pc[g] /\ cur'[g] = cur[g]
      BY <1>1 DEF Goto, TypeOK
    <3>2. \A i \in Id : sw[i].status = "Pending" => sw[i].token \in Fiber
      BY DEF SafeInv, TokenInv, Live
    <3> QED BY <1>1, <2>2, <3>1, <3>2 DEF SafeInv, PendingInv, Fresh, vpc
  <2>4. LateInv'
    BY <1>1 DEF SafeInv, LateInv, vpc
  <2> QED BY <2>1, <2>2, <2>3, <2>4 DEF SafeInv
<1>2. ASSUME TokenInv', Fresh(f), UNCHANGED late, Stay(f)
      PROVE  SafeInv'
  <2>1. LockInv'
    BY <1>2, StayKeepsLock DEF SafeInv, Stay
  <2>2. PendingInv'
    BY <1>0, <1>2 DEF SafeInv, PendingInv, Fresh, Stay, vpc
  <2>3. LateInv'
    BY <1>2 DEF SafeInv, LateInv, Stay, vpc
  <2> QED BY <1>2, <2>1, <2>2, <2>3 DEF SafeInv
<1>3. ASSUME TokenInv', Fresh(f), UNCHANGED late, Fail(f)
      PROVE  SafeInv'
  BY <1>0, <1>3, FailKeeps
<1>4. CASE UNCHANGED <<sw, late>> /\ (Stay(f) \/ Fail(f))
  <2>1. TokenInv' /\ Fresh(f)
    BY <1>4, SameCloud, QuietTokens DEF SafeInv
  <2> QED BY <1>2, <1>3, <1>4, <2>1
<1>5. CASE \E id \in Id : Purchase(f, id) /\ UNCHANGED late /\ (Stay(f) \/ Fail(f))
  <2>1. TokenInv' /\ Fresh(f)
    BY <1>5, PurchaseTokens DEF SafeInv
  <2> QED BY <1>2, <1>3, <1>5, <2>1
<1>6. CASE late' = late \cup {f} /\ UNCHANGED sw /\ Fail(f)
  <2>1. TokenInv' /\ Fresh(f)
    BY <1>6, SameCloud, QuietTokens DEF SafeInv
  <2> QED BY <1>0, <1>6, <2>1, FailKeeps
<1> QED BY <1>1, <1>4, <1>5, <1>6 DEF Create, Calm

LEMMA AwaitKeeps ==
    ASSUME TypeOK, SafeInv, NEW f \in Fiber, Await(f)
    PROVE  SafeInv'
<1>1. CASE Fail(f)
  BY <1>1, SameCloud, QuietTokens, FailKeeps DEF Await, SafeInv
<1>2. ASSUME NEW id \in IF Live(cur[f]) THEN {cur[f]} ELSE Named(f), ready(id),
             cur' = [cur EXCEPT ![f] = id], Goto(f, "configure"), Released(f),
             UNCHANGED <<gaveUp, sw, late>>
      PROVE  SafeInv'
  <2>1. LockInv'
    BY <1>2, LeaveKeepsLock DEF SafeInv, Critical
  <2>2. sw[cur[f]].status # "Pending"
    BY <1>2 DEF Live, ready
  <2>3. pc[f] = "await" /\ \A g \in Fiber \ {f} : pc'[g] = pc[g] /\ cur'[g] = cur[g]
    BY <1>2 DEF Await, Goto, TypeOK
  <2>4. PendingInv'
    <3>1. \A i \in Id : sw[i].status = "Pending" => sw[i].token \in Fiber
      BY DEF SafeInv, TokenInv, Live
    <3> QED BY <1>2, <2>2, <2>3, <3>1 DEF SafeInv, PendingInv, vpc
  <2>5. TokenInv' /\ LateInv'
    BY <1>2, SameCloud, QuietTokens DEF SafeInv, LateInv, vpc
  <2> QED BY <2>1, <2>4, <2>5 DEF SafeInv
<1> QED BY <1>1, <1>2 DEF Await

LEMMA ReconcileKeeps ==
    ASSUME TypeOK, SafeInv, NEW f \in Fiber, Reconcile(f)
    PROVE  SafeInv'
<1>1. CASE Start(f)
  <2>1. QuietCloud /\ Released(f) /\ pc[f] \notin {"create", "await"}
    BY <1>1, SameCloud DEF Start, Released, Critical
  <2> QED BY <1>1, <2>1, LeaveKeeps DEF Start, Critical
<1>2. CASE Observe(f)
  <2>1. QuietCloud /\ Released(f) /\ pc[f] \notin {"create", "await"}
    BY <1>2, SameCloud DEF Observe, Released, Critical
  <2>2. \A g \in Fiber \ {f} : cur'[g] = cur[g]
    BY <1>2 DEF Observe, TypeOK
  <2>3. Goto(f, "lock") \/ Goto(f, "configure")
    BY <1>2 DEF Observe
  <2> QED BY <1>2, <2>1, <2>2, <2>3, LeaveKeeps DEF Observe, Critical
<1>3. CASE Acquire(f)
  <2>1. LockInv'
    BY <1>3, AcquireKeepsLock DEF SafeInv
  <2>2. TokenInv' /\ LateInv'
    BY <1>3, SameCloud, QuietTokens DEF SafeInv, Acquire, LateInv, vpc
  <2>3. \A g \in Fiber \ {f} : pc'[g] = pc[g]
    BY <1>3 DEF Acquire, Goto, TypeOK
  <2>4. PendingInv'
    <3>1. \A i \in Id : sw[i].status = "Pending" => sw[i].token \in Fiber
      BY DEF SafeInv, TokenInv, Live
    <3> QED BY <1>3, <2>3, <3>1 DEF SafeInv, PendingInv, Acquire, vpc
  <2> QED BY <2>1, <2>2, <2>4 DEF SafeInv
<1>4. CASE ObserveAgain(f)
  <2>0. QuietCloud /\ pc[f] = "again"
    BY <1>4, SameCloud DEF ObserveAgain
  <2>1. CASE Goto(f, "configure") /\ Released(f)
    <3>1. \A g \in Fiber \ {f} : cur'[g] = cur[g]
      BY <1>4 DEF ObserveAgain, TypeOK
    <3> QED BY <1>4, <2>0, <2>1, <3>1, LeaveKeeps DEF ObserveAgain, Critical
  <2>2. CASE Goto(f, "create") /\ UNCHANGED <<cur, free>>
    <3>1. LockInv'
      BY <2>0, <2>2, InsideKeepsLock DEF SafeInv, Critical
    <3>2. TokenInv' /\ LateInv'
      BY <1>4, <2>0, QuietTokens DEF SafeInv, ObserveAgain, LateInv, vpc
    <3>3. pc'[f] = "create" /\ \A g \in Fiber \ {f} : pc'[g] = pc[g]
      BY <2>2 DEF Goto, TypeOK
    <3>4. PendingInv'
      <4>1. \A i \in Id : sw[i].status = "Pending" => sw[i].token \in Fiber
        BY DEF SafeInv, TokenInv, Live
      <4> QED BY <1>4, <2>2, <3>3, <4>1 DEF SafeInv, PendingInv, ObserveAgain, vpc
    <3> QED BY <3>1, <3>2, <3>4 DEF SafeInv
  <2> QED BY <1>4, <2>1, <2>2 DEF ObserveAgain
<1>5. CASE Create(f)
  BY <1>5, CreateKeeps
<1>6. CASE Await(f)
  BY <1>6, AwaitKeeps
<1>7. CASE Configure(f)
  <2>1. QuietCloud
    <3>1. CASE sw' = [sw EXCEPT ![cur[f]].settled = TRUE]
      <4>1. CASE cur[f] \in Id
        BY <3>1, <4>1, SettledIsQuiet
      <4>2. CASE cur[f] \notin Id
        BY <3>1, <4>2, SameCloud DEF TypeOK
      <4> QED BY <4>1, <4>2
    <3> QED BY <1>7, <3>1, SameCloud DEF Configure
  <2>2. CASE Fail(f)
    BY <1>7, <2>1, <2>2, QuietTokens, FailKeeps DEF Configure, SafeInv
  <2>3. CASE Goto(f, "final") /\ UNCHANGED <<free, cur, left, gaveUp>>
    <3>1. Released(f) /\ pc[f] \notin {"create", "await"}
      BY <1>7, <2>3 DEF Configure, Released, Critical
    <3> QED BY <1>7, <2>1, <2>3, <3>1, LeaveKeeps DEF Configure, Critical
  <2> QED BY <1>7, <2>2, <2>3 DEF Configure
<1>8. CASE Final(f)
  <2>1. QuietCloud
    BY <1>8, SameCloud DEF Final
  <2>2. CASE Fail(f)
    BY <1>8, <2>1, <2>2, QuietTokens, FailKeeps DEF Final, SafeInv
  <2>3. CASE End(f, "done") /\ UNCHANGED <<free, gaveUp>>
    <3>1. Released(f) /\ pc[f] \notin {"create", "await"}
      BY <1>8, <2>3 DEF Final, Released, Critical
    <3>2. Goto(f, "done") /\ \A g \in Fiber \ {f} : cur'[g] = cur[g]
      BY <2>3 DEF End, TypeOK
    <3> QED BY <1>8, <2>1, <2>3, <3>1, <3>2, LeaveKeeps DEF Final, Critical
  <2> QED BY <1>8, <2>2, <2>3 DEF Final
<1> QED BY <1>1, <1>2, <1>3, <1>4, <1>5, <1>6, <1>7, <1>8 DEF Reconcile

\* The ways a step of delete can move its fiber.
LEMMA DeleteMoveKeeps ==
    ASSUME TypeOK, SafeInv, QuietCloud, NEW f \in Fiber, UNCHANGED late,
           pc[f] \notin Critical,
           \/ Again(f) \/ ToWait(f) \/ Fail(f) \/ Stay(f)
           \/ Goto(f, "deleteRequest") /\ UNCHANGED <<free, cur, left, gaveUp>>
           \/ End(f, "gone") /\ UNCHANGED <<free, gaveUp>>
    PROVE  SafeInv'
<1>0. TokenInv'
  BY QuietTokens DEF SafeInv
<1>1. CASE Fail(f)
  BY <1>0, <1>1, FailKeeps
<1>2. CASE Stay(f)
  BY <1>2, StillKeeps DEF Stay
<1>3. ASSUME NEW step \in {"deleteRead", "deleteWait", "deleteRequest", "gone"},
             Goto(f, step), UNCHANGED <<free, gaveUp>>,
             \A g \in Fiber \ {f} : cur'[g] = cur[g]
      PROVE  SafeInv'
  <2>1. Released(f) /\ pc[f] \notin {"create", "await"} /\ step \notin Critical
    BY <1>3 DEF Released, Critical
  <2> QED BY <1>3, <2>1, LeaveKeeps
<1>4. CASE Again(f)
  BY <1>1, <1>3, <1>4 DEF Again
<1>5. CASE ToWait(f)
  BY <1>3, <1>5 DEF ToWait
<1>6. CASE Goto(f, "deleteRequest") /\ UNCHANGED <<free, cur, left, gaveUp>>
  BY <1>3, <1>6
<1>7. CASE End(f, "gone") /\ UNCHANGED <<free, gaveUp>>
  BY <1>3, <1>7 DEF End, TypeOK
<1> QED BY <1>1, <1>2, <1>4, <1>5, <1>6, <1>7

LEMMA DeleteKeeps ==
    ASSUME TypeOK, SafeInv, NEW f \in Fiber, Delete(f)
    PROVE  SafeInv'
<1>1. CASE StartDelete(f)
  <2>1. QuietCloud /\ Released(f) /\ pc[f] \notin {"create", "await"}
    BY <1>1, SameCloud DEF StartDelete, Released, Critical
  <2> QED BY <1>1, <2>1, LeaveKeeps DEF StartDelete, Critical
<1>2. CASE DeleteRead(f)
  BY <1>2, SameCloud, DeleteMoveKeeps DEF DeleteRead, Critical
<1>3. CASE DeleteRequest(f)
  <2>1. CASE UNCHANGED sw
    BY <2>1, SameCloud, <1>3, DeleteMoveKeeps DEF DeleteRequest, Critical
  <2>2. CASE /\ ready(saved[f])
             /\ sw' = [sw EXCEPT ![saved[f]].status = "Deleting"]
    <3>1. CASE saved[f] \in Id
      BY <3>1, <2>2, StatusIsQuiet, <1>3, DeleteMoveKeeps
         DEF DeleteRequest, Critical, Live, ready
    <3>2. CASE saved[f] \notin Id
      <4>1. UNCHANGED sw
        BY <2>2, <3>2 DEF TypeOK
      <4> QED BY <4>1, <2>1
    <3> QED BY <3>1, <3>2
  <2> QED BY <1>3, <2>1, <2>2 DEF DeleteRequest
<1>4. CASE DeleteWait(f)
  BY <1>4, SameCloud, DeleteMoveKeeps DEF DeleteWait, Critical
<1> QED BY <1>1, <1>2, <1>3, <1>4 DEF Delete

LEMMA CloudKeeps ==
    ASSUME TypeOK, SafeInv, CloudStep
    PROVE  SafeInv'
<1>1. ASSUME NEW id \in Id, TaskEnds(id)
      PROVE  SafeInv'
  <2>1. QuietCloud
    BY <1>1, StatusIsQuiet DEF TaskEnds, Live, deleting
  <2> QED BY <1>1, <2>1, StillKeeps DEF TaskEnds
<1>2. ASSUME NEW id \in Id, Drains(id)
      PROVE  SafeInv'
  <2>1. QuietCloud
    BY <1>2 DEF Drains, QuietCloud, Live, TypeOK
  <2> QED BY <1>2, <2>1, StillKeeps DEF Drains
<1>3. ASSUME NEW f \in Fiber, LateLands(f)
      PROVE  SafeInv'
  <2>1. CASE UNCHANGED sw
    BY <1>3, <2>1, SameCloud, StillKeeps DEF LateLands
  <2>2. ASSUME NEW id \in Id, Purchase(f, id)
        PROVE  SafeInv'
    <3>1. TokenInv' /\ Fresh(f)
      BY <2>2, PurchaseTokens DEF SafeInv
    <3>2. gaveUp[vpc(f)]
      BY <1>3 DEF LateLands, SafeInv, LateInv
    <3>3. PendingInv'
      BY <1>3, <3>1, <3>2 DEF LateLands, SafeInv, PendingInv, Fresh, vpc
    <3>4. LockInv'
      BY <1>3, StayKeepsLock DEF LateLands, SafeInv
    <3>5. LateInv'
      BY <1>3 DEF LateLands, SafeInv, LateInv, vpc
    <3> QED BY <3>1, <3>3, <3>4, <3>5 DEF SafeInv
  <2> QED BY <1>3, <2>1, <2>2 DEF LateLands
<1> QED BY <1>1, <1>2, <1>3 DEF CloudStep

LEMMA ProcessDiesKeeps ==
    ASSUME TypeOK, SafeInv, ProcessDies
    PROVE  SafeInv'
<1>1. \A f \in Fiber : pc'[f] \notin Critical
  BY DEF ProcessDies, Critical
<1>2. LockInv'
  BY <1>1 DEF LockInv, CreatesExclude
<1>3. TokenInv'
  BY SameCloud, QuietTokens DEF ProcessDies, SafeInv
<1>4. \A v \in Vpc : gaveUp'[v] = (gaveUp[v] \/ \E f \in Fiber : vpc(f) = v /\ pc[f] \in Critical)
  BY DEF ProcessDies
<1>5. PendingInv'
  <2> SUFFICES ASSUME NEW id \in Id, sw[id].status = "Pending"
               PROVE  gaveUp'[vpc(sw[id].token)]
    BY DEF PendingInv, ProcessDies, vpc
  <2>1. sw[id].token \in Fiber
    BY DEF SafeInv, TokenInv, Live
  <2> QED BY <1>4, <2>1, VpcType DEF SafeInv, PendingInv, Critical
<1>6. LateInv'
  BY <1>4, VpcType DEF ProcessDies, SafeInv, LateInv, TypeOK, vpc
<1> QED BY <1>2, <1>3, <1>5, <1>6 DEF SafeInv

LEMMA DisturbanceKeeps ==
    ASSUME TypeOK, SafeInv, Disturbance
    PROVE  SafeInv'
<1>1. ASSUME NEW id \in Id, ConsoleChange(id)
      PROVE  SafeInv'
  <2>1. QuietCloud
    BY <1>1, StatusIsQuiet, SettledIsQuiet, HeldIsQuiet
       DEF ConsoleChange, Live, ready, Holder
  <2> QED BY <1>1, <2>1, StillKeeps DEF ConsoleChange
<1>2. ASSUME NEW f \in Fiber, Interrupt(f)
      PROVE  SafeInv'
  BY <1>2, SameCloud, QuietTokens, FailKeeps DEF Interrupt, SafeInv
<1>3. ASSUME NEW f \in Fiber, Redeploy(f)
      PROVE  SafeInv'
  <2>1. QuietCloud /\ Released(f) /\ pc[f] \notin {"create", "await"}
    BY <1>3, SameCloud DEF Redeploy, Released, Critical
  <2> QED BY <1>3, <2>1, LeaveKeeps DEF Redeploy, Critical
<1>4. CASE Destroy
  BY <1>4, SameCloud, StillKeeps DEF Destroy
<1> QED BY <1>1, <1>2, <1>3, <1>4, ProcessDiesKeeps DEF Disturbance

LEMMA NextKeeps ==
    ASSUME TypeOK, SafeInv, [Next]_vars
    PROVE  SafeInv'
<1>1. CASE UNCHANGED vars
  BY <1>1, SameCloud, StillKeeps DEF vars
<1> QED BY <1>1, ReconcileKeeps, DeleteKeeps, CloudKeeps, DisturbanceKeeps DEF Next

LEMMA Safe == Spec => []SafeInv
<1>1. Init => SafeInv
  BY InitSafe
<1>2. TypeOK /\ SafeInv /\ [Next]_vars => SafeInv'
  BY NextKeeps
<1> QED BY <1>1, <1>2, TypeCorrect, PTL DEF Spec

\* Creations in one VPC exclude each other.
THEOREM MutualExclusion == Spec => []CreatesExclude
BY Safe, InvImpliesProperties, PTL

\* The semaphore keeps the exclusive API happy for as long as nothing was
\* abandoned, whatever the number of fibers and VPCs.
THEOREM CreatesAreAccepted == Spec => []NoRefusedCreate
BY Safe, InvImpliesProperties, PTL

-----------------------------------------------------------------------------
(* One vSwitch per name. *)

\* The case in which a name may be bought twice.
Excused(f) == LateRequests /\ gaveUp[vpc(f)]

\* What a fiber saw by its second observation stays true while it creates:
\* a vSwitch that bears the name is one it has bought itself.
NameInv ==
    /\ late # {} => LateRequests
    /\ OnePerName
    /\ \A f \in Fiber : (pc[f] = "create" /\ ~Excused(f))
                           => \A id \in Named(f) : sw[id].token = f

\* A step that moves fibers, none of them to a creation it has not looked for.
Moves ==
    /\ \A v \in Vpc : gaveUp[v] => gaveUp'[v]
    /\ \A g \in Fiber : pc'[g] = "create" => pc[g] = "create" \/ Named(g) = {}

LEMMA GotoMoves ==
    ASSUME TypeOK, NEW f \in Fiber, NEW step, step # "create",
           Goto(f, step), UNCHANGED gaveUp
    PROVE  Moves
BY DEF TypeOK, Goto, Moves

LEMMA FailMoves ==
    ASSUME TypeOK, NEW f \in Fiber, Fail(f)
    PROVE  Moves
<1>1. \A v \in Vpc : gaveUp[v] => gaveUp'[v]
  BY VpcType DEF Fail, Abandon, TypeOK
<1>2. \A g \in Fiber : pc'[g] = "create" => pc[g] = "create"
  BY DEF Fail, End, Goto, TypeOK
<1> QED BY <1>1, <1>2 DEF Moves

LEMMA StayMoves ==
    ASSUME UNCHANGED <<pc, gaveUp>>
    PROVE  Moves
BY DEF Moves

LEMMA QuietKeepsNames ==
    ASSUME TypeOK, SafeInv, NameInv, QuietCloud, Moves,
           late' \subseteq late \/ LateRequests
    PROVE  NameInv'
<1>0. \A f \in Fiber : Excused(f) => Excused(f)'
  BY VpcType DEF Excused, Moves, vpc
<1>1. \A i \in Id : Live(i)' => Live(i) /\ sw[i].token \in Fiber /\ sw'[i].token = sw[i].token
  BY DEF QuietCloud, SafeInv, TokenInv
<1>2. OnePerName'
  BY <1>0, <1>1 DEF NameInv, OnePerName, Excused, vpc
<1>3. \A f \in Fiber : Named(f)' \subseteq Named(f)
  BY <1>1 DEF Named
<1>4. ASSUME NEW f \in Fiber, pc'[f] = "create", ~Excused(f)', NEW id \in Named(f)'
      PROVE  sw'[id].token = f
  <2>1. id \in Named(f) /\ pc[f] = "create"
    BY <1>3, <1>4 DEF Moves
  <2>2. id \in Id /\ Live(id)'
    BY <1>4 DEF Named
  <2> QED BY <1>0, <1>1, <1>4, <2>1, <2>2 DEF NameInv
<1> QED BY <1>2, <1>4 DEF NameInv

\* A purchase by the fiber that creates, or one whose creation was abandoned.
LEMMA PurchaseKeepsNames ==
    ASSUME TypeOK, SafeInv, NameInv, NEW f \in Fiber, NEW id \in Id, Purchase(f, id),
           pc[f] = "create" \/ Excused(f), late' \subseteq late, Moves,
           \A g \in Fiber : pc'[g] = "create" => pc[g] = "create"
    PROVE  NameInv'
<1>1. CASE Bought(f) # {}
  BY <1>1, SameCloud, QuietKeepsNames DEF Purchase
<1>2. CASE Bought(f) = {}
  <2> DEFINE new == [Blank EXCEPT !.status = "Pending", !.token = f]
  <2>1. sw' = [sw EXCEPT ![id] = new]
    BY <1>2 DEF Purchase
  <2>2. new.token = f
    BY DEF Blank
  <2>3. sw'[id] = new /\ \A i \in Id \ {id} : sw'[i] = sw[i]
    BY <2>1 DEF TypeOK
  <2> HIDE DEF new
  <2>4. \A i \in Id \ {id} : (Live(i)' <=> Live(i)) /\ (Live(i) => sw[i].token \in Fiber)
    BY <2>3 DEF Live, SafeInv, TokenInv
  <2>5. \A g \in Fiber : Excused(g) => Excused(g)'
    BY VpcType DEF Excused, Moves, vpc
  <2>6. ~Excused(f) => Named(f) = {}
    BY <1>2 DEF NameInv, Named, Bought
  <2>7. \A g \in Fiber : nameOf[g] = nameOf[f] => vpc(g) = vpc(f)
    BY DEF vpc
  <2>8. OnePerName'
    <3> SUFFICES ASSUME NEW i \in Id, NEW j \in Id, i # j, Live(i)', Live(j)',
                        nameOf[sw'[i].token] = nameOf[sw'[j].token]
                 PROVE  LateRequests /\ gaveUp'[vpc(sw'[i].token)]
      BY DEF OnePerName, vpc
    <3>1. CASE i # id /\ j # id
      <4>1. LateRequests /\ gaveUp[vpc(sw[i].token)]
        BY <2>3, <2>4, <3>1 DEF NameInv, OnePerName
      <4> QED BY <2>3, <2>4, <3>1, <4>1, VpcType DEF Moves
    <3>2. CASE i = id \/ j = id
      <4>1. Named(f) # {}
        BY <2>2, <2>3, <2>4, <3>2 DEF Named
      <4>2. Excused(f)'
        BY <2>5, <2>6, <4>1
      <4>3. vpc(sw'[i].token) = vpc(f)
        BY <2>2, <2>3, <2>4, <2>7, <3>2
      <4> QED BY <4>2, <4>3 DEF Excused, vpc
    <3> QED BY <3>1, <3>2
  <2>9. ASSUME NEW g \in Fiber, pc'[g] = "create", ~Excused(g)', NEW i \in Named(g)'
        PROVE  sw'[i].token = g
    <3>1. i \in Id /\ Live(i)' /\ nameOf[sw'[i].token] = nameOf[g] /\ ~Excused(g)
      BY <2>5, <2>9 DEF Named
    <3>2. CASE i # id
      BY <2>3, <2>4, <2>9, <3>1, <3>2 DEF NameInv, Named, Moves
    <3>3. CASE i = id /\ g # f
      <4>1. nameOf[g] = nameOf[f] /\ vpc(g) = vpc(f)
        BY <2>2, <2>3, <2>7, <3>1, <3>3
      <4>2. ~Excused(f) /\ pc[f] = "create"
        BY <3>1, <4>1 DEF Excused
      <4>3. pc[g] \notin Critical
        BY <3>3, <4>1, <4>2 DEF SafeInv, LockInv, CreatesExclude, Critical
      <4> QED BY <2>9, <4>3 DEF Critical
    <3> QED BY <2>2, <2>3, <3>2, <3>3
  <2> QED BY <2>8, <2>9 DEF NameInv
<1> QED BY <1>1, <1>2

LEMMA CreateKeepsNames ==
    ASSUME TypeOK, SafeInv, NameInv, NEW f \in Fiber, Create(f)
    PROVE  NameInv'
<1>0. pc[f] = "create"
  BY DEF Create
<1>1. /\ Moves /\ \A g \in Fiber : pc'[g] = "create" => pc[g] = "create"
  <2>1. CASE Fail(f)
    BY <2>1, FailMoves DEF Fail, End, Goto, TypeOK
  <2>2. CASE Stay(f)
    BY <2>2, StayMoves DEF Stay
  <2>3. CASE Goto(f, "await") /\ UNCHANGED gaveUp
    BY <2>3, GotoMoves DEF Goto, TypeOK
  <2> QED BY <2>1, <2>2, <2>3 DEF Create
<1>2. CASE UNCHANGED sw
  BY <1>1, <1>2, SameCloud, QuietKeepsNames DEF Create
<1>3. CASE \E id \in Id : Purchase(f, id) /\ UNCHANGED late
  BY <1>0, <1>1, <1>3, PurchaseKeepsNames
<1> QED BY <1>2, <1>3 DEF Create

LEMMA ReconcileKeepsNames ==
    ASSUME TypeOK, SafeInv, NameInv, NEW f \in Fiber, Reconcile(f)
    PROVE  NameInv'
<1>1. CASE Start(f)
  BY <1>1, SameCloud, GotoMoves, QuietKeepsNames DEF Start
<1>2. CASE Observe(f)
  BY <1>2, SameCloud, GotoMoves, QuietKeepsNames DEF Observe
<1>3. CASE Acquire(f)
  BY <1>3, SameCloud, GotoMoves, QuietKeepsNames DEF Acquire
<1>4. CASE ObserveAgain(f)
  <2>1. CASE Goto(f, "configure")
    BY <1>4, <2>1, SameCloud, GotoMoves, QuietKeepsNames DEF ObserveAgain
  <2>2. CASE Found(f) = {} /\ Goto(f, "create")
    <3>1. Named(f) = {}
      BY <2>2 DEF Found
    <3>2. Moves
      BY <1>4, <2>2, <3>1 DEF ObserveAgain, Moves, Goto, TypeOK
    <3> QED BY <1>4, <3>2, SameCloud, QuietKeepsNames DEF ObserveAgain
  <2> QED BY <1>4, <2>1, <2>2 DEF ObserveAgain
<1>5. CASE Create(f)
  BY <1>5, CreateKeepsNames
<1>6. CASE Await(f)
  BY <1>6, SameCloud, GotoMoves, FailMoves, QuietKeepsNames DEF Await
<1>7. CASE Configure(f)
  <2>1. QuietCloud
    <3>1. CASE sw' = [sw EXCEPT ![cur[f]].settled = TRUE] /\ cur[f] \in Id
      BY <3>1, SettledIsQuiet
    <3>2. CASE sw' = [sw EXCEPT ![cur[f]].settled = TRUE] /\ cur[f] \notin Id
      BY <3>2, SameCloud DEF TypeOK
    <3> QED BY <1>7, <3>1, <3>2, SameCloud DEF Configure
  <2> QED BY <1>7, <2>1, GotoMoves, FailMoves, QuietKeepsNames DEF Configure
<1>8. CASE Final(f)
  BY <1>8, SameCloud, GotoMoves, FailMoves, QuietKeepsNames DEF Final, End
<1> QED BY <1>1, <1>2, <1>3, <1>4, <1>5, <1>6, <1>7, <1>8 DEF Reconcile

LEMMA DeleteKeepsNames ==
    ASSUME TypeOK, SafeInv, NameInv, NEW f \in Fiber, Delete(f)
    PROVE  NameInv'
<1>1. CASE StartDelete(f)
  BY <1>1, SameCloud, GotoMoves, QuietKeepsNames DEF StartDelete
<1>2. Again(f) \/ ToWait(f) => Moves
  BY GotoMoves, FailMoves DEF Again, ToWait
<1>3. CASE DeleteRead(f)
  BY <1>2, <1>3, SameCloud, GotoMoves, QuietKeepsNames DEF DeleteRead
<1>4. CASE DeleteRequest(f)
  <2>1. Moves
    BY <1>2, <1>4, FailMoves, StayMoves DEF DeleteRequest, Stay
  <2>2. QuietCloud
    <3>1. CASE UNCHANGED sw
      BY <3>1, SameCloud
    <3>2. CASE /\ ready(saved[f]) /\ saved[f] \in Id
               /\ sw' = [sw EXCEPT ![saved[f]].status = "Deleting"]
      BY <3>2, StatusIsQuiet DEF Live, ready
    <3>3. CASE sw' = [sw EXCEPT ![saved[f]].status = "Deleting"] /\ saved[f] \notin Id
      BY <3>3, SameCloud DEF TypeOK
    <3> QED BY <1>4, <3>1, <3>2, <3>3 DEF DeleteRequest
  <2> QED BY <1>4, <2>1, <2>2, QuietKeepsNames DEF DeleteRequest
<1>5. CASE DeleteWait(f)
  BY <1>5, SameCloud, GotoMoves, FailMoves, QuietKeepsNames DEF DeleteWait, End
<1> QED BY <1>1, <1>3, <1>4, <1>5 DEF Delete

LEMMA OutsideKeepsNames ==
    ASSUME TypeOK, SafeInv, NameInv, CloudStep \/ Disturbance
    PROVE  NameInv'
<1>1. ASSUME NEW id \in Id, TaskEnds(id) \/ Drains(id) \/ ConsoleChange(id)
      PROVE  NameInv'
  <2>1. QuietCloud
    BY <1>1, StatusIsQuiet, SettledIsQuiet, HeldIsQuiet
       DEF TaskEnds, Drains, ConsoleChange, Live, ready, deleting, Holder
  <2>2. Moves /\ UNCHANGED late
    BY <1>1, StayMoves DEF TaskEnds, Drains, ConsoleChange
  <2> QED BY <2>1, <2>2, QuietKeepsNames
<1>2. ASSUME NEW f \in Fiber, LateLands(f)
      PROVE  NameInv'
  <2>1. Excused(f)
    BY <1>2 DEF LateLands, Excused, NameInv, SafeInv, LateInv
  <2>2. Moves /\ UNCHANGED pc /\ late' \subseteq late
    BY <1>2, StayMoves DEF LateLands
  <2>3. CASE UNCHANGED sw
    BY <2>2, <2>3, SameCloud, QuietKeepsNames
  <2>4. CASE \E id \in Id : Purchase(f, id)
    BY <2>1, <2>2, <2>4, PurchaseKeepsNames
  <2> QED BY <1>2, <2>3, <2>4 DEF LateLands
<1>3. ASSUME NEW f \in Fiber, Interrupt(f) \/ Redeploy(f)
      PROVE  NameInv'
  BY <1>3, SameCloud, FailMoves, GotoMoves, QuietKeepsNames DEF Interrupt, Redeploy
<1>4. CASE ProcessDies
  <2>1. Moves
    BY <1>4 DEF ProcessDies, Moves
  <2> QED BY <1>4, <2>1, SameCloud, QuietKeepsNames DEF ProcessDies
<1>5. CASE Destroy
  BY <1>5, SameCloud, StayMoves, QuietKeepsNames DEF Destroy
<1> QED BY <1>1, <1>2, <1>3, <1>4, <1>5 DEF CloudStep, Disturbance

LEMMA InitNames == Init => NameInv
<1> SUFFICES ASSUME Init PROVE NameInv
  OBVIOUS
<1>1. \A id \in Id : ~Live(id)
  BY DEF Init, Blank, Live
<1> QED BY <1>1 DEF Init, NameInv, OnePerName

\* Reconciles that share a name end up with one vSwitch, however many they are
\* and wherever they fail; only a request that lands after its caller moved on
\* can buy a second one.
THEOREM NamesAreUnique == Spec => []OnePerName
<1>1. Init => NameInv
  BY InitNames
<1>2. TypeOK /\ SafeInv /\ NameInv /\ [Next]_vars => NameInv'
  <2> SUFFICES ASSUME TypeOK, SafeInv, NameInv, [Next]_vars
               PROVE  NameInv'
    OBVIOUS
  <2>1. CASE UNCHANGED vars
    BY <2>1, SameCloud, StayMoves, QuietKeepsNames DEF vars
  <2> QED BY <2>1, ReconcileKeepsNames, DeleteKeepsNames, OutsideKeepsNames DEF Next
<1>3. NameInv => OnePerName
  BY DEF NameInv
<1> QED BY <1>1, <1>2, <1>3, Safe, TypeCorrect, PTL DEF Spec
=============================================================================
