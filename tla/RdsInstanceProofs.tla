------------------------- MODULE RdsInstanceProofs -------------------------
(***************************************************************************)
(* Proofs about RdsInstance, for any set of identities and desired inputs  *)
(* and any bounds: the state is well typed, one resource never pays for    *)
(* two instances, an instance of somebody else is never touched, no change *)
(* of specification is ordered twice, and a finished destroy has released  *)
(* what it was to release.                                                 *)
(***************************************************************************)
EXTENDS RdsInstance, FiniteSetTheorems, TLAPS

\* The steps that work on an instance, and those past its ownership check.
Holding == Reconciling \ {"observe", "create", "recover"}
Owning == (Holding \ {"owner", "recoverOwner"}) \cup Deleting

\* An instance that was bought for this resource.
Mine(id) == id \in Id /\ inst[id].token = createToken

\* The engine runs one handler at a time, on what it has saved.
EngineInv ==
    /\ intent = "absent" => output # NoId
    /\ pc \in Reconciling => intent = "present"
    /\ pc \in Deleting \cup {"gone"} => intent = "absent"
    /\ pc \in Deleting => cur = output
    /\ pc \in Holding => cur # NoId

\* Whose an identity is: somebody else's, nobody's yet, or bought by this
\* resource; and of the latter one is alive.
CloudInv ==
    /\ \A id \in theirs : /\ inst[id].status = "Running" /\ ~inst[id].tagged
                          /\ inst[id].token = 0
    /\ \A id \in Id \ theirs :
          IF inst[id].status = "unborn" THEN inst[id].token = 0 /\ ~inst[id].tagged
                                        ELSE inst[id].token = createToken
    /\ \A i, j \in Id : (Mine(i) /\ Mine(j) /\ Live(i) /\ Live(j)) => i = j

\* Whatever a handler, the engine or a late request is about was bought for
\* this resource.
OwnInv ==
    /\ output # NoId => Mine(output)
    /\ pc \in Owning => Mine(cur)
    /\ \A r \in late : r.op # "Create" => Mine(r.id)

\* The copy on which a change of specification is decided is not outdated.
SpecInv ==
    /\ \A id \in Id : inst[id].status # "Modifying" => inst[id].next = inst[id].spec
    /\ ~LateRequests =>
          /\ late = {}
          /\ pc \in {"describe", "protect", "protectWait", "resize"} =>
                inst[cur].status # "Modifying" /\ seen.spec = inst[cur].spec

\* Without accidents from outside there is one purchase, and it ends only by
\* a destroy.
GoneInv ==
    /\ pc = "gone" => inst[output].status = "released"
    /\ (~Releases /\ ~LateRequests) =>
          /\ \A i, j \in Id : (Mine(i) /\ Mine(j)) => i = j
          /\ \A id \in Id : (Mine(id) /\ inst[id].status \in {"Deleting", "released"})
                               => intent = "absent"

SafeInv == EngineInv /\ CloudInv /\ OwnInv /\ SpecInv /\ GoneInv

-----------------------------------------------------------------------------
(* How a step may change the cloud. *)

\* No instance appears; whoever changed something changed what is ours; and a
\* specification changes by a task that was ordered.
Gentle ==
    \A id \in Id :
       /\ inst'[id].token = inst[id].token
       /\ inst'[id].tagged => inst[id].tagged \/ Mine(id)
       /\ inst'[id].status = "unborn" <=> inst[id].status = "unborn"
       /\ inst[id].status = "released" => inst'[id].status = "released"
       /\ id \in theirs => inst'[id] = inst[id]
       /\ (inst[id].status # "Modifying" => inst[id].next = inst[id].spec)
             => /\ inst'[id].status # "Modifying" => inst'[id].next = inst'[id].spec
                /\ (inst[id].status # "Modifying" /\ inst'[id].status # "Modifying")
                      => inst'[id].spec = inst[id].spec

NothingResized ==
    \A id \in Id : inst'[id].status = "Modifying" => inst[id].status = "Modifying"

NothingReleased ==
    \A id \in Id : (Mine(id) /\ inst'[id].status \in {"Deleting", "released"})
                      => inst[id].status \in {"Deleting", "released"}

\* What the action properties say of one step.
StepProps ==
    /\ \A id \in theirs : inst'[id] = inst[id]
    /\ ~LateRequests =>
          \A id \in Id : (ready(inst[id]) /\ inst'[id].status = "Modifying")
                            => inst'[id].next # inst[id].spec

\* A purchase, by this resource or by somebody else.
Birth(id, status, token) ==
    /\ id \in Id /\ inst[id].status = "unborn"
    /\ \E a \in Instance :
          /\ inst' = [inst EXCEPT ![id] = a]
          /\ a.status = status /\ a.token = token /\ a.next = a.spec
          /\ a.tagged => token = createToken

LEMMA SameCloud == UNCHANGED inst => Gentle /\ NothingResized /\ NothingReleased
BY DEF Gentle, NothingResized, NothingReleased

LEMMA GentleProps ==
    ASSUME TypeOK, Gentle, NothingResized \/ LateRequests
    PROVE  StepProps
BY DEF TypeOK, Gentle, NothingResized, StepProps, ready

LEMMA BlankType ==
    ASSUME NEW w \in Wanted
    PROVE  Blank(w) \in Instance
BY WantedAssumption DEF Blank, Instance, SpecValue

\* What a request makes of an instance.
LEMMA ChangedFacts ==
    ASSUME NEW r \in Request, r.op # "Create", NEW i \in Instance
    PROVE  /\ Changed(r, i) \in Instance
           /\ Changed(r, i).token = i.token /\ Changed(r, i).spec = i.spec
           /\ Changed(r, i).tagged => i.tagged \/ r.op = "Tag"
           /\ Changed(r, i).next = (IF r.op = "Resize" THEN r.want.spec ELSE i.next)
           /\ Changed(r, i).status = (IF r.op = "Resize" THEN "Modifying"
                                      ELSE IF r.op = "Delete" THEN "Deleting"
                                      ELSE i.status)
<1>0. /\ r.want \in Wanted /\ r.want.spec \in SpecValue /\ r.want.prot \in BOOLEAN
      /\ r.want.ips \in { w.ips : w \in Wanted }
      /\ r.want.settings \in { w.settings : w \in Wanted }
  BY WantedAssumption DEF Request, SpecValue
<1>1. CASE r.op = "Describe"
  BY <1>1 DEF Changed, Instance
<1>2. CASE r.op = "Tag"
  BY <1>2 DEF Changed, Instance
<1>3. CASE r.op = "Protect"
  BY <1>0, <1>3 DEF Changed, Instance
<1>4. CASE r.op = "Unprotect"
  BY <1>4 DEF Changed, Instance
<1>5. CASE r.op = "Resize"
  BY <1>0, <1>5 DEF Changed, Instance
<1>6. CASE r.op = "ModifySecurityIps"
  BY <1>0, <1>6 DEF Changed, Instance
<1>7. CASE r.op = "ModifySettings"
  BY <1>0, <1>7 DEF Changed, Instance
<1>8. CASE r.op = "Delete"
  BY <1>8 DEF Changed, Instance
<1> QED BY <1>1, <1>2, <1>3, <1>4, <1>5, <1>6, <1>7, <1>8 DEF Request

LEMMA TakeType ==
    ASSUME TypeOK, NEW r \in Request, Take(r)
    PROVE  inst' \in [Id -> Instance]
<1>1. CASE r.op # "Create"
  BY <1>1, ChangedFacts DEF Take, TypeOK
<1>2. ASSUME NEW id \in Fresh, Purchase(r.want, id)
      PROVE  inst' \in [Id -> Instance]
  <2>1. r.want \in Wanted
    BY DEF Request
  <2>2. PICK v \in Wanted, u \in Wanted :
           inst' = [inst EXCEPT ![id] =
                     [Blank(r.want) EXCEPT !.status = "Creating", !.ips = v.ips,
                                           !.settings = u.settings,
                                           !.tagged = ~Restore,
                                           !.token = createToken]]
    BY <1>2 DEF Purchase
  <2>3. Restore \in BOOLEAN
    BY SetupAssumption DEF TypeOK, Restore
  <2>4. [Blank(r.want) EXCEPT !.status = "Creating", !.ips = v.ips,
                              !.settings = u.settings, !.tagged = ~Restore,
                              !.token = createToken] \in Instance
    BY <2>1, <2>3, BlankType DEF Instance, createToken
  <2> QED BY <2>2, <2>4 DEF TypeOK
<1> QED BY <1>1, <1>2 DEF Take, TypeOK

\* A request about an instance of ours changes only that one.
LEMMA TakeIsGentle ==
    ASSUME TypeOK, CloudInv, NEW r \in Request, r.op # "Create", Mine(r.id), Take(r)
    PROVE  /\ Gentle
           /\ r.op # "Resize" => NothingResized
           /\ r.op # "Delete" => NothingReleased
<1> DEFINE i == inst[r.id]
           c == Changed(r, i)
<1>1. r.id \in Id /\ i \in Instance
  BY DEF Mine, TypeOK
<1>2. inst'[r.id] = c /\ \A id \in Id \ {r.id} : inst'[id] = inst[id]
  BY <1>1 DEF Take, TypeOK
<1>3. r.id \notin theirs
  BY DEF CloudInv, Mine, createToken
<1>4. i.status \notin {"unborn", "released"}
  BY DEF Take, Accepts, ready, Live
<1>5. r.op \in {"Resize", "Delete"} => ready(i)
  BY DEF Take, Accepts
<1> HIDE DEF i, c
<1>6. /\ c.token = i.token /\ c.spec = i.spec
      /\ c.tagged => i.tagged \/ r.op = "Tag"
      /\ c.next = (IF r.op = "Resize" THEN r.want.spec ELSE i.next)
      /\ c.status = (IF r.op = "Resize" THEN "Modifying"
                     ELSE IF r.op = "Delete" THEN "Deleting" ELSE i.status)
  BY <1>1, ChangedFacts DEF c
<1>7. inst[r.id] = i
  BY DEF i
<1>8. Gentle
  BY <1>1, <1>2, <1>3, <1>4, <1>5, <1>6, <1>7 DEF Gentle, ready
<1>9. r.op # "Resize" => NothingResized
  BY <1>2, <1>6, <1>7 DEF NothingResized
<1>10. r.op # "Delete" => NothingReleased
  BY <1>2, <1>6, <1>7 DEF NothingReleased
<1> QED BY <1>8, <1>9, <1>10

\* A purchase is made once.
LEMMA TakeIsBirth ==
    ASSUME TypeOK, NEW r \in Request, r.op = "Create", Take(r)
    PROVE  \/ UNCHANGED inst
           \/ Bought(createToken) = {} /\ \E id \in Id : Birth(id, "Creating", createToken)
<1> SUFFICES ASSUME Bought(createToken) = {}, NEW id \in Fresh, Purchase(r.want, id)
             PROVE  \E x \in Id : Birth(x, "Creating", createToken)
  BY DEF Take
<1>1. id \in Id /\ inst[id].status = "unborn"
  BY DEF Fresh, Unborn
<1>2. r.want \in Wanted
  BY DEF Request
<1>3. Restore \in BOOLEAN
  BY SetupAssumption DEF TypeOK, Restore
<1>4. PICK v \in Wanted, u \in Wanted :
         inst' = [inst EXCEPT ![id] =
                   [Blank(r.want) EXCEPT !.status = "Creating", !.ips = v.ips,
                                         !.settings = u.settings,
                                         !.tagged = ~Restore,
                                         !.token = createToken]]
  BY DEF Purchase
<1> DEFINE a == [Blank(r.want) EXCEPT !.status = "Creating", !.ips = v.ips,
                                      !.settings = u.settings, !.tagged = ~Restore,
                                      !.token = createToken]
<1>5. /\ a \in Instance /\ a.status = "Creating" /\ a.token = createToken
      /\ a.next = a.spec
  BY <1>2, <1>3, BlankType DEF Instance, createToken, Blank
<1> QED BY <1>1, <1>4, <1>5 DEF Birth

-----------------------------------------------------------------------------
(* How a step may move the handler. *)

Copies == [spec : SpecValue, prot : BOOLEAN, named : BOOLEAN]

ControlType ==
    /\ output \in Id \cup {NoId} /\ cur \in Id \cup {NoId}
    /\ pc \in {"idle", "gone"} \cup Reconciling \cup Deleting
    /\ seen \in Copies /\ left \in 0..DeleteAttempts

\* A step of a handler: it ends, stays where it is, goes on with the instance
\* it has, or finds one.
Advances ==
    \/ Idle
    \/ UNCHANGED handler
    \/ /\ cur' = cur /\ seen' \in Copies /\ left' \in 0..DeleteAttempts
       /\ \/ pc \in Holding /\ pc' \in Holding
          \/ pc \in Reconciling /\ pc' \in {"create", "recover"}
          \/ pc \in Deleting /\ pc' \in Deleting \cup {"gone"}
    \/ cur' \in Id /\ UNCHANGED <<seen, left>> /\ pc \in Reconciling /\ pc' \in Holding

LEMMA NoCopyType ==
    ASSUME TypeOK
    PROVE  NoCopy \in Copies
<1>1. news.spec \in SpecValue
  BY DEF TypeOK, SpecValue
<1>2. (CHOOSE s \in SpecValue : TRUE) \in SpecValue
  BY <1>1
<1> QED BY <1>2 DEF NoCopy, Copies

LEMMA CopyType ==
    ASSUME TypeOK, NEW id \in Id
    PROVE  Copy(inst[id]) \in Copies
BY DEF TypeOK, Instance, Copy, Copies

LEMMA AdvanceKeeps ==
    ASSUME TypeOK, EngineInv, Advances, UNCHANGED engine
    PROVE  ControlType' /\ EngineInv'
<1>0. ControlType
  BY DEF TypeOK, ControlType, Copies
<1>1. CASE Idle
  <2>1. 0 \in 0..DeleteAttempts
    BY BoundsAssumption
  <2> QED BY <1>0, <1>1, <2>1, NoCopyType
          DEF Idle, engine, ControlType, EngineInv, Reconciling, Deleting, Holding
<1>2. CASE UNCHANGED handler
  BY <1>0, <1>2 DEF handler, engine, ControlType, EngineInv
<1>3. CASE /\ cur' = cur /\ seen' \in Copies /\ left' \in 0..DeleteAttempts
           /\ \/ pc \in Holding /\ pc' \in Holding
              \/ pc \in Reconciling /\ pc' \in {"create", "recover"}
              \/ pc \in Deleting /\ pc' \in Deleting \cup {"gone"}
  <2>1. pc' \in {"idle", "gone"} \cup Reconciling \cup Deleting
    BY <1>3 DEF Holding, Reconciling
  <2> QED BY <1>0, <1>3, <2>1
          DEF engine, ControlType, EngineInv, Reconciling, Deleting, Holding
<1>4. CASE cur' \in Id /\ UNCHANGED <<seen, left>> /\ pc \in Reconciling /\ pc' \in Holding
  BY <1>0, <1>4, NoIdAssumption
     DEF engine, ControlType, EngineInv, Reconciling, Deleting, Holding
<1> QED BY <1>1, <1>2, <1>3, <1>4 DEF Advances

\* The requests a handler may send at its step.
Sendable == {"Create", "Describe", "Protect", "Unprotect", "Resize",
             "ModifySecurityIps", "ModifySettings", "Tag", "Delete"}
Sent(op) == Ask(op, IF op = "Create" THEN NoId ELSE cur)
MaySend(op) ==
    /\ op \in Sendable
    /\ op = "Create" => pc = "create"
    /\ op # "Create" => pc \in Owning
    /\ op = "Delete" => pc \in Deleting
    /\ op = "Resize" => pc = "resize" /\ seen.spec # news.spec

Reaches(r) ==
    \/ (Take(r) \/ UNCHANGED inst) /\ late' = late
    \/ LateRequests /\ late' = late \cup {r} /\ UNCHANGED inst

\* The steps between the copy and the change of specification.
Deciding == {"describe", "protect", "protectWait", "resize"}

\* What every step of a handler does.
HandlerStep ==
    /\ UNCHANGED <<listed, theirs, touched, engine>>
    /\ upsets' \in 0..MaxUpsets
    /\ Advances
    /\ UNCHANGED <<inst, late>> \/ \E op : MaySend(op) /\ Reaches(Sent(op))
    /\ pc' \in Owning => \/ pc \in Owning /\ cur' = cur
                         \/ cur' \in Id /\ inst'[cur'].token = createToken
    /\ pc' \in Deciding =>
          \/ pc \in Deciding \ {"resize"} /\ cur' = cur /\ seen' = seen
          \/ /\ cur' \in Id /\ ready(inst[cur']) /\ seen'.spec = inst[cur'].spec
             /\ UNCHANGED inst
    /\ pc' = "gone" => pc \in Deleting /\ ~Live(cur) /\ UNCHANGED inst

LEMMA SentType ==
    ASSUME TypeOK, NEW op, MaySend(op)
    PROVE  Sent(op) \in Request /\ Sent(op).op = op
BY DEF TypeOK, MaySend, Sendable, Sent, Ask, Request

LEMMA UpsetType ==
    ASSUME TypeOK, Upset \/ UNCHANGED upsets
    PROVE  upsets' \in 0..MaxUpsets
BY BoundsAssumption DEF TypeOK, Upset

\* A handler that goes on where it was, without a request.
LEMMA SkipStep ==
    ASSUME TypeOK, EngineInv, NEW then, Skip(then),
           \/ pc \in Owning /\ pc \in Holding /\ then \in Holding \cap Owning
           \/ pc \in Reconciling /\ then \in {"create", "recover"},
           then \in Deciding => pc \in Deciding \ {"resize"}
    PROVE  HandlerStep
<1>1. Advances
  BY DEF Skip, Goto, Advances, TypeOK, Copies
<1>2. upsets' \in 0..MaxUpsets
  BY UpsetType DEF Skip
<1>3. UNCHANGED <<inst, listed, late, theirs, touched, engine, cur, seen>> /\ pc' = then
  BY DEF Skip, Goto, cloud
<1>4. then # "gone" /\ (then \in {"create", "recover"} => then \notin Owning)
  BY DEF Owning, Holding, Deleting, Reconciling
<1> QED BY <1>1, <1>2, <1>3, <1>4 DEF HandlerStep

LEMMA RefuseStep ==
    ASSUME TypeOK, Refuse
    PROVE  HandlerStep
<1>1. upsets' \in 0..MaxUpsets
  BY UpsetType DEF Refuse
<1> QED BY <1>1 DEF Refuse, Idle, Advances, HandlerStep, cloud, Owning, Holding,
                    Deleting, Deciding, Reconciling

\* A call: what becomes of the request, and where the handler goes.
LEMMA CallStep ==
    ASSUME TypeOK, EngineInv, NEW op, NEW then,
           MaySend(op), op # "Create", pc \in Holding \cap Owning,
           then \in (Holding \cap Owning),
           then \in Deciding => pc \in Deciding \ {"resize"},
           RetryingCall(op, then) \/ Call(op, then),
           pc \in Deciding => ~UNCHANGED handler
    PROVE  HandlerStep
<1> DEFINE r == Ask(op, cur)
<1>0. r = Sent(op)
  BY DEF Sent
<1>1. UNCHANGED <<listed, theirs, touched, engine>>
  BY DEF RetryingCall, Call
<1>2. upsets' \in 0..MaxUpsets
  BY UpsetType DEF RetryingCall, Call, AnswerLost
<1>3. Reaches(r)
  BY DEF RetryingCall, Call, AnswerLost, Reaches
<1>4. Goto(then) \/ Idle \/ UNCHANGED handler
  BY DEF RetryingCall, Call
<1> HIDE DEF r
<1>5. Advances
  BY <1>4 DEF Goto, Advances, TypeOK, Copies
<1>6. pc' \in Owning => pc \in Owning /\ cur' = cur
  BY <1>4 DEF Goto, Idle, handler, Owning, Holding, Deleting, Reconciling
<1>7. pc' \in Deciding => pc \in Deciding \ {"resize"} /\ cur' = cur /\ seen' = seen
  BY <1>4 DEF Goto, Idle, handler, Deciding
<1>8. pc' # "gone"
  BY <1>4 DEF Goto, Idle, handler, Holding, Reconciling
<1> QED BY <1>0, <1>1, <1>2, <1>3, <1>5, <1>6, <1>7, <1>8 DEF HandlerStep

LEMMA WaitStep ==
    ASSUME TypeOK, EngineInv, NEW STATE condition, NEW then,
           WaitForPresent(condition, then), pc \in Holding \cap Owning,
           then \in Holding \cap Owning,
           then \in Deciding => (condition => ready(inst[cur]))
    PROVE  HandlerStep
<1>0. UNCHANGED <<inst, listed, late, theirs, touched, engine>> /\ upsets' \in 0..MaxUpsets
  BY UpsetType DEF WaitForPresent, cloud
<1>1. cur \in Id
  BY DEF EngineInv, TypeOK
<1>2. CASE Idle
  BY <1>0, <1>2 DEF Idle, Advances, HandlerStep, Owning, Holding,
                    Deleting, Deciding, Reconciling
<1>3. CASE /\ Live(cur) /\ condition
           /\ seen' = Copy(inst[cur]) /\ pc' = then /\ UNCHANGED <<cur, left>>
  <2>1. Advances
    BY <1>1, <1>3, CopyType DEF Advances, TypeOK
  <2>2. then # "gone"
    BY DEF Holding, Reconciling
  <2>3. seen'.spec = inst[cur].spec
    BY <1>3 DEF Copy
  <2> QED BY <1>0, <1>1, <1>3, <2>1, <2>2, <2>3 DEF HandlerStep
<1> QED BY <1>2, <1>3 DEF WaitForPresent

\* The instance under this handler's hands is one of the identities.
LEMMA CurType ==
    ASSUME TypeOK, EngineInv, pc \in Holding \cup Deleting
    PROVE  cur \in Id
BY DEF TypeOK, EngineInv

LEMMA ReconcileStep ==
    ASSUME TypeOK, SafeInv, Reconcile
    PROVE  HandlerStep
<1> USE DEF SafeInv
<1>1. CASE Observe
  <2>0. pc = "observe"
    BY <1>1 DEF Observe
  <2>1. ASSUME NEW id \in Id, NEW then \in {"owner", "ready"}, Found(id, then),
               then = "ready" => Mine(id)
        PROVE  HandlerStep
    <3>1. UNCHANGED <<inst, listed, late, theirs, touched, engine>> /\ upsets' \in 0..MaxUpsets
      BY <2>1, UpsetType DEF Found, cloud
    <3>2. Advances
      BY <2>0, <2>1 DEF Found, Advances, Holding, Reconciling
    <3> QED BY <2>1, <3>1, <3>2
            DEF Found, HandlerStep, Mine, Owning, Holding, Deleting, Deciding, Reconciling
  <2>2. output # NoId => output \in Id /\ Mine(output)
    BY DEF TypeOK, OwnInv
  <2>3. Skip("create") => HandlerStep
    BY <2>0, SkipStep DEF Reconciling, Deciding
  <2> QED BY <1>1, <2>1, <2>2, <2>3, RefuseStep DEF Observe
<1>2. ASSUME NEW step \in {"owner", "recoverOwner"}, NEW then \in {"ready", "created"},
             RequireOwnership(step, then)
      PROVE  HandlerStep
  <2>1. CASE Refuse
    BY <2>1, RefuseStep
  <2>2. CASE Live(cur) /\ inst[cur].tagged /\ Skip(then)
    <3>1. pc = step /\ pc \in Holding /\ then \in Holding /\ then \notin Deciding
      BY <1>2 DEF RequireOwnership, Holding, Reconciling, Deciding
    <3>2. cur \in Id
      BY <3>1, CurType
    <3>3. inst[cur].token = createToken
      BY <2>2, <3>2 DEF CloudInv
    <3>4. /\ UNCHANGED <<inst, listed, late, theirs, touched, engine, cur, seen, left, upsets>>
          /\ pc' = then
      BY <2>2 DEF Skip, Goto, cloud
    <3>5. upsets' \in 0..MaxUpsets
      BY <3>4 DEF TypeOK
    <3>6. Advances
      BY <3>1, <3>4 DEF Advances, TypeOK, Copies
    <3>7. then # "gone"
      OBVIOUS
    <3> QED BY <3>1, <3>2, <3>3, <3>4, <3>5, <3>6, <3>7 DEF HandlerStep
  <2> QED BY <1>2, <2>1, <2>2 DEF RequireOwnership
<1>3. CASE Create
  <2> DEFINE r == Ask("Create", NoId)
  <2>0. /\ pc = "create" /\ UNCHANGED <<listed, theirs, touched, engine>>
        /\ MaySend("Create") /\ r = Sent("Create")
    BY <1>3 DEF Create, MaySend, Sendable, Sent
  <2>1. upsets' \in 0..MaxUpsets
    BY <1>3, UpsetType DEF Create, AnswerLost
  <2>2. CASE Restore /\ Idle /\ UNCHANGED <<inst, late, upsets>>
    BY <2>0, <2>1, <2>2 DEF Idle, Advances, HandlerStep, Owning, Holding,
                            Deleting, Deciding, Reconciling
  <2>3. CASE /\ Take(r)
             /\ \E id \in Id : /\ inst'[id].token = createToken
                               /\ inst'[id].status \notin {"unborn", "released"}
                               /\ cur' = id
             /\ pc' = "created"
             /\ UNCHANGED <<seen, left, late, upsets>>
    <3>1. Advances
      BY <2>0, <2>3 DEF Advances, Holding, Reconciling
    <3>2. Reaches(r)
      BY <2>3 DEF Reaches
    <3> HIDE DEF r
    <3> QED BY <2>0, <2>1, <2>3, <3>1, <3>2
            DEF HandlerStep, Deciding
  <2>4. CASE AnswerLost(r) /\ (Idle \/ Goto("recover") \/ UNCHANGED handler)
    <3>1. Reaches(r)
      BY <2>4 DEF AnswerLost, Reaches
    <3>2. Advances
      BY <2>0, <2>4 DEF Goto, Advances, TypeOK, Copies, Reconciling
    <3>3. pc' \notin Owning /\ pc' \notin Deciding /\ pc' # "gone"
      BY <2>0, <2>4 DEF Idle, Goto, handler, Owning, Holding, Deleting, Deciding, Reconciling
    <3> HIDE DEF r
    <3> QED BY <2>0, <2>1, <3>1, <3>2, <3>3 DEF HandlerStep
  <2> QED BY <1>3, <2>2, <2>3, <2>4 DEF Create
<1>4. CASE Recover
  <2>1. ASSUME NEW id \in Id, Found(id, "recoverOwner")
        PROVE  HandlerStep
    <3>1. UNCHANGED <<inst, listed, late, theirs, touched, engine>> /\ upsets' \in 0..MaxUpsets
      BY <2>1, UpsetType DEF Found, cloud
    <3>2. Advances
      BY <1>4, <2>1 DEF Recover, Found, Advances, Holding, Reconciling
    <3> QED BY <2>1, <3>1, <3>2
            DEF Found, HandlerStep, Owning, Holding, Deleting, Deciding, Reconciling
  <2> QED BY <1>4, <2>1, RefuseStep DEF Recover
<1>5. CASE Created
  BY <1>5, WaitStep DEF Created, Owning, Holding, Reconciling, Deciding
<1>6. CASE WaitReady
  BY <1>6, WaitStep DEF WaitReady, Owning, Holding, Reconciling
<1>7. CASE ModifyDescription
  <2>1. /\ pc = "describe" /\ pc \in Holding \cap Owning /\ pc \in Deciding \ {"resize"}
        /\ "protect" \in Holding \cap Owning /\ MaySend("Describe")
    BY <1>7 DEF ModifyDescription, Owning, Holding, Reconciling, Deciding, MaySend, Sendable
  <2>2. CASE Skip("protect")
    BY <2>1, <2>2, SkipStep
  <2>3. CASE Call("Describe", "protect")
    <3>1. ~UNCHANGED handler
      BY <2>1, <2>3 DEF Call, Goto, Idle, handler
    <3> QED BY <2>1, <2>3, <3>1, CallStep
  <2> QED BY <1>7, <2>2, <2>3 DEF ModifyDescription
<1>8. CASE ModifyProtection
  <2>1. /\ pc = "protect" /\ pc \in Holding \cap Owning /\ pc \in Deciding \ {"resize"}
        /\ "protectWait" \in Holding \cap Owning /\ MaySend("Protect")
        /\ "resize" \in Holding \cap Owning
    BY <1>8 DEF ModifyProtection, Owning, Holding, Reconciling, Deciding, MaySend, Sendable
  <2>2. CASE Skip("resize")
    BY <2>1, <2>2, SkipStep
  <2>3. CASE Call("Protect", "protectWait")
    <3>1. ~UNCHANGED handler
      BY <2>1, <2>3 DEF Call, Goto, Idle, handler
    <3> QED BY <2>1, <2>3, <3>1, CallStep
  <2> QED BY <1>8, <2>2, <2>3 DEF ModifyProtection
<1>9. CASE ProtectionWait
  BY <1>9, WaitStep DEF ProtectionWait, Owning, Holding, Reconciling
<1>10. CASE ModifySpec
  <2>1. /\ pc = "resize" /\ pc \in Holding \cap Owning
        /\ {"ips", "resizeWait"} \subseteq Holding \cap Owning
        /\ {"ips", "resizeWait"} \cap Deciding = {}
    BY <1>10 DEF ModifySpec, Owning, Holding, Reconciling, Deciding
  <2>2. CASE Skip("ips")
    BY <2>1, <2>2, SkipStep
  <2>3. CASE ~specMatches(seen, news) /\ Call("Resize", "resizeWait")
    <3>1. ~UNCHANGED handler
      BY <2>1, <2>3 DEF Call, Goto, Idle, handler
    <3>2. MaySend("Resize")
      BY <2>1, <2>3 DEF MaySend, Sendable, specMatches
    <3> QED BY <2>1, <2>3, <3>1, <3>2, CallStep
  <2> QED BY <1>10, <2>2, <2>3 DEF ModifySpec
<1>11. CASE ResizeWait
  BY <1>11, WaitStep DEF ResizeWait, Owning, Holding, Reconciling, Deciding
<1>12. CASE SyncSecurityIps
  <2>1. /\ pc = "ips" /\ pc \in Holding \cap Owning /\ pc \notin Deciding
        /\ "settings" \in Holding \cap Owning /\ "settings" \notin Deciding
        /\ MaySend("ModifySecurityIps")
    BY <1>12 DEF SyncSecurityIps, Owning, Holding, Reconciling, Deciding, MaySend, Sendable
  <2> QED BY <1>12, <2>1, SkipStep, CallStep DEF SyncSecurityIps
<1>13. CASE SyncSettings
  <2>1. /\ pc = "settings" /\ pc \in Holding \cap Owning /\ pc \notin Deciding
        /\ {"tags", "settingsWait"} \subseteq Holding \cap Owning
        /\ {"tags", "settingsWait"} \cap Deciding = {}
        /\ MaySend("ModifySettings")
    BY <1>13 DEF SyncSettings, Owning, Holding, Reconciling, Deciding, MaySend, Sendable
  <2> QED BY <1>13, <2>1, SkipStep, CallStep, RefuseStep DEF SyncSettings
<1>14. CASE SettingsWait
  BY <1>14, WaitStep DEF SettingsWait, Owning, Holding, Reconciling, Deciding
<1>15. CASE SyncTags
  <2>1. /\ pc = "tags" /\ pc \in Holding \cap Owning /\ pc \notin Deciding
        /\ {"tags", "final"} \subseteq Holding \cap Owning
        /\ {"tags", "final"} \cap Deciding = {}
        /\ MaySend("Tag")
    BY <1>15 DEF SyncTags, Owning, Holding, Reconciling, Deciding, MaySend, Sendable
  <2> QED BY <1>15, <2>1, SkipStep, CallStep, RefuseStep DEF SyncTags
<1>16. CASE Final
  BY <1>16, WaitStep DEF Final, Owning, Holding, Reconciling, Deciding
<1> QED BY <1>1, <1>2, <1>3, <1>4, <1>5, <1>6, <1>7, <1>8, <1>9, <1>10, <1>11,
           <1>12, <1>13, <1>14, <1>15, <1>16 DEF Reconcile, Owner, RecoverOwner

LEMMA AgainAdvances ==
    ASSUME TypeOK, pc \in Deleting, Again
    PROVE  Advances /\ pc' \in {"idle", "deleteRead"} /\ (pc' = "deleteRead" => cur' = cur)
<1>1. CASE left > 1 /\ pc' = "deleteRead" /\ left' = left - 1 /\ UNCHANGED <<cur, seen>>
  <2>1. left - 1 \in 0..DeleteAttempts
    BY <1>1, BoundsAssumption DEF TypeOK
  <2> QED BY <1>1, <2>1 DEF Advances, Deleting, TypeOK, Copies
<1>2. CASE Idle
  BY <1>2 DEF Idle, Advances
<1> QED BY <1>1, <1>2 DEF Again

LEMMA DeleteStep ==
    ASSUME TypeOK, SafeInv, Delete
    PROVE  HandlerStep
<1> USE DEF SafeInv
<1>1. CASE DeleteRead
  <2>0. pc = "deleteRead" /\ pc \in Deleting /\ pc \in Owning
    BY <1>1 DEF DeleteRead, Deleting, Owning
  <2>1. UNCHANGED <<inst, listed, late, theirs, touched, engine>> /\ upsets' \in 0..MaxUpsets
    BY <1>1, UpsetType DEF DeleteRead, cloud
  <2>2. Advances /\ pc' \in {"idle", "deleteRead", "deleteWait", "deleteRequest"}
        /\ (pc' # "idle" => cur' = cur)
    <3>1. CASE Goto("deleteWait")
      BY <2>0, <3>1 DEF Goto, Advances, TypeOK, Copies, Deleting
    <3>2. CASE Again
      BY <2>0, <3>2, AgainAdvances
    <3>3. CASE seen' = Copy(inst[cur]) /\ pc' = "deleteRequest" /\ UNCHANGED <<cur, left>>
      <4>1. Copy(inst[cur]) \in Copies
        BY <2>0, CurType, CopyType
      <4> QED BY <2>0, <3>3, <4>1 DEF Advances, TypeOK, Deleting
    <3> QED BY <1>1, <3>1, <3>2, <3>3 DEF DeleteRead
  <2> QED BY <2>0, <2>1, <2>2
          DEF HandlerStep, Owning, Holding, Deleting, Deciding, Reconciling
<1>2. CASE DeleteRequest
  <2> DEFINE op == IF seen.prot THEN "Unprotect" ELSE "Delete"
             r == Ask(op, cur)
  <2>0. pc = "deleteRequest" /\ pc \in Deleting /\ pc \in Owning
    BY <1>2 DEF DeleteRequest, Deleting, Owning
  <2>1. UNCHANGED <<listed, theirs, touched, engine>>
    BY <1>2 DEF DeleteRequest
  <2>2. upsets' \in 0..MaxUpsets
    BY <1>2, UpsetType DEF DeleteRequest, AnswerLost
  <2>3. MaySend(op) /\ r = Sent(op)
    BY <2>0 DEF MaySend, Sent, Sendable
  <2>4. Reaches(r)
    BY <1>2 DEF DeleteRequest, AnswerLost, Reaches
  <2>5. Goto("deleteWait") \/ Again \/ Idle \/ UNCHANGED handler
    BY <1>2 DEF DeleteRequest
  <2> HIDE DEF r, op
  <2>6. Advances /\ pc' \in {"idle", "deleteRead", "deleteWait", "deleteRequest"}
        /\ (pc' # "idle" => cur' = cur)
    <3>1. CASE Goto("deleteWait")
      BY <2>0, <3>1 DEF Goto, Advances, TypeOK, Copies, Deleting
    <3>2. CASE Again
      BY <2>0, <3>2, AgainAdvances
    <3>3. CASE Idle \/ UNCHANGED handler
      BY <2>0, <3>3 DEF Idle, handler, Advances
    <3> QED BY <2>5, <3>1, <3>2, <3>3
  <2> QED BY <2>0, <2>1, <2>2, <2>3, <2>4, <2>6
          DEF HandlerStep, Owning, Holding, Deleting, Deciding, Reconciling
<1>3. CASE DeleteWait
  <2>0. pc = "deleteWait" /\ pc \in Deleting
    BY <1>3 DEF DeleteWait, Deleting
  <2>1. UNCHANGED <<inst, listed, late, theirs, touched, engine>> /\ upsets' \in 0..MaxUpsets
    BY <1>3, UpsetType DEF DeleteWait, cloud
  <2>2. CASE Idle
    BY <2>1, <2>2 DEF Idle, Advances, HandlerStep, Owning, Holding,
                      Deleting, Deciding, Reconciling
  <2>3. CASE ~Live(cur) /\ Goto("gone")
    <3>1. Advances
      BY <2>0, <2>3 DEF Goto, Advances, TypeOK, Copies
    <3> QED BY <2>0, <2>1, <2>3, <3>1
            DEF Goto, HandlerStep, Owning, Holding, Deleting, Deciding, Reconciling
  <2> QED BY <1>3, <2>2, <2>3 DEF DeleteWait
<1> QED BY <1>1, <1>2, <1>3 DEF Delete

-----------------------------------------------------------------------------
(* What a step of anybody means for whose an instance is. *)

LEMMA GentleKeepsCloud ==
    ASSUME TypeOK, CloudInv, Gentle, UNCHANGED theirs
    PROVE  CloudInv' /\ \A id : Mine(id)' <=> Mine(id)
<1>1. \A id : Mine(id)' <=> Mine(id)
  BY DEF Gentle, Mine
<1>2. \A id \in theirs : /\ inst'[id].status = "Running" /\ ~inst'[id].tagged
                         /\ inst'[id].token = 0
  BY DEF CloudInv, Gentle, TypeOK
<1>3. \A id \in Id \ theirs :
         IF inst'[id].status = "unborn" THEN inst'[id].token = 0 /\ ~inst'[id].tagged
                                        ELSE inst'[id].token = createToken
  BY DEF CloudInv, Gentle, Mine, createToken
<1>4. \A id \in Id : Live(id)' => Live(id)
  BY DEF Gentle, Live
<1> QED BY <1>1, <1>2, <1>3, <1>4 DEF CloudInv

LEMMA BirthKeepsCloud ==
    ASSUME TypeOK, CloudInv, NEW id \in Id,
           \/ /\ Bought(createToken) = {} /\ Birth(id, "Creating", createToken)
              /\ UNCHANGED theirs
           \/ Birth(id, "Running", 0) /\ theirs' = theirs \cup {id} /\ ~inst'[id].tagged
    PROVE  CloudInv' /\ \A x : Mine(x) => Mine(x)'
<1>1. PICK status \in {"Creating", "Running"}, token \in {0, createToken}, a \in Instance :
        /\ inst[id].status = "unborn"
        /\ inst' = [inst EXCEPT ![id] = a]
        /\ a.status = status /\ a.token = token
        /\ \/ /\ status = "Creating" /\ token = createToken
              /\ Bought(createToken) = {} /\ UNCHANGED theirs
           \/ /\ status = "Running" /\ token = 0 /\ theirs' = theirs \cup {id}
              /\ ~inst'[id].tagged
  BY DEF Birth
<1>2. inst'[id] = a /\ \A x \in Id \ {id} : inst'[x] = inst[x]
  BY <1>1 DEF TypeOK
<1>3. id \notin theirs /\ inst[id].token = 0
  BY <1>1 DEF CloudInv
<1>4. \A x : Mine(x) => Mine(x)' /\ x # id
  BY <1>2, <1>3 DEF Mine, createToken
<1>5. \A x \in Id \ {id} : (Live(x)' <=> Live(x)) /\ (Mine(x)' <=> Mine(x))
  BY <1>2 DEF Live, Mine
<1>6. (token = createToken) => \A x \in Id : ~(Mine(x) /\ Live(x))
  BY <1>1 DEF Bought, Mine, createToken
<1>7. Mine(id)' => token = createToken
  BY <1>1, <1>2 DEF Mine
<1>8. \A i, j \in Id : (Mine(i)' /\ Mine(j)' /\ Live(i)' /\ Live(j)') => i = j
  BY <1>5, <1>6, <1>7 DEF CloudInv
<1>9. \A x \in theirs' : /\ inst'[x].status = "Running" /\ ~inst'[x].tagged
                         /\ inst'[x].token = 0
  BY <1>1, <1>2, <1>3 DEF CloudInv, TypeOK
<1>10. \A x \in Id \ theirs' :
         IF inst'[x].status = "unborn" THEN inst'[x].token = 0 /\ ~inst'[x].tagged
                                       ELSE inst'[x].token = createToken
  BY <1>1, <1>2 DEF CloudInv
<1> QED BY <1>4, <1>8, <1>9, <1>10 DEF CloudInv

\* What a request of a handler does to the cloud.
CloudStepOf(op) ==
    \/ Gentle /\ (op # "Resize" => NothingResized) /\ (op # "Delete" => NothingReleased)
    \/ /\ op = "Create" /\ Bought(createToken) = {}
       /\ \E id \in Id : Birth(id, "Creating", createToken)

LEMMA RequestInCloud ==
    ASSUME TypeOK, CloudInv, NEW r \in Request,
           r.op # "Create" => Mine(r.id), Take(r) \/ UNCHANGED inst
    PROVE  CloudStepOf(r.op)
<1>1. CASE UNCHANGED inst
  BY <1>1, SameCloud DEF CloudStepOf
<1>2. CASE Take(r) /\ r.op = "Create"
  BY <1>2, SameCloud, TakeIsBirth DEF CloudStepOf
<1>3. CASE Take(r) /\ r.op # "Create"
  BY <1>3, TakeIsGentle DEF CloudStepOf
<1> QED BY <1>1, <1>2, <1>3

-----------------------------------------------------------------------------
(* Every step keeps the invariant. *)

LEMMA MineIsBorn ==
    ASSUME CloudInv, NEW id, Mine(id)
    PROVE  inst[id].status # "unborn" /\ (~Live(id) => inst[id].status = "released")
BY DEF CloudInv, Mine, createToken, Live

LEMMA SpecsStaySettled ==
    ASSUME TypeOK, CloudInv,
           \A id \in Id : inst[id].status # "Modifying" => inst[id].next = inst[id].spec,
           NEW op, CloudStepOf(op)
    PROVE  \A id \in Id : inst'[id].status # "Modifying" => inst'[id].next = inst'[id].spec
<1>1. CASE Gentle
  BY <1>1 DEF Gentle
<1>2. ASSUME NEW id \in Id, Birth(id, "Creating", createToken)
      PROVE  \A x \in Id : inst'[x].status # "Modifying" => inst'[x].next = inst'[x].spec
  BY <1>2 DEF Birth, TypeOK
<1> QED BY <1>1, <1>2 DEF CloudStepOf

LEMMA HandlerKeepsType ==
    ASSUME TypeOK, SafeInv, HandlerStep, UNCHANGED setup
    PROVE  TypeOK' /\ EngineInv'
<1>1. ControlType' /\ EngineInv'
  BY AdvanceKeeps DEF HandlerStep, SafeInv
<1>2. inst' \in [Id -> Instance] /\ late' \in SUBSET Request
  <2>1. CASE UNCHANGED <<inst, late>>
    BY <2>1 DEF TypeOK
  <2>2. ASSUME NEW op, MaySend(op), Reaches(Sent(op))
        PROVE  inst' \in [Id -> Instance] /\ late' \in SUBSET Request
    BY <2>2, SentType, TakeType DEF Reaches, TypeOK
  <2> QED BY <2>1, <2>2 DEF HandlerStep
<1>3. UNCHANGED <<setup, listed, theirs, touched, engine>> /\ upsets' \in 0..MaxUpsets
  BY DEF HandlerStep
<1> QED BY <1>1, <1>2, <1>3 DEF TypeOK, ControlType, Copies, engine

LEMMA HandlerKeeps ==
    ASSUME TypeOK, SafeInv, HandlerStep, UNCHANGED setup
    PROVE  SafeInv'
<1> USE DEF SafeInv
<1>1. EngineInv' /\ TypeOK'
  BY HandlerKeepsType
<1>2. PICK op : /\ CloudStepOf(op)
                /\ op \in {"none"} \cup Sendable
                /\ op = "Create" => pc = "create"
                /\ op = "Delete" => pc \in Deleting
                /\ op = "Resize" => pc = "resize"
  <2>1. CASE UNCHANGED <<inst, late>>
    BY <2>1, SameCloud DEF CloudStepOf
  <2>2. ASSUME NEW op, MaySend(op), Reaches(Sent(op))
        PROVE  CloudStepOf(op)
    <3>1. Sent(op) \in Request /\ Sent(op).op = op
      BY <2>2, SentType
    <3>2. op # "Create" => Mine(Sent(op).id)
      BY <2>2 DEF MaySend, OwnInv, Sent, Ask
    <3> QED BY <2>2, <3>1, <3>2, RequestInCloud DEF Reaches
  <2> QED BY <2>1, <2>2 DEF HandlerStep, MaySend
<1>3. UNCHANGED <<theirs, engine, setup>>
  BY DEF HandlerStep
<1>4. CloudInv' /\ \A id : Mine(id) => Mine(id)'
  BY <1>2, <1>3, GentleKeepsCloud, BirthKeepsCloud DEF CloudStepOf
<1>5. OwnInv'
  <2>1. output' # NoId => Mine(output)'
    BY <1>3, <1>4 DEF OwnInv, engine, Mine
  <2>2. pc' \in Owning => Mine(cur)'
    BY <1>4 DEF HandlerStep, OwnInv, Mine
  <2>3. \A r \in late' : r.op # "Create" => Mine(r.id)'
    <3>1. CASE late' = late
      BY <1>4, <3>1 DEF OwnInv
    <3>2. ASSUME NEW o, MaySend(o), late' = late \cup {Sent(o)}
          PROVE  \A r \in late' : r.op # "Create" => Mine(r.id)'
      <4>1. Sent(o).op = o /\ (o # "Create" => Mine(Sent(o).id))
        BY <3>2, SentType DEF MaySend, OwnInv, Sent, Ask
      <4> QED BY <1>4, <3>2, <4>1 DEF OwnInv
    <3> QED BY <3>1, <3>2 DEF HandlerStep, Reaches
  <2> QED BY <2>1, <2>2, <2>3 DEF OwnInv, Mine
<1>6. SpecInv'
  <2>1. \A id \in Id : inst'[id].status # "Modifying" => inst'[id].next = inst'[id].spec
    BY <1>2, SpecsStaySettled DEF SpecInv
  <2>2. ASSUME ~LateRequests
        PROVE  late' = {}
    BY <2>2 DEF HandlerStep, Reaches, SpecInv
  <2>3. ASSUME ~LateRequests, pc' \in Deciding
        PROVE  inst'[cur'].status # "Modifying" /\ seen'.spec = inst'[cur'].spec
    <3>1. CASE pc \in Deciding \ {"resize"} /\ cur' = cur /\ seen' = seen
      <4>1. cur \in Id
        BY <3>1 DEF OwnInv, Mine, Owning, Holding, Reconciling, Deciding
      <4>2. Gentle /\ NothingResized
        BY <1>2, <3>1 DEF CloudStepOf, Deciding
      <4>3. /\ inst[cur].status # "Modifying" /\ seen.spec = inst[cur].spec
            /\ inst[cur].next = inst[cur].spec
        BY <2>3, <3>1, <4>1 DEF SpecInv, Deciding
      <4> QED BY <3>1, <4>1, <4>2, <4>3 DEF Gentle, NothingResized
    <3>2. CASE /\ cur' \in Id /\ ready(inst[cur']) /\ seen'.spec = inst[cur'].spec
               /\ UNCHANGED inst
      BY <3>2 DEF ready
    <3> QED BY <2>3, <3>1, <3>2 DEF HandlerStep
  <2> QED BY <1>3, <2>1, <2>2, <2>3 DEF SpecInv, LateRequests, Deciding
<1>7. GoneInv'
  <2>1. ASSUME pc' = "gone"
        PROVE  inst'[output'].status = "released"
    <3>1. pc \in Deleting /\ ~Live(cur) /\ UNCHANGED inst
      BY <2>1 DEF HandlerStep
    <3>2. Mine(cur) /\ cur = output
      BY <3>1 DEF OwnInv, EngineInv, Owning
    <3> QED BY <1>3, <3>1, <3>2, MineIsBorn DEF engine
  <2>2. ASSUME ~Releases, ~LateRequests
        PROVE  /\ \A i, j \in Id : (Mine(i)' /\ Mine(j)') => i = j
               /\ \A id \in Id : (Mine(id)' /\ inst'[id].status \in {"Deleting", "released"})
                                    => intent' = "absent"
    <3>1. CASE Gentle /\ (op # "Delete" => NothingReleased)
      <4>1. \A id : Mine(id)' <=> Mine(id)
        BY <1>3, <3>1, GentleKeepsCloud
      <4>2. op = "Delete" => intent = "absent"
        BY <1>2 DEF EngineInv
      <4> QED BY <1>3, <2>2, <3>1, <4>1, <4>2 DEF GoneInv, engine, NothingReleased
    <3>2. ASSUME op = "Create", Bought(createToken) = {},
                 NEW id \in Id, Birth(id, "Creating", createToken)
          PROVE  /\ \A i, j \in Id : (Mine(i)' /\ Mine(j)') => i = j
                 /\ \A x \in Id : (Mine(x)' /\ inst'[x].status \in {"Deleting", "released"})
                                     => intent' = "absent"
      <4>1. intent = "present"
        BY <1>2, <3>2 DEF EngineInv, Reconciling
      <4>2. \A x \in Id : ~Mine(x)
        BY <2>2, <3>2, <4>1, MineIsBorn DEF GoneInv, Bought, Mine, Live
      <4>3. inst'[id].status = "Creating" /\ \A x \in Id \ {id} : inst'[x] = inst[x]
        BY <3>2 DEF Birth, TypeOK
      <4> QED BY <4>2, <4>3 DEF Mine
    <3> QED BY <1>2, <3>1, <3>2 DEF CloudStepOf
  <2> QED BY <1>3, <2>1, <2>2 DEF GoneInv, Releases, LateRequests
<1> QED BY <1>1, <1>4, <1>5, <1>6, <1>7

\* A step of the cloud or of a person that leaves handler and engine alone.
LEMMA OutsideKeeps ==
    ASSUME TypeOK, SafeInv, UNCHANGED <<setup, handler, engine, theirs>>,
           late' \subseteq late,
           Gentle, NothingResized \/ LateRequests,
           NothingReleased \/ Releases \/ LateRequests
    PROVE  SafeInv' /\ StepProps
<1> USE DEF SafeInv
<1>1. CloudInv' /\ \A id : Mine(id)' <=> Mine(id)
  BY GentleKeepsCloud
<1>2. EngineInv'
  BY DEF EngineInv, handler, engine
<1>3. OwnInv'
  BY <1>1 DEF OwnInv, handler, engine, Mine
<1>4. SpecInv'
  <2>1. ASSUME ~LateRequests, pc \in Deciding
        PROVE  inst'[cur].status # "Modifying" /\ seen.spec = inst'[cur].spec
    <3>1. cur \in Id
      BY <2>1 DEF OwnInv, Mine, Owning, Holding, Reconciling, Deciding
    <3>2. /\ inst[cur].status # "Modifying" /\ seen.spec = inst[cur].spec
          /\ inst[cur].next = inst[cur].spec
      BY <2>1, <3>1 DEF SpecInv, Deciding
    <3> QED BY <2>1, <3>1, <3>2 DEF Gentle, NothingResized
  <2> QED BY <2>1 DEF SpecInv, Gentle, handler, LateRequests, Deciding
<1>5. GoneInv'
  <2>1. pc = "gone" => output \in Id
    BY DEF EngineInv, OwnInv, Mine
  <2> QED BY <1>1, <2>1 DEF GoneInv, Gentle, NothingReleased, handler, engine,
                            Releases, LateRequests
<1>6. StepProps
  BY GentleProps
<1> QED BY <1>1, <1>2, <1>3, <1>4, <1>5, <1>6

\* A purchase that is not made by the running handler: a request that lands
\* late, or a namesake.
LEMMA OutsideBirthKeeps ==
    ASSUME TypeOK, SafeInv, UNCHANGED <<setup, handler, engine>>,
           late' \subseteq late, NEW id \in Id,
           \/ /\ Bought(createToken) = {} /\ Birth(id, "Creating", createToken)
              /\ UNCHANGED theirs /\ LateRequests
           \/ Birth(id, "Running", 0) /\ theirs' = theirs \cup {id} /\ ~inst'[id].tagged
    PROVE  SafeInv' /\ StepProps
<1> USE DEF SafeInv
<1>1. CloudInv' /\ \A x : Mine(x) => Mine(x)'
  BY BirthKeepsCloud
<1>2. EngineInv'
  BY DEF EngineInv, handler, engine
<1>3. OwnInv'
  BY <1>1 DEF OwnInv, handler, engine, Mine
<1>4. /\ inst[id].status = "unborn" /\ inst[id].token = 0 /\ id \notin theirs
      /\ inst'[id].next = inst'[id].spec
      /\ \A x \in Id \ {id} : inst'[x] = inst[x]
  BY DEF Birth, TypeOK, CloudInv
<1>5. SpecInv'
  <2>1. pc \in Deciding => cur # id
    BY <1>4 DEF OwnInv, Mine, createToken, Owning, Holding, Reconciling, Deciding
  <2>2. pc \in Deciding => cur \in Id
    BY DEF OwnInv, Mine, Owning, Holding, Reconciling, Deciding
  <2> QED BY <1>4, <2>1, <2>2 DEF SpecInv, handler, LateRequests, Deciding
<1>6. GoneInv'
  <2>1. pc = "gone" => output \in Id /\ output # id
    BY <1>4 DEF EngineInv, OwnInv, Mine, createToken
  <2>2. ~LateRequests => \A x : Mine(x)' <=> Mine(x)
    BY <1>4 DEF Mine, Birth, TypeOK, createToken
  <2>3. \A x : Mine(x) => x # id
    BY <1>4 DEF Mine, createToken
  <2> QED BY <1>4, <2>1, <2>2, <2>3 DEF GoneInv, Mine, handler, engine, Releases, LateRequests
<1>7. StepProps
  BY <1>4 DEF StepProps, Birth, TypeOK, ready, CloudInv
<1> QED BY <1>1, <1>2, <1>3, <1>5, <1>6, <1>7

LEMMA StatusType ==
    ASSUME NEW i \in Instance, NEW s \in {"Running", "Deleting", "released"}
    PROVE  [i EXCEPT !.status = s] \in Instance
BY DEF Instance

LEMMA CloudStepKeeps ==
    ASSUME TypeOK, SafeInv, CloudStep, UNCHANGED setup
    PROVE  TypeOK' /\ SafeInv' /\ StepProps
<1>1. ASSUME NEW id \in Id, TaskEnds(id)
      PROVE  TypeOK' /\ SafeInv' /\ StepProps
  <2> DEFINE s == IF deleting(inst[id]) THEN "released" ELSE "Running"
             a == [inst[id] EXCEPT !.status = s, !.spec = inst[id].next]
  <2>1. inst[id] \in Instance
    BY DEF TypeOK
  <2>2. inst' = [inst EXCEPT ![id] = a]
    BY <1>1 DEF TaskEnds
  <2>3. a \in Instance /\ a.token = inst[id].token /\ a.status = s
        /\ a.spec = inst[id].next /\ a.next = inst[id].next /\ a.tagged = inst[id].tagged
    BY <2>1 DEF Instance
  <2> HIDE DEF a
  <2>4. inst'[id] = a /\ \A x \in Id \ {id} : inst'[x] = inst[x]
    BY <2>2 DEF TypeOK
  <2>5. inst[id].status \in {"Creating", "Modifying", "Deleting"} /\ id \notin theirs
    BY <1>1 DEF TaskEnds, SafeInv, CloudInv
  <2>6. Gentle /\ NothingResized /\ NothingReleased
    BY <2>3, <2>4, <2>5 DEF Gentle, NothingResized, NothingReleased, deleting
  <2>7. TypeOK'
    <3>1. inst' \in [Id -> Instance]
      BY <2>2, <2>3 DEF TypeOK
    <3> QED BY <1>1, <3>1 DEF TaskEnds, TypeOK, handler, engine
  <2> QED BY <1>1, <2>6, <2>7, OutsideKeeps DEF TaskEnds
<1>2. ASSUME NEW id \in Id, InventoryCatchesUp(id)
      PROVE  TypeOK' /\ SafeInv' /\ StepProps
  <2>1. TypeOK'
    BY <1>2 DEF InventoryCatchesUp, TypeOK, handler, engine
  <2> QED BY <1>2, <2>1, SameCloud, OutsideKeeps DEF InventoryCatchesUp
<1>3. ASSUME NEW r \in late, LateLands(r)
      PROVE  TypeOK' /\ SafeInv' /\ StepProps
  <2>1. r \in Request /\ (r.op # "Create" => Mine(r.id)) /\ LateRequests
    BY DEF TypeOK, SafeInv, OwnInv, SpecInv
  <2>2. Take(r) \/ UNCHANGED inst
    BY <1>3 DEF LateLands
  <2>3. TypeOK'
    <3>1. inst' \in [Id -> Instance]
      BY <2>1, <2>2, TakeType DEF TypeOK
    <3> QED BY <1>3, <3>1 DEF LateLands, TypeOK, handler, engine
  <2>4. CloudStepOf(r.op)
    BY <2>1, <2>2, RequestInCloud DEF SafeInv
  <2> QED BY <1>3, <2>1, <2>3, <2>4, OutsideKeeps, OutsideBirthKeeps
          DEF LateLands, CloudStepOf
<1> QED BY <1>1, <1>2, <1>3 DEF CloudStep

LEMMA StartKeeps ==
    ASSUME TypeOK, SafeInv, Start, UNCHANGED setup
    PROVE  TypeOK' /\ SafeInv' /\ StepProps
<1> USE DEF SafeInv
<1>1. /\ UNCHANGED <<inst, listed, late, theirs, intent, news, output, olds, cur,
                     seen, left, upsets, setup>>
      /\ pc' = "observe" /\ intent = "present" /\ touched' = FALSE /\ begun' = TRUE
  BY DEF Start, Goto
<1>2. TypeOK'
  BY <1>1 DEF TypeOK, Reconciling
<1>3. StepProps
  BY <1>1, SameCloud, GentleProps
<1> QED BY <1>1, <1>2, <1>3
        DEF EngineInv, CloudInv, OwnInv, SpecInv, GoneInv, Mine, Live, LateRequests,
            Releases, Owning, Holding, Reconciling, Deleting

LEMMA DisturbanceKeeps ==
    ASSUME TypeOK, SafeInv, Disturbance, UNCHANGED setup
    PROVE  TypeOK' /\ SafeInv' /\ StepProps
<1>1. ASSUME NEW id \in Id, NamesakeAppears(id)
      PROVE  TypeOK' /\ SafeInv' /\ StepProps
  <2> DEFINE a == [inst[id] EXCEPT !.status = "Running"]
  <2>1. inst[id].status = "unborn" /\ inst[id] \in Instance
    BY <1>1 DEF NamesakeAppears, Fresh, Unborn, TypeOK
  <2>2. inst' = [inst EXCEPT ![id] = a] /\ a \in Instance
    BY <1>1, <2>1, StatusType DEF NamesakeAppears
  <2>3. /\ a.status = "Running" /\ a.token = inst[id].token /\ a.spec = inst[id].spec
        /\ a.next = inst[id].next /\ a.tagged = inst[id].tagged
    BY <2>1 DEF Instance
  <2> HIDE DEF a
  <2>4. inst[id].token = 0 /\ ~inst[id].tagged /\ inst[id].next = inst[id].spec
    BY <2>1 DEF SafeInv, CloudInv, SpecInv
  <2>5. Birth(id, "Running", 0) /\ ~inst'[id].tagged
    BY <2>1, <2>2, <2>3, <2>4 DEF Birth, TypeOK
  <2>6. TypeOK'
    BY <1>1, <2>2 DEF NamesakeAppears, TypeOK, handler, engine
  <2> QED BY <1>1, <2>5, <2>6, OutsideBirthKeeps DEF NamesakeAppears
<1>2. ASSUME NEW id \in Id, ConsoleChange(id)
      PROVE  TypeOK' /\ SafeInv' /\ StepProps
  <2>0. inst[id] \in Instance /\ id \notin theirs /\ inst[id].status = "Running"
    BY <1>2 DEF ConsoleChange, TypeOK, ready
  <2>1. PICK a \in Instance :
           /\ inst' = [inst EXCEPT ![id] = a]
           /\ a.token = inst[id].token /\ a.tagged = inst[id].tagged
           /\ a.spec = inst[id].spec /\ a.next = inst[id].next
           /\ a.status = "Running" \/ (a.status = "Deleting" /\ Releases)
    <3>1. CASE inst' = [inst EXCEPT ![id].named = FALSE]
      <4>1. [inst[id] EXCEPT !.named = FALSE] \in Instance
        BY <2>0 DEF Instance
      <4> USE <4>1
      <4> WITNESS [inst[id] EXCEPT !.named = FALSE] \in Instance
      <4> QED BY <2>0, <3>1 DEF Instance
    <3>2. CASE inst' = [inst EXCEPT ![id].prot = ~@]
      <4>1. [inst[id] EXCEPT !.prot = ~@] \in Instance
        BY <2>0 DEF Instance
      <4> USE <4>1
      <4> WITNESS [inst[id] EXCEPT !.prot = ~@] \in Instance
      <4> QED BY <2>0, <3>2 DEF Instance
    <3>3. CASE Releases /\ inst' = [inst EXCEPT ![id].status = "Deleting"]
      <4>1. [inst[id] EXCEPT !.status = "Deleting"] \in Instance
        BY <2>0 DEF Instance
      <4> USE <4>1
      <4> WITNESS [inst[id] EXCEPT !.status = "Deleting"] \in Instance
      <4> QED BY <2>0, <3>3 DEF Instance
    <3> QED BY <1>2, <3>1, <3>2, <3>3 DEF ConsoleChange
  <2>2. inst'[id] = a /\ \A x \in Id \ {id} : inst'[x] = inst[x]
    BY <2>1 DEF TypeOK
  <2>3. Gentle /\ NothingResized /\ (NothingReleased \/ Releases)
    BY <2>0, <2>1, <2>2 DEF Gentle, NothingResized, NothingReleased
  <2>4. TypeOK'
    BY <1>2, <2>1, UpsetType DEF ConsoleChange, TypeOK, handler, engine
  <2> QED BY <1>2, <2>3, <2>4, OutsideKeeps DEF ConsoleChange
<1>3. CASE Crash
  <2>1. HandlerStep
    <3>1. upsets' \in 0..MaxUpsets
      BY <1>3, UpsetType DEF Crash
    <3> QED BY <1>3, <3>1 DEF Crash, Idle, Advances, HandlerStep, cloud, Owning, Holding,
                              Deleting, Deciding, Reconciling
  <2> QED BY <1>3, <2>1, HandlerKeepsType, HandlerKeeps, SameCloud, GentleProps
          DEF Crash, cloud, SafeInv
<1>4. CASE EditStack
  <2>1. TypeOK'
    BY <1>4, UpsetType DEF EditStack, TypeOK, handler, cloud
  <2>2. UNCHANGED <<inst, late, theirs, intent, output, handler>> /\ pc = "idle"
    BY <1>4 DEF EditStack, cloud
  <2>3. StepProps
    BY <2>2, SameCloud, GentleProps DEF SafeInv
  <2> QED BY <2>1, <2>2, <2>3
          DEF SafeInv, EngineInv, CloudInv, OwnInv, SpecInv, GoneInv, Mine,
              Live, handler, LateRequests, Releases
<1>5. CASE DestroyStack
  <2>1. TypeOK'
    BY <1>5 DEF DestroyStack, TypeOK, handler, cloud
  <2>2. /\ UNCHANGED <<inst, late, theirs, output, handler>> /\ pc = "idle"
        /\ intent' = "absent" /\ output # NoId
    BY <1>5 DEF DestroyStack, cloud
  <2>3. StepProps
    BY <2>2, SameCloud, GentleProps DEF SafeInv
  <2> QED BY <2>1, <2>2, <2>3
          DEF SafeInv, EngineInv, CloudInv, OwnInv, SpecInv, GoneInv, Mine,
              Live, handler, LateRequests, Releases, Reconciling, Deleting
<1>6. CASE Redeploy
  BY <1>6, StartKeeps DEF Redeploy
<1> QED BY <1>1, <1>2, <1>3, <1>4, <1>5, <1>6 DEF Disturbance

LEMMA EngineStepKeeps ==
    ASSUME TypeOK, SafeInv, EngineStep, UNCHANGED setup
    PROVE  TypeOK' /\ SafeInv' /\ StepProps
<1> USE DEF SafeInv
<1>1. CASE StartReconcile
  BY <1>1, StartKeeps DEF StartReconcile
<1>2. CASE StartDelete
  <2>0. UNCHANGED <<inst, listed, late, theirs, touched, begun, intent, news, upsets, setup>>
    BY <1>2 DEF StartDelete, cloud, engine
  <2>1. DeleteAttempts \in 0..DeleteAttempts
    BY BoundsAssumption
  <2>2. TypeOK'
    BY <1>2, <2>0, <2>1 DEF StartDelete, engine, TypeOK, Deleting
  <2>3. UNCHANGED output /\ cur' = output /\ pc' = "deleteRead" /\ intent = "absent"
    BY <1>2 DEF StartDelete, engine
  <2>4. StepProps
    BY <2>0, SameCloud, GentleProps
  <2> QED BY <2>0, <2>2, <2>3, <2>4
          DEF EngineInv, CloudInv, OwnInv, SpecInv, GoneInv, Mine, Live, LateRequests,
              Releases, Owning, Holding, Reconciling, Deleting
<1>3. CASE SaveState
  <2>0. /\ pc = "returned" /\ output' = cur /\ Idle /\ olds' = news /\ begun' = FALSE
        /\ UNCHANGED <<inst, listed, late, theirs, touched, intent, news, upsets, setup>>
    BY <1>3 DEF SaveState, cloud
  <2>1. Mine(cur) /\ cur # NoId
    BY <2>0, NoIdAssumption DEF OwnInv, Mine, Owning, Holding, Reconciling
  <2>2. 0 \in 0..DeleteAttempts /\ NoCopy \in Copies
    BY BoundsAssumption, NoCopyType
  <2>3. TypeOK'
    BY <2>0, <2>2 DEF Idle, TypeOK, Copies
  <2>4. StepProps
    BY <2>0, SameCloud, GentleProps
  <2> QED BY <2>0, <2>1, <2>3, <2>4
          DEF Idle, EngineInv, CloudInv, OwnInv, SpecInv, GoneInv, Mine, Live, LateRequests,
              Releases, Owning, Holding, Reconciling, Deleting
<1> QED BY <1>1, <1>2, <1>3 DEF EngineStep

\* A change of specification is ordered only by the step that has compared.
LEMMA HandlerProps ==
    ASSUME TypeOK, SafeInv, HandlerStep
    PROVE  StepProps
<1> USE DEF SafeInv
<1>1. CASE UNCHANGED <<inst, late>>
  BY <1>1, SameCloud, GentleProps
<1>2. ASSUME NEW op, MaySend(op), Reaches(Sent(op))
      PROVE  StepProps
  <2>1. Sent(op) \in Request /\ Sent(op).op = op
    BY <1>2, SentType
  <2>2. op # "Create" => Mine(Sent(op).id)
    BY <1>2 DEF MaySend, OwnInv, Sent, Ask
  <2>3. CloudStepOf(op)
    BY <1>2, <2>1, <2>2, RequestInCloud DEF Reaches
  <2>4. CASE Gentle /\ NothingResized
    BY <2>4, GentleProps
  <2>5. ASSUME NEW id \in Id, Birth(id, "Creating", createToken)
        PROVE  StepProps
    BY <2>5 DEF StepProps, Birth, TypeOK, ready, CloudInv
  <2>6. CASE Gentle /\ op = "Resize" /\ Take(Sent(op))
    <3>1. /\ pc = "resize" /\ seen.spec # news.spec /\ Sent(op).id = cur
          /\ Sent(op).want = news
      BY <1>2, <2>6 DEF MaySend, Sent, Ask
    <3>2. cur \in Id /\ inst[cur] \in Instance
      BY <2>2, <2>6, <3>1 DEF Mine, TypeOK
    <3>3. ~LateRequests => seen.spec = inst[cur].spec
      BY <3>1 DEF SpecInv
    <3>4. inst'[cur].next = news.spec /\ \A x \in Id \ {cur} : inst'[x] = inst[x]
      BY <2>1, <2>6, <3>1, <3>2, ChangedFacts DEF Take, TypeOK
    <3> QED BY <2>6, <3>1, <3>2, <3>3, <3>4 DEF StepProps, Gentle, ready, TypeOK
  <2>7. CASE UNCHANGED inst
    BY <2>7, SameCloud, GentleProps
  <2> QED BY <1>2, <2>3, <2>4, <2>5, <2>6, <2>7 DEF CloudStepOf, Reaches
<1> QED BY <1>1, <1>2 DEF HandlerStep

LEMMA InitSafe == Init => TypeOK /\ SafeInv
<1> SUFFICES ASSUME Init PROVE TypeOK /\ SafeInv
  OBVIOUS
<1>1. Blank(news) \in Instance /\ news.spec \in SpecValue
  BY BlankType DEF Init, SpecValue
<1>2. (CHOOSE s \in SpecValue : TRUE) \in SpecValue
  BY <1>1
<1>3. 0 \in 0..DeleteAttempts /\ 0 \in 0..MaxUpsets
  BY BoundsAssumption
<1>4. TypeOK
  BY <1>1, <1>2, <1>3 DEF Init, TypeOK, NoCopy
<1>5. \A id \in Id : /\ inst[id].status = "unborn" /\ inst[id].token = 0
                     /\ ~inst[id].tagged /\ inst[id].next = inst[id].spec
  BY DEF Init, Blank
<1> QED BY <1>4, <1>5
        DEF Init, SafeInv, EngineInv, CloudInv, OwnInv, SpecInv, GoneInv, Mine,
            createToken, Owning, Holding, Reconciling, Deleting

LEMMA NextKeeps ==
    ASSUME TypeOK, SafeInv, [Next]_vars
    PROVE  TypeOK' /\ SafeInv' /\ StepProps
<1>1. CASE UNCHANGED vars
  <2>1. UNCHANGED <<setup, inst, listed, late, theirs, touched, begun, intent, news, output, olds,
                    pc, cur, seen, left, upsets>>
    BY <1>1 DEF vars, moving, cloud, engine, handler
  <2>2. StepProps
    BY <2>1, SameCloud, GentleProps DEF SafeInv
  <2> QED BY <2>1, <2>2
          DEF TypeOK, SafeInv, EngineInv, CloudInv, OwnInv, SpecInv, GoneInv, Mine, Live,
              LateRequests, Releases
<1>2. CASE (Reconcile \/ Delete) /\ UNCHANGED setup
  BY <1>2, ReconcileStep, DeleteStep, HandlerKeepsType, HandlerKeeps, HandlerProps
<1> QED BY <1>1, <1>2, CloudStepKeeps, DisturbanceKeeps, EngineStepKeeps DEF Next, Step

LEMMA Safe == Spec => [](TypeOK /\ SafeInv)
BY InitSafe, NextKeeps, PTL DEF Spec

\* Every reachable state is well typed.
THEOREM TypeCorrect == Spec => []TypeOK
BY Safe, PTL

\* However often a create is lost, repeated or interrupted, one resource never
\* pays for two instances at once: the purchase carries the same client token
\* in every attempt (instance.ts `createToken`).
THEOREM OnePurchase == Spec => []OneLivePurchase
<1>1. ASSUME SafeInv
      PROVE  OneLivePurchase
  <2>1. \A i, j \in Ours : i = j
    <3>1. \A i \in Id : Live(i) /\ inst[i].token # 0 => Mine(i)
      BY <1>1 DEF SafeInv, CloudInv, Live, Mine
    <3> QED BY <1>1, <3>1 DEF Ours, SafeInv, CloudInv
  <2>2. CASE Ours = {}
    BY <2>2, FS_EmptySet DEF OneLivePurchase
  <2>3. ASSUME NEW i \in Ours
        PROVE  OneLivePurchase
    <3>1. Ours = {i}
      BY <2>1, <2>3
    <3>2. Cardinality({i}) = 1
      BY FS_Singleton
    <3> QED BY <3>1, <3>2 DEF OneLivePurchase
  <2> QED BY <2>2, <2>3
<1> QED BY <1>1, Safe, PTL

\* A finished destroy has released the saved instance, and has left no other
\* behind unless one was released by hand or a purchase landed late.
THEOREM DestroyIsComplete == Spec => []DestroyLeavesNothing
<1>1. ASSUME SafeInv
      PROVE  DestroyLeavesNothing
  <2> SUFFICES ASSUME pc = "gone"
               PROVE  /\ inst[output].status = "released"
                      /\ (~Releases /\ ~LateRequests) => Ours = {}
    BY DEF DestroyLeavesNothing
  <2>1. inst[output].status = "released" /\ Mine(output)
    BY <1>1 DEF SafeInv, GoneInv, EngineInv, OwnInv
  <2>2. \A i \in Ours : Mine(i) /\ Live(i)
    BY <1>1 DEF Ours, SafeInv, CloudInv, Live, Mine
  <2> QED BY <1>1, <2>1, <2>2 DEF SafeInv, GoneInv, Live, Mine, Ours
<1> QED BY <1>1, Safe, PTL

\* An instance of somebody else that bears the same name is never touched by
\* any step, whatever failed before: only tags prove ownership.
THEOREM OthersUntouched == Spec => NamesakesUntouched
<1>1. TypeOK /\ SafeInv /\ [Next]_vars => [\A id \in theirs : inst'[id] = inst[id]]_vars
  BY NextKeeps DEF StepProps
<1> QED BY <1>1, Safe, PTL DEF Spec, NamesakesUntouched

\* A change of specification that was ordered before a crash is not ordered
\* again: the copy that is compared is never outdated.
THEOREM OneResize == Spec => NoRepeatedResize
<1>1. TypeOK /\ SafeInv /\ [Next]_vars =>
         [~LateRequests =>
            \A id \in Id :
               (ready(inst[id]) /\ inst'[id].status = "Modifying")
                  => inst'[id].next # inst[id].spec]_vars
  BY NextKeeps DEF StepProps
<1> QED BY <1>1, Safe, PTL DEF Spec, NoRepeatedResize
=============================================================================
