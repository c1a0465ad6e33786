------------------------- MODULE TairInstanceProofs -------------------------
(***************************************************************************)
(* Proofs about TairInstance, for any finite set of identities, any        *)
(* desired inputs and any circumstances: the state is well typed, one      *)
(* resource never pays for two instances, a destroy that is done has       *)
(* emptied the recycle bin, and delete ends no instance but the saved one. *)
(***************************************************************************)
EXTENDS TairInstance, FiniteSetTheorems, TLAPS

\* The steps that work on an instance, and the requests that end one.
Holding == Reconciling \ {"observe", "create", "recover"}
Ending == {"Unprotect", "Delete", "Destroy"}

Born(id) == id \in Id /\ inst[id].status # "unborn"

\* The engine runs one handler at a time, on what it has saved.
EngineInv ==
    /\ intent = "absent" => output # NoId
    /\ pc \in Reconciling => intent = "present"
    /\ pc \in Deleting \cup {"gone"} => intent = "absent"
    /\ pc = "resize" => token \in Token

\* What a handler works on, or the engine has saved, was bought by somebody.
BornInv ==
    /\ output # NoId => Born(output)
    /\ pc \in Holding => Born(cur)

\* A request is about an instance, and only a delete ends one, the saved one.
LateInv ==
    \A r \in late :
       /\ r.op # "Create" => r.id \in Id
       /\ r.op = "Resize" => r.token \in Token
       /\ r.op \in Ending => intent = "absent" /\ r.id = output

\* One instance at most that this resource bought is alive.
PurchaseInv ==
    /\ \A id \in Id : inst[id].bought => Born(id)
    /\ \A i, j \in Bought : i = j

\* A token that no request bears is to be found, for there are finitely many.
TokenInv == IsFiniteSet(late) /\ \A id \in Id : IsFiniteSet(inst[id].used)

\* What the overview did not show was destroyed, whatever happens until the
\* detail APIs have been read.
GoneInv == (pc = "detail" /\ ~row) \/ pc = "gone" => inst[output].status = "Destroyed"

SafeInv == EngineInv /\ BornInv /\ LateInv /\ PurchaseInv /\ TokenInv /\ GoneInv

-----------------------------------------------------------------------------
(* How a step may change the cloud. *)

Ended == {"Releasing", "Released", "Destroyed"}

\* No instance appears or comes back.
Gentle ==
    \A id \in Id :
       /\ inst'[id].status = "unborn" <=> inst[id].status = "unborn"
       /\ inst'[id].bought = inst[id].bought
       /\ inst[id].status = "Destroyed" => inst'[id].status = "Destroyed"
       /\ inst[id].status = "Released" => inst'[id].status \in {"Released", "Destroyed"}
       /\ IsFiniteSet(inst[id].used) => IsFiniteSet(inst'[id].used)

\* A purchase, by this resource or by somebody else.
Birth(id, bought) ==
    /\ id \in Id /\ inst[id].status = "unborn"
    /\ \E a \in Instance :
          /\ inst' = [inst EXCEPT ![id] = a]
          /\ a.status \notin {"unborn"} \cup Ended /\ a.bought = bought
          /\ IsFiniteSet(a.used)

\* What NamesakesAreNotEnded says of one step.
EndsOnlySaved ==
    \A id \in theirs :
       (inst[id].status = "Normal" /\ inst'[id].status \in Ended) => id = output

LEMMA SameCloud == UNCHANGED inst => Gentle /\ EndsOnlySaved
BY DEF Gentle, EndsOnlySaved, Ended

LEMMA BlankType ==
    ASSUME NEW w \in Wanted
    PROVE  Blank(w) \in Instance
<1>1. {} \in SUBSET Token
  OBVIOUS
<1> QED BY <1>1 DEF Blank, Instance, SpecValue, AuthValue

\* A purchase of this resource.
PurchaseOf(w, u) ==
    [Blank(w) EXCEPT !.status = "Creating", !.tagged = TRUE,
                     !.auth = u.auth, !.settings = u.settings, !.bought = TRUE]

LEMMA PurchaseFacts ==
    ASSUME NEW w \in Wanted, NEW u \in Wanted
    PROVE  /\ PurchaseOf(w, u) \in Instance
           /\ PurchaseOf(w, u).status = "Creating" /\ PurchaseOf(w, u).bought
           /\ IsFiniteSet(PurchaseOf(w, u).used)
<1> DEFINE b == Blank(w)
<1>1. b \in Instance /\ b.used = {}
  BY BlankType DEF Blank
<1>2. u.settings \in { v.settings : v \in Wanted } /\ u.auth \in AuthValue
  BY DEF AuthValue
<1> HIDE DEF b
<1>3. /\ PurchaseOf(w, u) \in Instance
      /\ PurchaseOf(w, u).status = "Creating" /\ PurchaseOf(w, u).bought
      /\ PurchaseOf(w, u).used = b.used
  <2>1. PurchaseOf(w, u) = [b EXCEPT !.status = "Creating", !.tagged = TRUE,
                                     !.auth = u.auth, !.settings = u.settings,
                                     !.bought = TRUE]
    BY DEF PurchaseOf, b
  <2> QED BY <1>1, <1>2, <2>1 DEF Instance
<1>4. IsFiniteSet({})
  BY FS_EmptySet
<1> QED BY <1>1, <1>3, <1>4

\* What a request makes of an instance.
LEMMA ChangedFacts ==
    ASSUME NEW r \in Request, r.op # "Create", r.op = "Resize" => r.token \in Token,
           NEW i \in Instance
    PROVE  /\ Changed(r, i) \in Instance
           /\ Changed(r, i).bought = i.bought
           /\ Changed(r, i).used \in {i.used, i.used \cup {r.token}}
           /\ Changed(r, i).status \in
                 (IF r.op = "Delete" THEN {"Releasing"}
                  ELSE IF r.op = "Destroy" THEN {"Destroyed"}
                  ELSE {i.status, "Changing"})
           /\ r.op = "Tag" => Changed(r, i).status = i.status
<1>0. /\ r.want \in Wanted /\ r.want.spec \in SpecValue /\ r.want.prot \in BOOLEAN
      /\ r.want.settings \in { w.settings : w \in Wanted } /\ r.want.auth \in AuthValue
  BY WantedAssumption DEF Request, SpecValue, AuthValue
<1>1. CASE r.op = "ResetPassword"
  BY <1>1 DEF Changed
<1>2. CASE r.op = "Modify"
  BY <1>0, <1>2 DEF Changed, Instance
<1>3. CASE r.op = "Unprotect"
  BY <1>3 DEF Changed, Instance
<1>4. CASE r.op = "Resize"
  <2>1. CASE r.token \in i.used
    BY <1>4, <2>1 DEF Changed
  <2>2. CASE r.token \notin i.used
    <3> DEFINE c == [i EXCEPT !.status = "Changing", !.next = r.want.spec,
                              !.used = @ \cup {r.token}]
    <3>1. Changed(r, i) = c
      BY <1>4, <2>2 DEF Changed
    <3>2. i.used \cup {r.token} \in SUBSET Token
      BY <1>4 DEF Instance
    <3>3. /\ c \in Instance /\ c.bought = i.bought /\ c.status = "Changing"
          /\ c.used = i.used \cup {r.token}
      BY <1>0, <3>2 DEF Instance
    <3> HIDE DEF c
    <3> QED BY <1>4, <3>1, <3>3
  <2> QED BY <2>1, <2>2
<1>5. CASE r.op = "ModifySettings"
  BY <1>0, <1>5 DEF Changed, Instance
<1>6. CASE r.op = "Tag"
  BY <1>6 DEF Changed, Instance
<1>7. CASE r.op = "Delete"
  BY <1>7 DEF Changed, Instance
<1>8. CASE r.op = "Destroy"
  BY <1>8 DEF Changed, Instance
<1>9. CASE r.op = "ModifyAuth"
  BY <1>0, <1>9 DEF Changed, Instance
<1> QED BY <1>1, <1>2, <1>3, <1>4, <1>5, <1>6, <1>7, <1>8, <1>9 DEF Request

\* A request other than a purchase, about any instance, and ending only the
\* saved one.
LEMMA TakeIsGentle ==
    ASSUME TypeOK, NEW r \in Request, r.op # "Create", r.id \in Id,
           r.op = "Resize" => r.token \in Token,
           r.op \in Ending => r.id = output, Take(r)
    PROVE  inst' \in [Id -> Instance] /\ Gentle /\ EndsOnlySaved
<1> DEFINE i == inst[r.id]
           c == Changed(r, i)
<1>1. i \in Instance
  BY DEF TypeOK
<1>2. inst' = [inst EXCEPT ![r.id] = c]
  BY DEF Take
<1>3. r.op # "Tag" => i.status = (IF r.op = "Destroy" THEN "Released" ELSE "Normal")
  BY DEF Take, Accepts, ready
<1>4. r.op = "Tag" => i.status \in {"Creating", "Normal", "Changing", "Releasing"}
  BY DEF Take, Accepts, Live
<1> HIDE DEF i, c
<1>5. /\ c \in Instance
      /\ c.bought = i.bought
      /\ c.used \in {i.used, i.used \cup {r.token}}
      /\ c.status \in (IF r.op = "Delete" THEN {"Releasing"}
                       ELSE IF r.op = "Destroy" THEN {"Destroyed"}
                       ELSE {i.status, "Changing"})
      /\ r.op = "Tag" => c.status = i.status
  BY <1>1, ChangedFacts DEF c
<1>6. inst' \in [Id -> Instance]
  BY <1>2, <1>5 DEF TypeOK
<1>7. inst'[r.id] = c /\ inst[r.id] = i /\ \A id \in Id \ {r.id} : inst'[id] = inst[id]
  BY <1>2 DEF TypeOK, i
<1>8. IsFiniteSet(i.used) => IsFiniteSet(c.used)
  BY <1>5, FS_AddElement
<1>9. Gentle
  BY <1>3, <1>4, <1>5, <1>7, <1>8 DEF Gentle
<1>10. EndsOnlySaved
  <2> SUFFICES ASSUME NEW id \in theirs, inst[id].status = "Normal",
                      inst'[id].status \in Ended
               PROVE  id = output
    BY DEF EndsOnlySaved
  <2>1. id \in Id
    BY DEF TypeOK
  <2>2. id = r.id
    BY <1>7, <2>1 DEF Ended
  <2>3. r.op \in {"Delete", "Destroy"}
    BY <1>5, <1>7, <2>2 DEF Ended
  <2> QED BY <2>2, <2>3 DEF Ending
<1> QED BY <1>6, <1>9, <1>10

\* A purchase is made while no other that is alive was.
LEMMA TakeIsBirth ==
    ASSUME TypeOK, NEW r \in Request, r.op = "Create", Take(r)
    PROVE  \/ UNCHANGED inst
           \/ Bought = {} /\ \E id \in Id : Birth(id, TRUE)
<1> SUFFICES ASSUME ~createTokenKnown, NEW id \in Fresh, Purchase(r.want, id)
             PROVE  Bought = {} /\ \E x \in Id : Birth(x, TRUE)
  BY DEF Take
<1>1. id \in Id /\ inst[id].status = "unborn"
  BY DEF Fresh, Unborn
<1>2. r.want \in Wanted
  BY DEF Request
<1>3. PICK u \in Wanted : inst' = [inst EXCEPT ![id] = PurchaseOf(r.want, u)]
  BY DEF Purchase, PurchaseOf
<1>4. Birth(id, TRUE)
  <2>1. /\ PurchaseOf(r.want, u) \in Instance
        /\ PurchaseOf(r.want, u).status = "Creating" /\ PurchaseOf(r.want, u).bought
        /\ IsFiniteSet(PurchaseOf(r.want, u).used)
    BY <1>2, PurchaseFacts
  <2>2. PurchaseOf(r.want, u).bought = TRUE
    BY <2>1 DEF Instance
  <2> QED BY <1>1, <1>3, <2>1, <2>2 DEF Birth, Ended
<1> QED BY <1>1, <1>4 DEF createTokenKnown

LEMMA BirthFacts ==
    ASSUME TypeOK, PurchaseInv, NEW id \in Id, NEW bought \in BOOLEAN, Birth(id, bought)
    PROVE  inst' \in [Id -> Instance] /\ EndsOnlySaved
BY DEF TypeOK, Birth, EndsOnlySaved, Ended

-----------------------------------------------------------------------------
(* The client token of a change of size. *)

\* However many requests were sent before, the next change of size has a token
\* that none of them has.
LEMMA TokenIsFresh ==
    ASSUME TypeOK, TokenInv, NEW spec \in SpecValue
    PROVE  specClientToken(spec) \in Token /\ specClientToken(spec) \notin Spent
<1> DEFINE used == { inst[id].used : id \in Id }
           sent == { r.token : r \in late }
           n == Cardinality(Spent)
<1>1. IsFiniteSet(UNION used)
  <2> DEFINE f == [id \in Id |-> inst[id].used]
  <2>1. f \in Surjection(Id, used)
    BY DEF Surjection
  <2>2. IsFiniteSet(used)
    <3> HIDE DEF f, used
    <3> QED BY <2>1, FS_Surjection, IdAssumption
  <2>3. \A s \in used : IsFiniteSet(s)
    BY DEF TokenInv
  <2> HIDE DEF used
  <2> QED BY <2>2, <2>3, FS_UNION
<1>2. IsFiniteSet(sent)
  <2> DEFINE f == [r \in late |-> r.token]
  <2>1. f \in Surjection(late, sent)
    BY DEF Surjection
  <2>2. IsFiniteSet(late)
    BY DEF TokenInv
  <2> HIDE DEF f, sent
  <2> QED BY <2>1, <2>2, FS_Surjection
<1>3. IsFiniteSet(Spent)
  <2>1. Spent = (UNION used) \cup sent
    BY DEF Spent
  <2> HIDE DEF used, sent
  <2> QED BY <1>1, <1>2, <2>1, FS_Union
<1>4. n \in Nat
  BY <1>3, FS_CardinalityType
<1>5. \E k \in 1 .. n + 1 : <<spec, k>> \notin Spent
  <2> SUFFICES ASSUME \A k \in 1 .. n + 1 : <<spec, k>> \in Spent
               PROVE  FALSE
    OBVIOUS
  <2> DEFINE f == [k \in 1 .. n + 1 |-> <<spec, k>>]
  <2>1. f \in [1 .. n + 1 -> Spent]
    OBVIOUS
  <2>2. IsFiniteSet(1 .. n + 1) /\ Cardinality(1 .. n + 1) = n + 1
    <3> HIDE DEF n
    <3> QED BY <1>4, FS_Interval
  <2>3. \E x, y \in 1 .. n + 1 : x # y /\ f[x] = f[y]
    <3>1. n < n + 1
      BY <1>4
    <3> HIDE DEF f
    <3> QED BY <1>3, <2>1, <2>2, <3>1, FS_PigeonHole
  <2> HIDE DEF n
  <2> QED BY <2>3
<1> DEFINE m == CHOOSE k \in 1 .. n + 1 : <<spec, k>> \notin Spent
<1>6. specClientToken(spec) = <<spec, m>>
  BY DEF specClientToken
<1>7. m \in 1 .. n + 1 /\ <<spec, m>> \notin Spent
  <2> HIDE DEF n
  <2> QED BY <1>5
<1> HIDE DEF m, n
<1> QED BY <1>4, <1>6, <1>7 DEF Token

-----------------------------------------------------------------------------
(* How a step may move the handler. *)

Copies == [spec : SpecValue, prot : BOOLEAN, auth : AuthValue,
           named : BOOLEAN, tagged : BOOLEAN]

ControlType ==
    /\ pc \in {"idle", "gone"} \cup Reconciling \cup Deleting
    /\ cur \in Id \cup {NoId} /\ seen \in Copies /\ token \in Token \cup {NoToken}
    /\ stage \in Stage /\ row \in BOOLEAN

\* A step of a handler: it ends, stays where it is, goes on with the instance
\* it has, or finds one.
Advances ==
    \/ Idle
    \/ UNCHANGED handler
    \/ /\ cur' = cur /\ seen' \in Copies /\ token' \in Token \cup {NoToken}
       /\ UNCHANGED <<stage, row>>
       /\ \/ pc \in Holding /\ pc' \in Holding
          \/ pc \in Reconciling /\ pc' \in {"create", "recover"}
       /\ pc' = "resize" => token' \in Token
    \/ /\ cur' \in Id /\ Born(cur)' /\ seen' \in Copies /\ UNCHANGED <<token, stage, row>>
       /\ pc \in Reconciling /\ pc' \in Holding \ {"resize"}
    \/ /\ UNCHANGED <<cur, seen, token>> /\ stage' \in Stage /\ row' \in BOOLEAN
       /\ pc \in Deleting /\ pc' \in Deleting \cup {"gone"}

LEMMA NoCopyType ==
    ASSUME TypeOK
    PROVE  NoCopy \in Copies
<1>1. news.spec \in SpecValue /\ news.auth \in AuthValue
  BY DEF TypeOK, SpecValue, AuthValue
<1>2. /\ (CHOOSE s \in SpecValue : TRUE) \in SpecValue
      /\ (CHOOSE a \in AuthValue : TRUE) \in AuthValue
  BY <1>1
<1> QED BY <1>2 DEF NoCopy, Copies

LEMMA CopyType ==
    ASSUME TypeOK, NEW id \in Id
    PROVE  Copy(inst[id]) \in Copies
BY DEF TypeOK, Instance, Copy, Copies

LEMMA AdvanceKeeps ==
    ASSUME TypeOK, EngineInv, Advances, UNCHANGED engine
    PROVE  ControlType' /\ EngineInv'
<1>0. ControlType
  BY DEF TypeOK, ControlType, Copies
<1>1. CASE Idle
  BY <1>0, <1>1, NoCopyType
     DEF Idle, engine, ControlType, EngineInv, Reconciling, Deleting, Stage
<1>2. CASE UNCHANGED handler
  BY <1>0, <1>2 DEF handler, engine, ControlType, EngineInv
<1>3. CASE /\ cur' = cur /\ seen' \in Copies /\ token' \in Token \cup {NoToken}
           /\ UNCHANGED <<stage, row>>
           /\ \/ pc \in Holding /\ pc' \in Holding
              \/ pc \in Reconciling /\ pc' \in {"create", "recover"}
           /\ pc' = "resize" => token' \in Token
  <2>1. pc \in Reconciling /\ pc' \in Reconciling
    BY <1>3 DEF Holding, Reconciling
  <2> QED BY <1>0, <1>3, <2>1 DEF engine, ControlType, EngineInv, Reconciling, Deleting
<1>4. CASE /\ cur' \in Id /\ Born(cur)' /\ seen' \in Copies /\ UNCHANGED <<token, stage, row>>
           /\ pc \in Reconciling /\ pc' \in Holding \ {"resize"}
  BY <1>0, <1>4 DEF engine, ControlType, EngineInv, Reconciling, Deleting, Holding
<1>5. CASE /\ UNCHANGED <<cur, seen, token>> /\ stage' \in Stage /\ row' \in BOOLEAN
           /\ pc \in Deleting /\ pc' \in Deleting \cup {"gone"}
  BY <1>0, <1>5 DEF engine, ControlType, EngineInv, Reconciling, Deleting
<1> QED BY <1>1, <1>2, <1>3, <1>4, <1>5 DEF Advances

\* The requests a handler may send at its step.
Sendable == {"Create", "ResetPassword", "Modify", "Resize", "ModifySettings",
             "ModifyAuth", "Tag", "Unprotect", "Delete", "Destroy"}
Sent(op) == Ask(op, IF op = "Create" THEN NoId ELSE IF op \in Ending THEN output ELSE cur)
MaySend(op) ==
    /\ op \in Sendable
    /\ op = "Create" => pc = "create"
    /\ op \in Ending => pc \in Deleting
    /\ op \notin Ending \cup {"Create"} => pc \in Holding
    /\ op = "Resize" => pc = "resize"

Reaches(r) ==
    \/ (Take(r) \/ UNCHANGED inst) /\ late' = late
    \/ late' = late \cup {r} /\ UNCHANGED inst

\* What every step of a handler does.
HandlerStep ==
    /\ UNCHANGED <<listed, dark, theirs, touched, engine>>
    /\ upsets' \in 0..MaxUpsets
    /\ Advances
    /\ UNCHANGED <<inst, late>> \/ \E op : MaySend(op) /\ Reaches(Sent(op))
    /\ pc' \in Holding => Born(cur)' \/ (pc \in Holding /\ cur' = cur)
    /\ pc' = "detail" /\ ~row' =>
          pc = "overview" /\ UNCHANGED inst /\ inst[output].status = "Destroyed"
    /\ pc' = "gone" => pc = "detail" /\ ~row /\ UNCHANGED inst

LEMMA UpsetType ==
    ASSUME TypeOK, Upset \/ UNCHANGED upsets
    PROVE  upsets' \in 0..MaxUpsets
<1>1. MaxUpsets \in Nat
  BY SetupAssumption DEF TypeOK, MaxUpsets
<1> QED BY <1>1 DEF TypeOK, Upset

LEMMA SentType ==
    ASSUME TypeOK, SafeInv, NEW op, MaySend(op)
    PROVE  /\ Sent(op) \in Request /\ Sent(op).op = op
           /\ op # "Create" => Sent(op).id \in Id
           /\ op = "Resize" => Sent(op).token \in Token
           /\ op \in Ending => intent = "absent" /\ Sent(op).id = output
<1>1. op \in Sendable
  BY DEF MaySend
<1>2. op \in Ending => output \in Id /\ intent = "absent"
  BY DEF MaySend, SafeInv, EngineInv, TypeOK
<1>3. op \notin Ending \cup {"Create"} => cur \in Id
  BY DEF MaySend, SafeInv, BornInv, Born
<1>4. op = "Resize" => token \in Token
  BY DEF MaySend, SafeInv, EngineInv
<1>5. news \in Wanted /\ token \in Token \cup {NoToken}
  BY DEF TypeOK
<1> QED BY <1>1, <1>2, <1>3, <1>4, <1>5 DEF Sent, Ask, Request, Sendable, Ending

\* A handler that goes on where it was, without a request.
LEMMA SkipStep ==
    ASSUME TypeOK, NEW then, Skip(then),
           \/ pc \in Holding /\ then \in Holding \ {"resize"}
           \/ pc \in Reconciling /\ then \in {"create", "recover"}
    PROVE  HandlerStep
<1>1. Advances
  BY DEF Skip, Goto, Advances, TypeOK, Copies
<1>2. upsets' \in 0..MaxUpsets
  BY UpsetType DEF Skip
<1>3. /\ UNCHANGED <<inst, listed, dark, late, theirs, touched, engine, cur, row>>
      /\ pc' = then
  BY DEF Skip, Goto, cloud
<1>4. /\ then \notin {"gone", "detail"}
      /\ then \in {"create", "recover"} => then \notin Holding
  BY DEF Holding, Reconciling
<1> QED BY <1>1, <1>2, <1>3, <1>4 DEF HandlerStep

LEMMA IdleStep ==
    ASSUME Idle, upsets' \in 0..MaxUpsets, UNCHANGED <<listed, dark, theirs, touched, engine>>,
           UNCHANGED <<inst, late>> \/ \E op : MaySend(op) /\ Reaches(Sent(op))
    PROVE  HandlerStep
BY DEF Idle, Advances, HandlerStep, Holding, Reconciling

LEMMA RefuseStep ==
    ASSUME TypeOK, Refuse
    PROVE  HandlerStep
<1>1. upsets' \in 0..MaxUpsets
  BY UpsetType DEF Refuse
<1> QED BY <1>1, IdleStep DEF Refuse, cloud

\* A call: what becomes of the request, and where the handler goes.
LEMMA MutationStep ==
    ASSUME TypeOK, NEW op, NEW then, MaySend(op), op \notin Ending \cup {"Create"},
           then \in Holding \ {"resize"}, Mutation(op, then)
    PROVE  HandlerStep
<1> DEFINE r == Ask(op, cur)
<1>0. r = Sent(op) /\ pc \in Holding
  BY DEF Sent, MaySend
<1>1. UNCHANGED <<listed, dark, theirs, touched, engine>>
  BY DEF Mutation
<1>2. upsets' \in 0..MaxUpsets
  BY UpsetType DEF Mutation, AnswerLost
<1>3. Reaches(r)
  BY DEF Mutation, AnswerLost, Reaches
<1>4. Goto(then) \/ Idle \/ UNCHANGED handler
  BY DEF Mutation
<1> HIDE DEF r
<1>5. CASE Idle
  BY <1>0, <1>1, <1>2, <1>3, <1>5, IdleStep
<1>6. CASE Goto(then)
  <2>1. Advances
    BY <1>0, <1>6 DEF Goto, Advances, TypeOK, Copies
  <2>2. pc' \notin {"gone", "detail"} /\ cur' = cur
    BY <1>6 DEF Goto, Holding, Reconciling
  <2> QED BY <1>0, <1>1, <1>2, <1>3, <2>1, <2>2 DEF HandlerStep
<1>7. CASE UNCHANGED handler
  <2>1. pc' \notin {"gone", "detail"} /\ cur' = cur /\ Advances
    BY <1>0, <1>7 DEF handler, Advances, Holding, Reconciling
  <2> QED BY <1>0, <1>1, <1>2, <1>3, <2>1 DEF HandlerStep
<1> QED BY <1>4, <1>5, <1>6, <1>7

LEMMA WaitStep ==
    ASSUME TypeOK, NEW STATE condition, NEW STATE copy, NEW then,
           Wait(condition, copy, then), copy \in Copies, pc \in Holding,
           then \in Holding \ {"resize"}
    PROVE  HandlerStep
<1>0. /\ UNCHANGED <<inst, listed, dark, late, theirs, touched, engine>>
      /\ upsets' \in 0..MaxUpsets
  BY UpsetType DEF Wait, cloud
<1>1. CASE Idle
  BY <1>0, <1>1, IdleStep
<1>2. CASE seen' = copy /\ pc' = then /\ UNCHANGED <<cur, token, stage, row>>
  <2>1. Advances
    BY <1>2 DEF Advances, TypeOK
  <2>2. then \notin {"gone", "detail"}
    BY DEF Holding, Reconciling
  <2> QED BY <1>0, <1>2, <2>1, <2>2 DEF HandlerStep
<1> QED BY <1>1, <1>2 DEF Wait

\* An instance that was found exists.
LEMMA FoundStep ==
    ASSUME TypeOK, NEW from, NEW id \in Observed(from), from \in Id \cup {NoId},
           NEW then \in Holding \ {"resize"}, Found(id, then), pc \in Reconciling
    PROVE  HandlerStep
<1>1. id \in Id /\ Live(id)
  BY DEF Observed, ByName, Readable, TypeOK
<1>2. Born(id)
  BY <1>1 DEF Born, Live
<1>3. UNCHANGED <<inst, listed, dark, late, theirs, touched, engine, row>> /\ upsets' \in 0..MaxUpsets
  BY UpsetType DEF Found, cloud
<1>4. cur' = id /\ pc' = then /\ Born(cur)'
  BY <1>2, <1>3 DEF Found, Born
<1>5. Copy(inst[id]) \in Copies
  BY <1>1, CopyType
<1>6. Advances
  BY <1>1, <1>4, <1>5 DEF Found, Advances
<1>7. then \notin {"gone", "detail"}
  BY DEF Holding, Reconciling
<1> QED BY <1>3, <1>4, <1>6, <1>7 DEF HandlerStep

LEMMA CreateStep ==
    ASSUME TypeOK, SafeInv, Create
    PROVE  HandlerStep
<1> DEFINE r == Ask("Create", NoId)
<1>0. /\ pc = "create" /\ UNCHANGED <<listed, dark, theirs, touched, engine>>
      /\ MaySend("Create") /\ r = Sent("Create")
  BY DEF Create, MaySend, Sendable, Sent, Ending
<1>1. upsets' \in 0..MaxUpsets
  BY UpsetType DEF Create, AnswerLost
<1>2. r \in Request /\ r.op = "Create"
  BY <1>0, SentType
<1>3. ASSUME NEW id \in Id, Take(r), inst'[id].bought, cur' = id, pc' = "created",
             UNCHANGED <<seen, token, stage, row, late, upsets>>
      PROVE  HandlerStep
  <2> HIDE DEF r
  <2>1. inst'[id].status # "unborn"
    <3>1. CASE UNCHANGED inst
      BY <1>3, <3>1 DEF SafeInv, PurchaseInv, Born
    <3>2. ASSUME NEW x \in Id, Birth(x, TRUE)
          PROVE  inst'[id].status # "unborn"
      <4>1. inst'[x].status # "unborn" /\ \A y \in Id \ {x} : inst'[y] = inst[y]
        BY <3>2 DEF Birth, TypeOK
      <4> QED BY <1>3, <4>1 DEF SafeInv, PurchaseInv, Born
    <3> QED BY <1>2, <1>3, <3>1, <3>2, TakeIsBirth
  <2>2. Born(cur)' /\ cur' \in Id
    BY <1>3, <2>1 DEF Born
  <2>3. Reaches(r)
    BY <1>3 DEF Reaches
  <2>4. Advances
    BY <1>0, <1>3, <2>2 DEF Advances, Holding, Reconciling, TypeOK, Copies
  <2> QED BY <1>0, <1>1, <1>3, <2>2, <2>3, <2>4 DEF HandlerStep
<1>4. CASE AnswerLost(r) /\ (Goto("recover") \/ UNCHANGED handler)
  <2>1. Reaches(r)
    BY <1>4 DEF AnswerLost, Reaches
  <2>2. Advances
    BY <1>0, <1>4 DEF Goto, Advances, TypeOK, Copies, Reconciling
  <2>3. pc' \in {"create", "recover"} /\ pc' \notin Holding
    BY <1>0, <1>4 DEF Goto, handler, Holding, Reconciling
  <2> HIDE DEF r
  <2> QED BY <1>0, <1>1, <2>1, <2>2, <2>3 DEF HandlerStep
<1> HIDE DEF r
<1> QED BY <1>3, <1>4 DEF Create, r

LEMMA ReconcileStep ==
    ASSUME TypeOK, SafeInv, Reconcile
    PROVE  HandlerStep
<1>0. cur \in Id \cup {NoId} /\ output \in Id \cup {NoId} /\ seen \in Copies
  BY DEF TypeOK, Copies
<1>01. pc \in Holding => cur \in Id /\ Copy(inst[cur]) \in Copies
  BY CopyType DEF SafeInv, BornInv, Born
<1>1. CASE Observe
  <2>1. ASSUME NEW id \in Observed(output), Found(id, "password")
        PROVE  HandlerStep
    BY <1>0, <1>1, <2>1, FoundStep DEF Observe, Holding, Reconciling
  <2>2. Skip("create") => HandlerStep
    BY <1>1, SkipStep DEF Observe, Reconciling
  <2> QED BY <1>1, <2>1, <2>2 DEF Observe
<1>2. CASE Create
  BY <1>2, CreateStep
<1>3. CASE Recover
  <2>1. ASSUME NEW id \in ByName, Found(id, "created")
        PROVE  HandlerStep
    <3>1. id \in Observed(NoId)
      BY DEF Observed
    <3> QED BY <1>3, <2>1, <3>1, FoundStep DEF Recover, Holding, Reconciling
  <2> QED BY <1>3, <2>1, RefuseStep DEF Recover
<1>4. CASE Created
  <2>1. ASSUME NEW id \in Observed(cur), Found(id, "modify")
        PROVE  HandlerStep
    BY <1>0, <1>4, <2>1, FoundStep DEF Created, Holding, Reconciling
  <2> QED BY <1>4, <2>1, RefuseStep DEF Created
<1>5. CASE ResetPassword
  <2>1. pc \in Holding /\ MaySend("ResetPassword")
    BY <1>5 DEF ResetPassword, MaySend, Sendable, Ending, Holding, Reconciling
  <2> QED BY <1>5, <2>1, SkipStep, MutationStep
          DEF ResetPassword, Ending, Holding, Reconciling
<1>6. CASE PasswordWait
  <2>1. pc \in Holding /\ "modify" \in Holding \ {"resize"}
    BY <1>6 DEF PasswordWait, Holding, Reconciling
  <2> QED BY <1>0, <1>6, <2>1, WaitStep DEF PasswordWait
<1>7. CASE ModifyAttribute
  <2>1. pc \in Holding /\ MaySend("Modify")
    BY <1>7 DEF ModifyAttribute, MaySend, Sendable, Ending, Holding, Reconciling
  <2> QED BY <1>7, <2>1, SkipStep, MutationStep
          DEF ModifyAttribute, Ending, Holding, Reconciling
<1>8. CASE WaitUntilNormal
  <2>1. pc \in Holding /\ "spec" \in Holding \ {"resize"}
    BY <1>8 DEF WaitUntilNormal, Holding, Reconciling
  <2> QED BY <1>01, <1>8, <2>1, WaitStep DEF WaitUntilNormal
<1>9. CASE ModifySpec
  <2>1. pc = "spec" /\ pc \in Holding
    BY <1>9 DEF ModifySpec, Holding, Reconciling
  <2>2. CASE Skip("settings")
    BY <2>1, <2>2, SkipStep DEF Holding, Reconciling
  <2>3. CASE /\ token' = specClientToken(news.spec)
             /\ pc' = "resize"
             /\ UNCHANGED <<cur, seen, stage, row, cloud, engine, upsets>>
    <3>1. news.spec \in SpecValue
      BY DEF TypeOK, SpecValue
    <3>2. token' \in Token
      BY <2>3, <3>1, TokenIsFresh DEF SafeInv
    <3>3. Advances
      BY <1>0, <2>1, <2>3, <3>2 DEF Advances, Holding, Reconciling
    <3>4. UNCHANGED <<inst, listed, dark, late, theirs, touched, engine>> /\ upsets' \in 0..MaxUpsets
      BY <2>3, UpsetType DEF cloud
    <3> QED BY <2>1, <2>3, <3>3, <3>4 DEF HandlerStep
  <2> QED BY <1>9, <2>2, <2>3 DEF ModifySpec
<1>10. CASE RequestSpec
  <2>1. pc \in Holding /\ MaySend("Resize") /\ "resizeWait" \in Holding \ {"resize"}
    BY <1>10 DEF RequestSpec, MaySend, Sendable, Ending, Holding, Reconciling
  <2> QED BY <1>10, <2>1, MutationStep DEF RequestSpec, Ending
<1>11. CASE ResizeWait
  <2>1. pc \in Holding /\ "settings" \in Holding \ {"resize"}
    BY <1>11 DEF ResizeWait, Holding, Reconciling
  <2> QED BY <1>0, <1>11, <2>1, WaitStep DEF ResizeWait
<1>12. CASE SyncSettings
  <2>1. pc \in Holding /\ MaySend("ModifySettings")
    BY <1>12 DEF SyncSettings, MaySend, Sendable, Ending, Holding, Reconciling
  <2> QED BY <1>12, <2>1, SkipStep, MutationStep
          DEF SyncSettings, Ending, Holding, Reconciling
<1>13. CASE SettingsWait
  <2>1. pc \in Holding /\ "auth" \in Holding \ {"resize"}
    BY <1>13 DEF SettingsWait, Holding, Reconciling
  <2> QED BY <1>01, <1>13, <2>1, WaitStep DEF SettingsWait
<1>14. CASE SyncTags
  <2>1. pc \in Holding /\ MaySend("Tag")
    BY <1>14 DEF SyncTags, MaySend, Sendable, Ending, Holding, Reconciling
  <2> QED BY <1>14, <2>1, SkipStep, MutationStep DEF SyncTags, Ending, Holding, Reconciling
<1>15. CASE Final
  <2>1. pc \in Holding /\ "returned" \in Holding \ {"resize"}
    BY <1>15 DEF Final, Holding, Reconciling
  <2> QED BY <1>0, <1>15, <2>1, WaitStep DEF Final
<1>16. CASE SyncAuthMode
  <2>1. pc \in Holding /\ MaySend("ModifyAuth")
    BY <1>16 DEF SyncAuthMode, MaySend, Sendable, Ending, Holding, Reconciling
  <2> QED BY <1>16, <2>1, SkipStep, MutationStep
          DEF SyncAuthMode, Ending, Holding, Reconciling
<1>17. CASE AuthModeWait
  <2>1. pc \in Holding /\ "tags" \in Holding \ {"resize"}
    BY <1>17 DEF AuthModeWait, Holding, Reconciling
  <2> QED BY <1>0, <1>17, <2>1, WaitStep DEF AuthModeWait
<1> QED BY <1>1, <1>2, <1>3, <1>4, <1>5, <1>6, <1>7, <1>8, <1>9, <1>10, <1>11,
           <1>12, <1>13, <1>14, <1>15, <1>16, <1>17 DEF Reconcile

-----------------------------------------------------------------------------
(* delete *)

\* A step of delete that is no reading of the detail APIs.
LEMMA DeletingStep ==
    ASSUME TypeOK, pc \in Deleting,
           \/ Idle
           \/ UNCHANGED handler /\ pc # "detail"
           \/ \E at \in Stage : Look(at)
           \/ \E step \in Deleting \ {"detail"} : Do(step),
           UNCHANGED <<listed, dark, theirs, touched, engine>>, upsets' \in 0..MaxUpsets,
           UNCHANGED <<inst, late>> \/ \E op : MaySend(op) /\ Reaches(Sent(op))
    PROVE  HandlerStep
<1>1. CASE Idle
  BY <1>1, IdleStep
<1>2. CASE UNCHANGED handler /\ pc # "detail"
  BY <1>2 DEF handler, HandlerStep, Advances, Holding, Reconciling, Deleting
<1>3. ASSUME NEW at \in Stage, Look(at)
      PROVE  HandlerStep
  BY <1>3 DEF Look, HandlerStep, Advances, Holding, Reconciling, Deleting
<1>4. ASSUME NEW step \in Deleting \ {"detail"}, Do(step)
      PROVE  HandlerStep
  BY <1>4 DEF Do, HandlerStep, Advances, Holding, Reconciling, Deleting, Stage
<1> QED BY <1>1, <1>2, <1>3, <1>4

\* Only absence, at the first observation or the last, ends delete.
LEMMA DecideMoves ==
    ASSUME NEW p, Decide(p)
    PROVE  \/ Idle
           \/ \E at \in Stage : Look(at)
           \/ \E step \in Deleting \ {"detail"} : Do(step)
           \/ p = "Absent" /\ Do("gone")
<1>1. {"again", "release", "last"} \subseteq Stage
  BY DEF Stage
<1>2. {"unprotect", "delete", "destroy"} \subseteq Deleting \ {"detail"}
  BY DEF Deleting
<1> QED BY <1>1, <1>2 DEF Decide

LEMMA RequestMoves ==
    ASSUME TypeOK, SafeInv, pc \in Deleting \ {"detail"}, NEW op \in Ending,
           NEW at \in Stage,
           RequestOrContinue(op, output, Look(at), Look("recheck"))
             \/ RequestOrContinue(op, output, Look(at), Do("unprotectRead"))
    PROVE  HandlerStep
<1> DEFINE r == Ask(op, output)
<1>1. MaySend(op) /\ r = Sent(op)
  BY DEF MaySend, Sent, Ending, Sendable
<1>2. Reaches(r)
  BY DEF RequestOrContinue, AnswerLost, Reaches
<1>3. /\ UNCHANGED <<listed, dark, theirs, touched, engine>>
      /\ \/ \E x \in Stage : Look(x)
         \/ \E step \in Deleting \ {"detail"} : Do(step)
         \/ UNCHANGED handler
  <2>1. "recheck" \in Stage /\ "unprotectRead" \in Deleting \ {"detail"}
    BY DEF Stage, Deleting
  <2> QED BY <2>1 DEF RequestOrContinue
<1>4. upsets' \in 0..MaxUpsets
  BY UpsetType DEF RequestOrContinue, AnswerLost
<1> HIDE DEF r
<1> QED BY <1>1, <1>2, <1>3, <1>4, DeletingStep

LEMMA DeleteStep ==
    ASSUME TypeOK, SafeInv, Delete
    PROVE  HandlerStep
<1>1. CASE Overview
  <2>0. /\ pc = "overview" /\ pc \in Deleting
        /\ UNCHANGED <<inst, listed, dark, late, theirs, touched, engine>>
    BY <1>1 DEF Overview, Deleting, cloud
  <2>1. upsets' \in 0..MaxUpsets
    BY <1>1, UpsetType DEF Overview
  <2>2. CASE Decide("Released")
    BY <2>0, <2>1, <2>2, DecideMoves, DeletingStep
  <2>3. CASE /\ inst[output].status # "Released"
             /\ row' = Live(output)
             /\ pc' = "detail"
             /\ UNCHANGED <<cur, seen, token, stage>>
    <3>1. Born(output) /\ inst[output] \in Instance
      BY <2>0 DEF SafeInv, EngineInv, BornInv, Born, TypeOK
    <3>2. ~row' => inst[output].status = "Destroyed"
      BY <2>3, <3>1 DEF Live, Born, Instance
    <3>3. row' \in BOOLEAN /\ stage' \in Stage
      BY <2>3 DEF Live, TypeOK
    <3>4. Advances
      BY <2>0, <2>3, <3>3 DEF Advances, Deleting
    <3> QED BY <2>0, <2>1, <2>3, <3>2, <3>4 DEF HandlerStep, Holding, Reconciling
  <2> QED BY <1>1, <2>2, <2>3 DEF Overview
<1>2. CASE Detail
  <2>0. /\ pc = "detail" /\ pc \in Deleting
        /\ UNCHANGED <<inst, listed, dark, late, theirs, touched, engine>>
    BY <1>2 DEF Detail, Deleting, cloud
  <2>1. upsets' \in 0..MaxUpsets
    BY <1>2, UpsetType DEF Detail
  <2>2. PICK p : Decide(p) /\ (p = "Absent" => ~row)
    <3>1. \A i : live(i) # "Absent"
      BY DEF live
    <3> QED BY <1>2, <3>1 DEF Detail
  <2>3. CASE p = "Absent" /\ Do("gone")
    <3>1. Advances
      BY <2>0, <2>3 DEF Do, Advances, Stage
    <3> QED BY <2>0, <2>1, <2>2, <2>3, <3>1 DEF Do, HandlerStep, Holding, Reconciling
  <2> QED BY <2>0, <2>1, <2>2, <2>3, DecideMoves, DeletingStep
<1>3. CASE DisableReleaseProtection
  <2>1. pc \in Deleting \ {"detail"} /\ "again" \in Stage /\ "Unprotect" \in Ending
    BY <1>3 DEF DisableReleaseProtection, Deleting, Stage, Ending
  <2> QED BY <1>3, <2>1, RequestMoves DEF DisableReleaseProtection
<1>4. CASE UnprotectRead
  <2>1. pc \in Deleting /\ "again" \in Stage
    BY <1>4 DEF UnprotectRead, Deleting, Stage
  <2>2. /\ UNCHANGED <<inst, listed, dark, late, theirs, touched, engine>>
        /\ upsets' \in 0..MaxUpsets
    BY <1>4, UpsetType DEF UnprotectRead, cloud
  <2> QED BY <1>4, <2>1, <2>2, DeletingStep DEF UnprotectRead
<1>5. CASE DeleteInstance
  <2>1. pc \in Deleting \ {"detail"} /\ "release" \in Stage /\ "Delete" \in Ending
    BY <1>5 DEF DeleteInstance, Deleting, Stage, Ending
  <2> QED BY <1>5, <2>1, RequestMoves DEF DeleteInstance
<1>6. CASE DestroyInstance
  <2> DEFINE r == Ask("Destroy", output)
  <2>0. /\ pc = "destroy" /\ pc \in Deleting /\ "last" \in Stage
        /\ UNCHANGED <<listed, dark, theirs, touched, engine>>
    BY <1>6 DEF DestroyInstance, Deleting, Stage
  <2>1. upsets' \in 0..MaxUpsets
    BY <1>6, UpsetType DEF DestroyInstance, AnswerLost
  <2>2. MaySend("Destroy") /\ r = Sent("Destroy")
    BY <2>0 DEF MaySend, Sent, Ending, Sendable
  <2>3. Reaches(r)
    BY <1>6 DEF DestroyInstance, AnswerLost, Reaches
  <2>4. Look("last") \/ Idle \/ UNCHANGED handler
    BY <1>6 DEF DestroyInstance
  <2> HIDE DEF r
  <2> QED BY <2>0, <2>1, <2>2, <2>3, <2>4, DeletingStep
<1> QED BY <1>1, <1>2, <1>3, <1>4, <1>5, <1>6 DEF Delete

-----------------------------------------------------------------------------
(* Every step keeps the invariant. *)

\* How the cloud changes, by whatever step.
Grows ==
    \/ Gentle
    \/ Bought = {} /\ \E id \in Id : Birth(id, TRUE)
    \/ \E id \in Id : Birth(id, FALSE)

UsedFinite == \A id \in Id : IsFiniteSet(inst[id].used)

LEMMA RequestInCloud ==
    ASSUME TypeOK, PurchaseInv, NEW r \in Request,
           r.op # "Create" => r.id \in Id,
           r.op = "Resize" => r.token \in Token,
           r.op \in Ending => r.id = output,
           Take(r) \/ UNCHANGED inst
    PROVE  inst' \in [Id -> Instance] /\ Grows /\ EndsOnlySaved
<1>1. CASE UNCHANGED inst
  BY <1>1, SameCloud DEF TypeOK, Grows
<1>2. CASE Take(r) /\ r.op = "Create"
  BY <1>1, <1>2, TakeIsBirth, BirthFacts DEF Grows
<1>3. CASE Take(r) /\ r.op # "Create"
  BY <1>3, TakeIsGentle DEF Grows
<1> QED BY <1>1, <1>2, <1>3

LEMMA GrowthKeeps ==
    ASSUME TypeOK, PurchaseInv, UsedFinite, Grows
    PROVE  /\ PurchaseInv' /\ UsedFinite'
           /\ \A id \in Id : /\ Born(id) => Born(id)'
                             /\ inst[id].status = "Destroyed" => inst'[id].status = "Destroyed"
<1>1. CASE Gentle
  <2>1. \A id \in Id : Born(id) <=> Born(id)'
    BY <1>1 DEF Gentle, Born
  <2>2. \A id \in Id : id \in Bought' => id \in Bought
    <3> SUFFICES ASSUME NEW id \in Id, Live(id)', inst'[id].bought
                 PROVE  Live(id) /\ inst[id].bought
      BY DEF Bought
    <3>1. inst[id] \in Instance
      BY DEF TypeOK
    <3> QED BY <1>1, <3>1 DEF Gentle, Live, Instance
  <2>3. Bought' \subseteq Id
    BY DEF Bought
  <2>4. PurchaseInv'
    BY <1>1, <2>1, <2>2, <2>3 DEF PurchaseInv, Gentle
  <2> QED BY <1>1, <2>1, <2>4 DEF Gentle, UsedFinite
<1>2. ASSUME NEW id \in Id, NEW bought \in BOOLEAN, Birth(id, bought),
             bought => Bought = {}
      PROVE  /\ PurchaseInv' /\ UsedFinite'
             /\ \A x \in Id : /\ Born(x) => Born(x)'
                              /\ inst[x].status = "Destroyed" => inst'[x].status = "Destroyed"
  <2>1. PICK a \in Instance :
           /\ inst' = [inst EXCEPT ![id] = a]
           /\ a.status \notin {"unborn"} \cup Ended /\ a.bought = bought
           /\ IsFiniteSet(a.used) /\ inst[id].status = "unborn"
    BY <1>2 DEF Birth
  <2>2. inst'[id] = a /\ \A x \in Id \ {id} : inst'[x] = inst[x]
    BY <2>1 DEF TypeOK
  <2>3. Born(id)' /\ ~Born(id)
    BY <2>1, <2>2 DEF Born
  <2>4. \A x \in Id \ {id} : (Born(x)' <=> Born(x)) /\ (x \in Bought' <=> x \in Bought)
    BY <2>2 DEF Born, Bought, Live
  <2>5. id \in Bought' => bought
    BY <2>1, <2>2 DEF Bought
  <2>6. \A x, y \in Bought' : x = y
    BY <1>2, <2>4, <2>5 DEF PurchaseInv, Bought
  <2>7. \A x \in Id : inst'[x].bought => Born(x)'
    BY <2>2, <2>3, <2>4 DEF PurchaseInv
  <2>8. UsedFinite'
    BY <2>1, <2>2 DEF UsedFinite
  <2>9. \A x \in Id : inst[x].status = "Destroyed" => inst'[x].status = "Destroyed"
    BY <2>1, <2>2
  <2> QED BY <2>3, <2>4, <2>6, <2>7, <2>8, <2>9 DEF PurchaseInv
<1> QED BY <1>1, <1>2 DEF Grows

\* A request that goes on while its caller does not wait for it any more.
LEMMA LateKeeps ==
    ASSUME TypeOK, SafeInv, NEW op, MaySend(op), late' = late \cup {Sent(op)},
           UNCHANGED <<intent, output>>
    PROVE  late' \in SUBSET Request /\ LateInv' /\ IsFiniteSet(late')
<1>1. /\ Sent(op) \in Request /\ Sent(op).op = op
      /\ op # "Create" => Sent(op).id \in Id
      /\ op = "Resize" => Sent(op).token \in Token
      /\ op \in Ending => intent = "absent" /\ Sent(op).id = output
  BY SentType
<1>2. IsFiniteSet(late')
  BY FS_AddElement DEF SafeInv, TokenInv
<1> QED BY <1>1, <1>2 DEF SafeInv, LateInv, TypeOK

LEMMA HandlerKeeps ==
    ASSUME TypeOK, SafeInv, HandlerStep, UNCHANGED setup
    PROVE  TypeOK' /\ SafeInv' /\ EndsOnlySaved
<1>0. /\ UNCHANGED <<listed, dark, theirs, touched, intent, news, output, olds, begun, setup>>
      /\ upsets' \in 0..MaxUpsets' /\ UNCHANGED engine
  BY DEF HandlerStep, engine, MaxUpsets
<1>1. ControlType' /\ EngineInv'
  BY AdvanceKeeps DEF HandlerStep, SafeInv
<1>2. inst' \in [Id -> Instance] /\ Grows /\ EndsOnlySaved
  <2>1. CASE UNCHANGED inst
    BY <2>1, SameCloud DEF TypeOK, Grows
  <2>2. ASSUME NEW op, MaySend(op), Reaches(Sent(op))
        PROVE  inst' \in [Id -> Instance] /\ Grows /\ EndsOnlySaved
    <3>1. /\ Sent(op) \in Request /\ Sent(op).op = op
          /\ op # "Create" => Sent(op).id \in Id
          /\ op = "Resize" => Sent(op).token \in Token
          /\ op \in Ending => Sent(op).id = output
      BY <2>2, SentType
    <3>2. Take(Sent(op)) \/ UNCHANGED inst
      BY <2>2 DEF Reaches
    <3> QED BY <3>1, <3>2, RequestInCloud DEF SafeInv
  <2> QED BY <2>1, <2>2 DEF HandlerStep
<1>3. late' \in SUBSET Request /\ LateInv' /\ IsFiniteSet(late')
  <2>1. CASE late' = late
    BY <1>0, <2>1 DEF TypeOK, SafeInv, LateInv, TokenInv
  <2>2. ASSUME NEW op, MaySend(op), late' = late \cup {Sent(op)}
        PROVE  late' \in SUBSET Request /\ LateInv' /\ IsFiniteSet(late')
    BY <1>0, <2>2, LateKeeps
  <2> QED BY <2>1, <2>2 DEF HandlerStep, Reaches
<1>4. /\ PurchaseInv' /\ UsedFinite'
      /\ \A id \in Id : /\ Born(id) => Born(id)'
                        /\ inst[id].status = "Destroyed" => inst'[id].status = "Destroyed"
  BY <1>2, GrowthKeeps DEF SafeInv, TokenInv, UsedFinite
<1>5. TypeOK'
  BY <1>0, <1>1, <1>2, <1>3 DEF TypeOK, ControlType, Copies
<1>6. BornInv'
  <2>1. output' # NoId => Born(output)'
    BY <1>0, <1>4 DEF SafeInv, BornInv, Born
  <2>2. pc' \in Holding => Born(cur)'
    BY <1>4 DEF HandlerStep, SafeInv, BornInv, Born
  <2> QED BY <2>1, <2>2 DEF BornInv
<1>7. TokenInv'
  BY <1>3, <1>4 DEF TokenInv, UsedFinite
<1>8. GoneInv'
  BY <1>0 DEF HandlerStep, SafeInv, GoneInv
<1> QED BY <1>1, <1>2, <1>3, <1>4, <1>5, <1>6, <1>7, <1>8 DEF SafeInv

\* A step of the cloud or of somebody else.
LEMMA OutsideKeeps ==
    ASSUME TypeOK, SafeInv, TypeOK', Grows, late' \subseteq late,
           UNCHANGED <<intent, output, handler>>
    PROVE  SafeInv'
<1>0. UNCHANGED <<pc, cur, seen, token, stage, row>>
  BY DEF handler
<1>1. /\ PurchaseInv' /\ UsedFinite'
      /\ \A id \in Id : /\ Born(id) => Born(id)'
                        /\ inst[id].status = "Destroyed" => inst'[id].status = "Destroyed"
  BY GrowthKeeps DEF SafeInv, TokenInv, UsedFinite
<1>2. IsFiniteSet(late')
  BY FS_Subset DEF SafeInv, TokenInv
<1>3. EngineInv'
  BY <1>0 DEF SafeInv, EngineInv
<1>4. BornInv' /\ LateInv'
  BY <1>0, <1>1 DEF SafeInv, BornInv, LateInv, Born
<1>5. GoneInv'
  <2>1. pc = "detail" \/ pc = "gone" => output \in Id
    BY DEF SafeInv, EngineInv, TypeOK, Deleting
  <2> QED BY <1>0, <1>1, <2>1 DEF SafeInv, GoneInv
<1> QED BY <1>1, <1>2, <1>3, <1>4, <1>5 DEF SafeInv, TokenInv, UsedFinite

LEMMA StatusType ==
    ASSUME NEW i \in Instance, NEW s \in {"Normal", "Releasing", "Released"}
    PROVE  [i EXCEPT !.status = s] \in Instance
BY DEF Instance

LEMMA CloudStepKeeps ==
    ASSUME TypeOK, SafeInv, CloudStep, UNCHANGED setup
    PROVE  TypeOK' /\ SafeInv' /\ EndsOnlySaved
<1>1. ASSUME NEW id \in Id, TaskEnds(id)
      PROVE  TypeOK' /\ SafeInv' /\ EndsOnlySaved
  <2> DEFINE s == IF deleting(inst[id]) THEN "Released" ELSE "Normal"
             a == [inst[id] EXCEPT !.status = s, !.spec = inst[id].next]
  <2>1. inst[id] \in Instance /\ inst[id].status \in {"Creating", "Changing", "Releasing"}
    BY <1>1 DEF TypeOK, TaskEnds
  <2>2. inst' = [inst EXCEPT ![id] = a]
    BY <1>1 DEF TaskEnds
  <2>3. a \in Instance /\ a.bought = inst[id].bought /\ a.status = s /\ a.used = inst[id].used
    BY <2>1 DEF Instance
  <2> HIDE DEF a
  <2>4. inst'[id] = a /\ \A x \in Id \ {id} : inst'[x] = inst[x]
    BY <2>2 DEF TypeOK
  <2>5. Gentle /\ EndsOnlySaved
    BY <2>1, <2>3, <2>4 DEF Gentle, EndsOnlySaved, Ended, TypeOK
  <2>6. TypeOK'
    <3>1. inst' \in [Id -> Instance]
      BY <2>2, <2>3 DEF TypeOK
    <3>2. UNCHANGED <<listed, dark, late, theirs, touched, intent, news, output, olds, begun,
                      pc, cur, seen, token, stage, row, upsets>>
      BY <1>1 DEF TaskEnds, handler, engine
    <3> QED BY <3>1, <3>2 DEF TypeOK, MaxUpsets
  <2> QED BY <1>1, <2>5, <2>6, OutsideKeeps DEF TaskEnds, Grows, engine
<1>2. ASSUME NEW id \in Id, InventoryCatchesUp(id) \/ Reappears(id)
      PROVE  TypeOK' /\ SafeInv' /\ EndsOnlySaved
  <2>1. TypeOK'
    BY <1>2 DEF InventoryCatchesUp, Reappears, TypeOK, handler, engine, MaxUpsets
  <2> QED BY <1>2, <2>1, SameCloud, OutsideKeeps
          DEF InventoryCatchesUp, Reappears, Grows, engine
<1>3. ASSUME NEW r \in late, LateLands(r)
      PROVE  TypeOK' /\ SafeInv' /\ EndsOnlySaved
  <2>1. /\ r \in Request
        /\ r.op # "Create" => r.id \in Id
        /\ r.op = "Resize" => r.token \in Token
        /\ r.op \in Ending => r.id = output
    BY DEF TypeOK, SafeInv, LateInv
  <2>2. Take(r) \/ UNCHANGED inst
    BY <1>3 DEF LateLands
  <2>3. inst' \in [Id -> Instance] /\ Grows /\ EndsOnlySaved
    BY <2>1, <2>2, RequestInCloud DEF SafeInv
  <2>4. TypeOK'
    <3>1. /\ late' = late \ {r} /\ touched' \in BOOLEAN
          /\ UNCHANGED <<listed, dark, theirs, engine, handler, upsets, setup>>
      BY <1>3 DEF LateLands, TypeOK
    <3> QED BY <2>3, <3>1 DEF TypeOK, handler, engine, MaxUpsets
  <2> QED BY <1>3, <2>3, <2>4, OutsideKeeps DEF LateLands, engine
<1> QED BY <1>1, <1>2, <1>3 DEF CloudStep

LEMMA DisturbanceKeeps ==
    ASSUME TypeOK, SafeInv, Disturbance, UNCHANGED setup
    PROVE  TypeOK' /\ SafeInv' /\ EndsOnlySaved
<1>1. ASSUME NEW id \in Id, NamesakeAppears(id)
      PROVE  TypeOK' /\ SafeInv' /\ EndsOnlySaved
  <2> DEFINE a == [inst[id] EXCEPT !.status = "Normal"]
  <2>1. inst[id].status = "unborn" /\ inst[id] \in Instance
    BY <1>1 DEF NamesakeAppears, Fresh, Unborn, TypeOK
  <2>2. inst' = [inst EXCEPT ![id] = a] /\ a \in Instance
    BY <1>1, <2>1, StatusType DEF NamesakeAppears
  <2>3. a.status = "Normal" /\ a.bought = inst[id].bought /\ a.used = inst[id].used
    BY <2>1 DEF Instance
  <2> HIDE DEF a
  <2>4. inst[id].bought = FALSE /\ IsFiniteSet(inst[id].used)
    <3>1. ~inst[id].bought
      BY <2>1 DEF SafeInv, PurchaseInv, Born
    <3>2. inst[id].bought \in BOOLEAN
      BY <2>1 DEF Instance
    <3> QED BY <3>1, <3>2 DEF SafeInv, TokenInv
  <2>5. Birth(id, FALSE)
    BY <2>1, <2>2, <2>3, <2>4 DEF Birth, Ended
  <2>6. EndsOnlySaved
    BY <2>5, BirthFacts DEF SafeInv
  <2>7. TypeOK'
    BY <1>1, <2>2 DEF NamesakeAppears, TypeOK, handler, engine, MaxUpsets
  <2> QED BY <1>1, <2>5, <2>6, <2>7, OutsideKeeps DEF NamesakeAppears, Grows, engine
<1>2. ASSUME NEW id \in Id, ConsoleChange(id)
      PROVE  TypeOK' /\ SafeInv' /\ EndsOnlySaved
  <2>0. inst[id] \in Instance /\ id \notin theirs /\ inst[id].status = "Normal"
    BY <1>2 DEF ConsoleChange, TypeOK, ready
  <2> DEFINE Touched(a) ==
               /\ inst' = [inst EXCEPT ![id] = a]
               /\ a.bought = inst[id].bought /\ a.used = inst[id].used
               /\ a.status \in {"Normal", "Releasing"}
  <2>1. PICK a \in Instance : Touched(a)
    <3>1. CASE inst' = [inst EXCEPT ![id].named = FALSE]
      <4>1. [inst[id] EXCEPT !.named = FALSE] \in Instance
        BY <2>0 DEF Instance
      <4> USE <4>1
      <4> WITNESS [inst[id] EXCEPT !.named = FALSE] \in Instance
      <4> QED BY <2>0, <3>1 DEF Instance
    <3>2. CASE inst' = [inst EXCEPT ![id].prot = ~@]
      <4>1. [inst[id] EXCEPT !.prot = ~@] \in Instance
        BY <2>0 DEF Instance
      <4> USE <4>1
      <4> WITNESS [inst[id] EXCEPT !.prot = ~@] \in Instance
      <4> QED BY <2>0, <3>2 DEF Instance
    <3>3. ASSUME NEW s \in SpecValue, inst' = [inst EXCEPT ![id].spec = s, ![id].next = s]
          PROVE  \E a \in Instance : Touched(a)
      <4>1. [inst[id] EXCEPT !.spec = s, !.next = s] \in Instance
        BY <2>0 DEF Instance
      <4>2. Touched([inst[id] EXCEPT !.spec = s, !.next = s])
        BY <2>0, <3>3 DEF Instance
      <4> QED BY <4>1, <4>2
    <3>4. CASE inst' = [inst EXCEPT ![id].status = "Releasing"]
      <4>1. [inst[id] EXCEPT !.status = "Releasing"] \in Instance
        BY <2>0 DEF Instance
      <4> USE <4>1
      <4> WITNESS [inst[id] EXCEPT !.status = "Releasing"] \in Instance
      <4> QED BY <2>0, <3>4 DEF Instance
    <3> QED BY <1>2, <3>1, <3>2, <3>3, <3>4 DEF ConsoleChange
  <2>2. inst'[id] = a /\ \A x \in Id \ {id} : inst'[x] = inst[x]
    BY <2>1 DEF TypeOK
  <2>3. Gentle /\ EndsOnlySaved
    BY <2>0, <2>1, <2>2 DEF Gentle, EndsOnlySaved, Ended, TypeOK
  <2>4. TypeOK'
    <3>1. inst' \in [Id -> Instance]
      BY <2>1 DEF TypeOK
    <3>2. upsets' \in 0..MaxUpsets /\ UNCHANGED setup
      BY <1>2, UpsetType DEF ConsoleChange
    <3> QED BY <1>2, <3>1, <3>2 DEF ConsoleChange, TypeOK, handler, engine, MaxUpsets
  <2> QED BY <1>2, <2>3, <2>4, OutsideKeeps DEF ConsoleChange, Grows, engine
<1>3. ASSUME NEW id \in Id, GoesDark(id)
      PROVE  TypeOK' /\ SafeInv' /\ EndsOnlySaved
  <2>1. TypeOK'
    BY <1>3, UpsetType DEF GoesDark, TypeOK, handler, engine, MaxUpsets
  <2> QED BY <1>3, <2>1, SameCloud, OutsideKeeps DEF GoesDark, Grows, engine
<1>4. CASE Crash
  <2>1. upsets' \in 0..MaxUpsets
    BY <1>4, UpsetType DEF Crash
  <2>2. HandlerStep
    BY <1>4, <2>1, IdleStep DEF Crash, cloud
  <2> QED BY <2>2, HandlerKeeps
<1>5. CASE EditStack
  <2>1. TypeOK'
    BY <1>5, UpsetType DEF EditStack, TypeOK, handler, cloud, MaxUpsets
  <2> QED BY <1>5, <2>1, SameCloud, OutsideKeeps DEF EditStack, cloud, Grows
<1>6. CASE DestroyStack
  <2>1. TypeOK'
    BY <1>6 DEF DestroyStack, TypeOK, handler, cloud, MaxUpsets
  <2>2. UNCHANGED <<inst, late, output, pc, cur, seen, token, stage, row>> /\ pc = "idle"
        /\ intent = "present" /\ intent' = "absent" /\ output # NoId
    BY <1>6 DEF DestroyStack, cloud, handler
  <2>3. EndsOnlySaved
    BY <2>2, SameCloud
  <2> QED BY <2>1, <2>2, <2>3
          DEF SafeInv, EngineInv, BornInv, LateInv, PurchaseInv, TokenInv, GoneInv, Born,
              Bought, Live, Reconciling, Deleting
<1> QED BY <1>1, <1>2, <1>3, <1>4, <1>5, <1>6 DEF Disturbance

LEMMA EngineStepKeeps ==
    ASSUME TypeOK, SafeInv, EngineStep, UNCHANGED setup
    PROVE  TypeOK' /\ SafeInv' /\ EndsOnlySaved
<1> USE DEF SafeInv
<1>0. /\ UNCHANGED <<inst, listed, dark, late, theirs, intent, news, upsets, setup>>
      /\ pc' \in {"idle", "observe", "overview"}
  BY DEF EngineStep, StartReconcile, StartDelete, SaveState, Goto, Idle, cloud, engine
<1>1. EndsOnlySaved
  BY <1>0, SameCloud
<1>2. CASE StartReconcile
  <2>1. TypeOK'
    BY <1>2 DEF StartReconcile, Goto, TypeOK, Reconciling, MaxUpsets
  <2>2. UNCHANGED <<output, cur>> /\ pc' = "observe" /\ intent = "present"
    BY <1>2 DEF StartReconcile, Goto, engine
  <2> QED BY <1>0, <1>1, <2>1, <2>2
          DEF EngineInv, BornInv, LateInv, PurchaseInv, TokenInv, GoneInv, Born, Bought,
              Live, Holding, Reconciling, Deleting
<1>3. CASE StartDelete
  <2>1. TypeOK'
    BY <1>3 DEF StartDelete, cloud, engine, TypeOK, Deleting, Stage, MaxUpsets
  <2>2. UNCHANGED <<output, cur>> /\ pc' = "overview" /\ intent = "absent"
    BY <1>3 DEF StartDelete, engine
  <2> QED BY <1>0, <1>1, <2>1, <2>2
          DEF EngineInv, BornInv, LateInv, PurchaseInv, TokenInv, GoneInv, Born, Bought,
              Live, Holding, Reconciling, Deleting
<1>4. CASE SaveState
  <2>0. pc = "returned" /\ output' = cur /\ Idle /\ olds' = news /\ begun' = FALSE /\ UNCHANGED touched
    BY <1>4 DEF SaveState, cloud
  <2>1. Born(cur) /\ cur # NoId /\ intent = "present"
    BY <2>0, NoIdAssumption DEF BornInv, Born, EngineInv, Holding, Reconciling
  <2>2. TypeOK'
    BY <1>0, <2>0, NoCopyType DEF Idle, TypeOK, Copies, Stage, MaxUpsets
  <2> QED BY <1>0, <1>1, <2>0, <2>1, <2>2
          DEF Idle, EngineInv, BornInv, LateInv, PurchaseInv, TokenInv, GoneInv, Born,
              Bought, Live, Holding, Reconciling, Deleting
<1> QED BY <1>2, <1>3, <1>4 DEF EngineStep

LEMMA InitSafe == Init => TypeOK /\ SafeInv
<1> SUFFICES ASSUME Init PROVE TypeOK /\ SafeInv
  OBVIOUS
<1>1. Blank(news) \in Instance /\ news.spec \in SpecValue /\ news.auth \in AuthValue
  BY BlankType DEF Init, SpecValue, AuthValue
<1>2. /\ (CHOOSE s \in SpecValue : TRUE) \in SpecValue
      /\ (CHOOSE a \in AuthValue : TRUE) \in AuthValue
  BY <1>1
<1>3. 0 \in 0..MaxUpsets
  <2>1. MaxUpsets \in Nat
    BY SetupAssumption DEF Init, MaxUpsets
  <2> QED BY <2>1
<1>4. TypeOK
  BY <1>1, <1>2, <1>3 DEF Init, TypeOK, NoCopy, Stage
<1>5. \A id \in Id : inst[id].status = "unborn" /\ ~inst[id].bought /\ inst[id].used = {}
  BY DEF Init, Blank
<1>6. IsFiniteSet({})
  BY FS_EmptySet
<1>7. Bought = {}
  BY <1>5 DEF Bought
<1> QED BY <1>4, <1>5, <1>6, <1>7
        DEF Init, SafeInv, EngineInv, BornInv, LateInv, PurchaseInv, TokenInv, GoneInv,
            Holding, Reconciling, Deleting

LEMMA NextKeeps ==
    ASSUME TypeOK, SafeInv, [Next]_vars
    PROVE  TypeOK' /\ SafeInv' /\ EndsOnlySaved
<1>1. CASE UNCHANGED vars
  <2>1. UNCHANGED <<setup, inst, listed, dark, late, theirs, touched, intent, news, output,
                    olds, begun, pc, cur, seen, token, stage, row, upsets>>
    BY <1>1 DEF vars, moving, cloud, engine, handler
  <2>2. TypeOK'
    BY <2>1 DEF TypeOK, MaxUpsets
  <2> QED BY <2>1, <2>2, SameCloud, OutsideKeeps DEF Grows, handler
<1>2. CASE (Reconcile \/ Delete) /\ UNCHANGED setup
  BY <1>2, ReconcileStep, DeleteStep, HandlerKeeps
<1> QED BY <1>1, <1>2, CloudStepKeeps, DisturbanceKeeps, EngineStepKeeps DEF Next, Step

LEMMA Safe == Spec => [](TypeOK /\ SafeInv)
BY InitSafe, NextKeeps, PTL DEF Spec

\* Every reachable state is well typed: among others, each change of size is
\* sent with a token of its own, however many were sent before.
THEOREM TypeCorrect == Spec => []TypeOK
BY Safe, PTL

\* However often the create is lost, repeated, interrupted or late, and whatever
\* the read APIs hide meanwhile, one resource never pays for two instances: all
\* attempts carry the token create-<generation> (instance.ts `createToken`).
THEOREM OnePurchase == Spec => []OneLivePurchase
<1>1. ASSUME SafeInv
      PROVE  OneLivePurchase
  <2>1. CASE Bought = {}
    BY <2>1, FS_EmptySet DEF OneLivePurchase
  <2>2. ASSUME NEW i \in Bought
        PROVE  OneLivePurchase
    <3>1. Bought = {i}
      BY <1>1, <2>2 DEF SafeInv, PurchaseInv
    <3>2. Cardinality({i}) = 1
      BY FS_Singleton
    <3> QED BY <3>1, <3>2 DEF OneLivePurchase
  <2> QED BY <2>1, <2>2
<1> QED BY <1>1, Safe, PTL

\* A destroy that is done has emptied the recycle bin, in whatever order its
\* observations met lapses of the detail APIs, a release that was under way, and
\* requests that failed or were late.
THEOREM DestroyIsComplete == Spec => []DeletedMeansDestroyed
<1>1. SafeInv => DeletedMeansDestroyed
  BY DEF SafeInv, GoneInv, DeletedMeansDestroyed
<1> QED BY <1>1, Safe, PTL

\* Although delete looks the instance up by its name when the saved identity
\* cannot be read, no request of it ever ends another instance than the saved one.
THEOREM OthersNotEnded == Spec => NamesakesAreNotEnded
<1>1. TypeOK /\ SafeInv /\ [Next]_vars =>
        [\A id \in theirs :
           (inst[id].status = "Normal" /\ inst'[id].status \in {"Releasing", "Released", "Destroyed"})
              => id = output]_vars
  BY NextKeeps DEF EndsOnlySaved, Ended
<1> QED BY <1>1, Safe, PTL DEF Spec, NamesakesAreNotEnded
=============================================================================
