---------------------------- MODULE RdsInstance ----------------------------
(***************************************************************************)
(* One generation of an Alibaba.RDS.Instance resource: its reconcile and   *)
(* delete handlers (src/src/rds/instance.ts), run one after the other by   *)
(* the engine, against a cloud whose tasks are asynchronous.               *)
(*                                                                         *)
(* A handler is a sequence of SDK calls; it may die between any two of     *)
(* them and is then run again from what the engine had saved.  Otherwise   *)
(* it runs when the inputs changed, or when diff saw a difference in a     *)
(* deployment that an operator made without being asked to.  A mutating    *)
(* call may be answered, refused, or lost: taken with its answer lost,     *)
(* never delivered, or (LateRequests) delivered after its caller has moved *)
(* on, since interrupting an Effect does not cancel an SDK promise.        *)
(*                                                                         *)
(* Abstractions.  A wait is the single observation that ends it, which     *)
(* ObserveLoop is shown to implement.  A lookup (list, then the detail of  *)
(* the match) is one step.  Configuration and SSL settings are one value,  *)
(* ownership tags one flag, and a wanted specification is always complete. *)
(* The cloud's own rules are external: how a client token, a status or a   *)
(* protection flag makes it answer follows the repository's protocol       *)
(* simulator (src/src/protocol/world.ts).                                  *)
(***************************************************************************)
EXTENDS Naturals, FiniteSets

CONSTANTS
    Id,             \* physical identities the cloud can still hand out
    NoId,           \* undefined
    Wanted,         \* desired inputs: [spec, prot, ips, settings]
    NoWanted,       \* olds = undefined
    Setup,          \* the circumstances considered, see the variable setup
    DeleteAttempts, \* options.deleteRequestWait.attempts
    MaxUpsets       \* bound on crashes, lost calls, edits, console changes

ASSUME NoIdAssumption == NoId \notin Id
ASSUME NoWantedAssumption == NoWanted \notin Wanted
ASSUME WantedAssumption == \A w \in Wanted : w.prot \in BOOLEAN
ASSUME BoundsAssumption ==
    /\ DeleteAttempts \in Nat \ {0}
    /\ MaxUpsets \in Nat
ASSUME SetupAssumption ==
    Setup \subseteq [restore : BOOLEAN, late : BOOLEAN, releases : BOOLEAN,
                     namesakes : Nat]

VARIABLES
    setup,      \* the circumstances of the run, chosen once
    inst,       \* the cloud: what every identity stands for
    listed,     \* identities the inventory API already shows
    late,       \* requests still under way after their caller moved on
    theirs,     \* identities bought by somebody else
    touched,    \* history: our instance changed behind the handler's back,
                \* by hand or by a late request, since reconcile began
    intent,     \* "present" or "absent": what the stack asks for
    news,       \* the desired inputs of the stack
    output,     \* saved by the engine: the physical identity, or NoId
    olds,       \* saved by the engine: the inputs last reconciled
    begun,      \* saved by the engine: a reconcile has not come to its end
    pc,         \* the step of the running handler, "idle" or "gone"
    cur,        \* instanceId in the handler
    seen,       \* the handler's latest copy of the instance
    left,       \* delete observations left
    upsets      \* disturbances so far

cloud == <<inst, listed, late, theirs, touched>>
engine == <<intent, news, output, olds, begun>>
handler == <<pc, cur, seen, left>>
moving == <<cloud, engine, handler, upsets>>
vars == <<setup, moving>>

Restore == setup.restore        \* the resource is cloned (news.restoreFrom)
LateRequests == setup.late      \* a request may land after its caller moved on
Releases == setup.releases      \* an operator may release our instance by hand
Namesakes == setup.namesakes    \* bound on instances of others with our name

SpecValue == { w.spec : w \in Wanted }

\* What the cloud knows of one identity.  "next" is the specification a
\* running change will install, "tagged" says whether the instance carries
\* the tags of this resource, "token" is the client token of its purchase
\* (0: none).
Instance == [status : {"unborn", "Creating", "Running", "Modifying",
                       "Deleting", "released"},
             spec : SpecValue, next : SpecValue, prot : BOOLEAN,
             ips : { w.ips : w \in Wanted },
             settings : { w.settings : w \in Wanted },
             named : BOOLEAN, tagged : BOOLEAN, token : Nat]

Live(id) == inst[id].status \notin {"unborn", "released"}

ready(i) == i.status = "Running"
deleting(i) == i.status = "Deleting"
creating(i) == i.status = "Creating"
specMatches(i, w) == i.spec = w.spec

\* What the handler keeps of an observation.
Copy(i) == [spec |-> i.spec, prot |-> i.prot, named |-> i.named]
NoCopy == [spec |-> CHOOSE s \in SpecValue : TRUE, prot |-> FALSE, named |-> TRUE]

\* Faulty: a new token after every disturbance.
freshToken == 1 + upsets

\* clientToken: create-<generation>, the same for every attempt.
createToken == 1

Reconciling == {"observe", "owner", "create", "recover", "recoverOwner",
                "created", "ready", "describe", "protect", "protectWait",
                "resize", "resizeWait", "ips", "settings", "settingsWait",
                "tags", "final", "returned"}
Deleting == {"deleteRead", "deleteRequest", "deleteWait"}

Request == [op : {"Create", "Describe", "Protect", "Unprotect", "Resize",
                  "ModifySecurityIps", "ModifySettings", "Tag", "Delete"},
            id : Id \cup {NoId}, want : Wanted]

Ask(op, id) == [op |-> op, id |-> id, want |-> news]

Blank(w) == [status |-> "unborn", spec |-> w.spec, next |-> w.spec,
             prot |-> FALSE, ips |-> w.ips, settings |-> w.settings,
             named |-> TRUE, tagged |-> FALSE, token |-> 0]

Init ==
    /\ setup \in Setup
    /\ news \in Wanted
    /\ inst = [id \in Id |-> Blank(news)]
    /\ listed = {} /\ late = {} /\ theirs = {} /\ touched = FALSE
    /\ intent = "present" /\ output = NoId /\ olds = NoWanted /\ begun = FALSE
    /\ pc = "idle" /\ cur = NoId /\ seen = NoCopy /\ left = 0
    /\ upsets = 0

-----------------------------------------------------------------------------
(* The cloud (external). *)

\* A client token names at most one existing purchase.
Bought(token) == { id \in Id : Live(id) /\ inst[id].token = token }

Unborn == { id \in Id : inst[id].status = "unborn" }

\* The identity of the next purchase; which one it is tells nothing apart.
Fresh == IF Unborn = {} THEN {} ELSE { CHOOSE id \in Unborn : TRUE }

\* CreateDBInstance tags its purchase, CloneDBInstance cannot.  A clone starts
\* with some whitelist of its own, and every purchase with some settings:
\* neither is part of the request.
Purchase(w, id) ==
    \E v \in Wanted, u \in Wanted :
       /\ ~Restore => v.ips = w.ips
       /\ inst' = [inst EXCEPT ![id] =
                     [Blank(w) EXCEPT !.status = "Creating", !.ips = v.ips,
                                      !.settings = u.settings,
                                      !.tagged = ~Restore,
                                      !.token = createToken]]

\* Whether the cloud takes a request now.
Accepts(r) ==
    IF r.op = "Create" THEN TRUE
    ELSE IF r.op \in {"Describe", "Tag"} THEN Live(r.id)
    ELSE /\ ready(inst[r.id])
         /\ r.op = "Delete" => ~inst[r.id].prot

\* The instance a request leaves behind when taken.
Changed(r, i) ==
    CASE r.op = "Describe"          -> [i EXCEPT !.named = TRUE]
      [] r.op = "Tag"               -> [i EXCEPT !.tagged = TRUE]
      [] r.op = "Protect"           -> [i EXCEPT !.prot = r.want.prot]
      [] r.op = "Unprotect"         -> [i EXCEPT !.prot = FALSE]
      [] r.op = "Resize"            -> [i EXCEPT !.status = "Modifying",
                                                 !.next = r.want.spec]
      [] r.op = "ModifySecurityIps" -> [i EXCEPT !.ips = r.want.ips]
      [] r.op = "ModifySettings"    -> [i EXCEPT !.settings = r.want.settings]
      [] r.op = "Delete"            -> [i EXCEPT !.status = "Deleting"]

\* The cloud takes a request; a repeated purchase changes nothing.
Take(r) ==
    /\ Accepts(r)
    /\ IF r.op # "Create"
         THEN inst' = [inst EXCEPT ![r.id] = Changed(r, @)]
         ELSE IF Bought(createToken) # {}
         THEN UNCHANGED inst
         ELSE \E id \in Fresh : Purchase(r.want, id)

\* The asynchronous task of an instance ends.
TaskEnds(id) ==
    /\ inst[id].status \in {"Creating", "Modifying", "Deleting"}
    /\ inst' = [inst EXCEPT
                  ![id].status = IF deleting(inst[id]) THEN "released"
                                                      ELSE "Running",
                  ![id].spec = inst[id].next]
    /\ UNCHANGED <<listed, late, theirs, touched, engine, handler, upsets>>

\* The inventory catches up with a purchase.
InventoryCatchesUp(id) ==
    /\ Live(id) /\ id \notin listed
    /\ listed' = listed \cup {id}
    /\ UNCHANGED <<inst, late, theirs, touched, engine, handler, upsets>>

\* A request whose caller has moved on lands, or is dropped.
LateLands(r) ==
    /\ late' = late \ {r}
    /\ IF Accepts(r) THEN Take(r) /\ touched' = TRUE ELSE UNCHANGED <<inst, touched>>
    /\ UNCHANGED <<listed, theirs, engine, handler, upsets>>

Upset == upsets < MaxUpsets /\ upsets' = upsets + 1

\* Somebody else buys an instance under the same name.
NamesakeAppears(id) ==
    /\ Cardinality(theirs) < Namesakes
    /\ id \in Fresh
    /\ inst' = [inst EXCEPT ![id].status = "Running"]
    /\ theirs' = theirs \cup {id}
    /\ listed' = listed \cup {id}
    /\ UNCHANGED <<late, touched, engine, handler, upsets>>

\* An operator renames, protects or releases our instance in the console.
ConsoleChange(id) ==
    /\ Upset
    /\ id \notin theirs /\ ready(inst[id])
    /\ \/ inst' = [inst EXCEPT ![id].named = FALSE]
       \/ inst' = [inst EXCEPT ![id].prot = ~@]
       \/ Releases /\ ~inst[id].prot /\ inst' = [inst EXCEPT ![id].status = "Deleting"]
    /\ touched' = TRUE
    /\ UNCHANGED <<listed, late, theirs, engine, handler>>

-----------------------------------------------------------------------------
(* The engine (external): it runs one handler at a time. *)

Idle == pc' = "idle" /\ cur' = NoId /\ seen' = NoCopy /\ left' = 0
Goto(step) == pc' = step /\ UNCHANGED <<cur, seen, left>>

Start ==
    /\ pc = "idle" /\ intent = "present"
    /\ Goto("observe")
    /\ touched' = FALSE /\ begun' = TRUE
    /\ UNCHANGED <<inst, listed, late, theirs, intent, news, output, olds, upsets>>

\* A deployment reconciles what was never reconciled, what an earlier run did
\* not finish, and inputs that changed.
Due == begun \/ olds # news
StartReconcile == Due /\ Start

\* diff: an instance that can be read differs in its specification or its
\* configuration.  The whitelist, the protection, the name, SSL and the tags
\* are not looked at, and an instance that is gone makes no difference.
Differs ==
    /\ output # NoId /\ Live(output)
    /\ \/ ~specMatches(inst[output], news)
       \/ inst[output].settings # news.settings

\* A deployment of the same inputs, which nobody has to make.
Redeploy == ~Due /\ Differs /\ Start

StartDelete ==
    /\ pc = "idle" /\ intent = "absent"
    /\ pc' = "deleteRead" /\ cur' = output /\ left' = DeleteAttempts
    /\ UNCHANGED <<seen, cloud, engine, upsets>>

\* reconcile returned: its attributes and inputs become the saved state.
SaveState ==
    /\ pc = "returned"
    /\ output' = cur /\ olds' = news /\ begun' = FALSE
    /\ Idle
    /\ UNCHANGED <<cloud, intent, news, upsets>>

\* The handler dies, or fails on a read: nothing of it is saved.
Crash ==
    /\ pc \notin {"idle", "gone"}
    /\ Upset
    /\ Idle
    /\ UNCHANGED <<cloud, engine>>

EditStack ==
    /\ pc = "idle" /\ intent = "present"
    /\ Upset
    /\ news' \in Wanted \ {news}
    /\ UNCHANGED <<cloud, intent, output, olds, begun, handler>>

DestroyStack ==
    /\ pc = "idle" /\ intent = "present" /\ output # NoId
    /\ intent' = "absent"
    /\ UNCHANGED <<cloud, news, output, olds, begun, handler, upsets>>

-----------------------------------------------------------------------------
(* Calls and waits of the handlers. *)

\* The answer of a request never reaches its caller.
AnswerLost(r) ==
    /\ Upset
    /\ \/ Take(r) /\ UNCHANGED late
       \/ UNCHANGED <<inst, late>>
       \/ LateRequests /\ late' = late \cup {r} /\ UNCHANGED inst

\* sdkCall: a refusal or a lost answer fails the handler.
Call(op, then) ==
    LET r == Ask(op, cur) IN
    /\ \/ Take(r) /\ Goto(then) /\ UNCHANGED <<late, upsets>>
       \/ ~Accepts(r) /\ Idle /\ UNCHANGED <<inst, late, upsets>>
       \/ AnswerLost(r) /\ Idle
    /\ UNCHANGED <<listed, theirs, touched, engine>>

\* retryingSdkCall: after a lost answer the same request may be sent again.
RetryingCall(op, then) ==
    \/ Call(op, then)
    \/ /\ AnswerLost(Ask(op, cur))
       /\ UNCHANGED <<listed, theirs, touched, engine, handler>>

Skip(then) == Goto(then) /\ UNCHANGED <<cloud, engine, upsets>>

\* waitForPresent on the instance itself, up to the observation that ends it.
WaitForPresent(condition, then) ==
    /\ \/ /\ Live(cur) /\ condition
          /\ seen' = Copy(inst[cur])
          /\ pc' = then
          /\ UNCHANGED <<cur, left>>
       \/ ~(Live(cur) /\ condition) /\ Idle
    /\ UNCHANGED <<cloud, engine, upsets>>

-----------------------------------------------------------------------------
(* reconcile *)

\* Name searches are discovery; the inventory omits a deleting instance.
ByName == { id \in listed : Live(id) /\ ~deleting(inst[id]) /\ inst[id].named }

Found(id, then) ==
    /\ cur' = id /\ pc' = then
    /\ UNCHANGED <<seen, left, cloud, engine, upsets>>

Refuse == Idle /\ UNCHANGED <<cloud, engine, upsets>>

\* Faulty: a saved instance that is gone is an error, not a reason to create.
ObserveStrictly ==
    /\ pc = "observe"
    /\ \/ output # NoId /\ Live(output)  /\ Found(output, "ready")
       \/ output # NoId /\ ~Live(output) /\ Refuse
       \/ output = NoId /\ ByName = {}   /\ Skip("create")
       \/ output = NoId /\ \E id \in Id : ByName = {id} /\ Found(id, "owner")
       \/ output = NoId /\ Cardinality(ByName) > 1 /\ Refuse

\* A saved identity is authoritative; without one the name is looked up.
Observe ==
    /\ pc = "observe"
    /\ \/ output # NoId /\ Live(output)  /\ Found(output, "ready")
       \/ output # NoId /\ ~Live(output) /\ Skip("create")
       \/ output = NoId /\ ByName = {}   /\ Skip("create")
       \/ output = NoId /\ \E id \in Id : ByName = {id} /\ Found(id, "owner")
       \/ output = NoId /\ Cardinality(ByName) > 1 /\ Refuse

\* Faulty: a name proves ownership.
TrustName(step, then) ==
    /\ pc = step
    /\ \/ Live(cur) /\ Skip(then)
       \/ ~Live(cur) /\ Refuse

\* requireRecoveryOwnership: a name never proves ownership, tags do.
RequireOwnership(step, then) ==
    /\ pc = step
    /\ \/ Live(cur) /\ inst[cur].tagged /\ Skip(then)
       \/ ~(Live(cur) /\ inst[cur].tagged) /\ Refuse

Owner == RequireOwnership("owner", "ready")

\* CreateDBInstance or CloneDBInstance, tokenized; an ambiguous failure of
\* the former is recovered by name, one of the latter fails.  A clone whose
\* source is missing or unsuitable is refused before any request.
Create ==
    LET r == Ask("Create", NoId) IN
    /\ pc = "create"
    /\ \/ Restore /\ Idle /\ UNCHANGED <<inst, late, upsets>>
       \/ /\ Take(r)
          /\ \E id \in Id : /\ inst'[id].token = createToken
                            /\ inst'[id].status \notin {"unborn", "released"}
                            /\ cur' = id
          /\ pc' = "created"
          /\ UNCHANGED <<seen, left, late, upsets>>
       \/ AnswerLost(r) /\ IF Restore THEN Idle ELSE Goto("recover")
       \/ AnswerLost(r) /\ UNCHANGED handler
    /\ UNCHANGED <<listed, theirs, touched, engine>>

\* Bounded observation by name; when nothing appears the error is reported.
Recover ==
    /\ pc = "recover"
    /\ \/ \E id \in Id : ByName = {id} /\ Found(id, "recoverOwner")
       \/ Cardinality(ByName) # 1 /\ Refuse

RecoverOwner == RequireOwnership("recoverOwner", "created")

Created == pc = "created" /\ WaitForPresent(ready(inst[cur]), "ready")

WaitReady == pc = "ready" /\ WaitForPresent(ready(inst[cur]), "describe")

ModifyDescription ==
    /\ pc = "describe"
    /\ IF seen.named THEN Skip("protect") ELSE Call("Describe", "protect")

ModifyProtection ==
    /\ pc = "protect"
    /\ IF seen.prot = news.prot THEN Skip("resize")
                                ELSE Call("Protect", "protectWait")

ProtectionWait ==
    /\ pc = "protectWait"
    /\ WaitForPresent(ready(inst[cur]) /\ inst[cur].prot = news.prot, "resize")

\* Faulty: the specification is ordered whatever was observed.
ModifySpecAlways == pc = "resize" /\ Call("Resize", "resizeWait")

\* Observed convergence must prevent a second resize.
ModifySpec ==
    /\ pc = "resize"
    /\ IF specMatches(seen, news) THEN Skip("ips")
                                  ELSE Call("Resize", "resizeWait")

ResizeWait ==
    /\ pc = "resizeWait"
    /\ WaitForPresent(ready(inst[cur]) /\ specMatches(inst[cur], news), "ips")

\* The default whitelist is written when the saved inputs differ from the
\* wanted ones, or for a clone that has no saved inputs.
WhitelistChanged ==
    \/ Restore /\ olds = NoWanted
    \/ olds # NoWanted /\ olds.ips # news.ips

SyncSecurityIps ==
    /\ pc = "ips"
    /\ IF WhitelistChanged THEN RetryingCall("ModifySecurityIps", "settings")
                           ELSE Skip("settings")

\* configuration.sync and ModifyDBInstanceSSL: observe, write, wait.
SyncSettings ==
    /\ pc = "settings"
    /\ \/ Live(cur) /\ inst[cur].settings = news.settings /\ Skip("tags")
       \/ /\ Live(cur) /\ inst[cur].settings # news.settings
          /\ RetryingCall("ModifySettings", "settingsWait")
       \/ ~Live(cur) /\ Refuse

SettingsWait ==
    /\ pc = "settingsWait"
    /\ WaitForPresent(inst[cur].settings = news.settings, "tags")

\* syncTags and the wait that follows it.
SyncTags ==
    /\ pc = "tags"
    /\ \/ Live(cur) /\ inst[cur].tagged /\ Skip("final")
       \/ Live(cur) /\ ~inst[cur].tagged /\ RetryingCall("Tag", "tags")
       \/ ~Live(cur) /\ Refuse

\* The last observation before the attributes are returned.
Final ==
    /\ pc = "final"
    /\ WaitForPresent(/\ ready(inst[cur])
                      /\ specMatches(inst[cur], news)
                      /\ inst[cur].prot = news.prot, "returned")

Reconcile ==
    \/ Observe \/ Owner \/ Create \/ Recover \/ RecoverOwner \/ Created
    \/ WaitReady \/ ModifyDescription \/ ModifyProtection \/ ProtectionWait
    \/ ModifySpec \/ ResizeWait \/ SyncSecurityIps \/ SyncSettings
    \/ SettingsWait \/ SyncTags \/ Final

-----------------------------------------------------------------------------
(* delete *)

\* A decision that leaves the deletion pending costs one observation; on the
\* last one the handler fails with the last error or a timeout.
Again ==
    IF left > 1 THEN pc' = "deleteRead" /\ left' = left - 1 /\ UNCHANGED <<cur, seen>>
                ELSE Idle

DeleteRead ==
    /\ pc = "deleteRead"
    /\ \/ ~Live(cur) /\ Goto("deleteWait")                     \* Absent
       \/ Live(cur) /\ deleting(inst[cur]) /\ Goto("deleteWait") \* Deleting
       \/ Live(cur) /\ creating(inst[cur]) /\ Again             \* Creating
       \/ /\ Live(cur) /\ ~deleting(inst[cur]) /\ ~creating(inst[cur])
          /\ seen' = Copy(inst[cur])
          /\ pc' = "deleteRequest"
          /\ UNCHANGED <<cur, left>>
    /\ UNCHANGED <<cloud, engine, upsets>>

\* The request follows the copy the read returned: a protected instance is
\* unprotected first.  A missing instance counts as absent, a state conflict
\* or a lost answer is retried, any other refusal is fatal.
DeleteRequest ==
    LET r == Ask(IF seen.prot THEN "Unprotect" ELSE "Delete", cur) IN
    /\ pc = "deleteRequest"
    /\ \/ /\ Take(r)
          /\ IF r.op = "Delete" THEN Goto("deleteWait") ELSE Again
          /\ UNCHANGED <<late, upsets>>
       \/ ~Live(cur) /\ Goto("deleteWait") /\ UNCHANGED <<inst, late, upsets>>
       \/ /\ Live(cur) /\ ~ready(inst[cur])
          /\ Again /\ UNCHANGED <<inst, late, upsets>>
       \/ /\ ready(inst[cur]) /\ ~Accepts(r)
          /\ Idle /\ UNCHANGED <<inst, late, upsets>>
       \/ AnswerLost(r) /\ (Again \/ UNCHANGED handler)
    /\ UNCHANGED <<listed, theirs, touched, engine>>

\* Faulty: an accepted request counts as a release.
DeleteWaitForNothing ==
    /\ pc = "deleteWait"
    /\ Goto("gone")
    /\ UNCHANGED <<cloud, engine, upsets>>

DeleteWait ==
    /\ pc = "deleteWait"
    /\ IF Live(cur) THEN Idle ELSE Goto("gone")
    /\ UNCHANGED <<cloud, engine, upsets>>

Delete == DeleteRead \/ DeleteRequest \/ DeleteWait

-----------------------------------------------------------------------------
CloudStep ==
    \/ \E id \in Id : TaskEnds(id) \/ InventoryCatchesUp(id)
    \/ \E r \in late : LateLands(r)

Disturbance ==
    \/ \E id \in Id : NamesakeAppears(id) \/ ConsoleChange(id)
    \/ Crash \/ EditStack \/ Redeploy \/ DestroyStack

EngineStep == StartReconcile \/ StartDelete \/ SaveState

Step == CloudStep \/ Disturbance \/ EngineStep \/ Reconcile \/ Delete

Next == Step /\ UNCHANGED setup

Spec == Init /\ [][Next]_vars

\* A handler step is taken whenever one is possible; a deployment is made after
\* an edit and repeated after a failure; the tasks, the inventory and the
\* requests under way all make progress.  Disturbances are never forced, nor is
\* a deployment that nobody has a reason to make.
FairSpec ==
    /\ Spec
    /\ WF_moving(EngineStep \/ Reconcile \/ Delete)
    /\ \A id \in Id : WF_moving(TaskEnds(id)) /\ WF_moving(InventoryCatchesUp(id))
    /\ WF_moving(\E r \in late : LateLands(r))

-----------------------------------------------------------------------------
TypeOK ==
    /\ setup \in Setup
    /\ inst \in [Id -> Instance]
    /\ listed \in SUBSET Id
    /\ late \in SUBSET Request
    /\ theirs \in SUBSET Id
    /\ touched \in BOOLEAN /\ begun \in BOOLEAN
    /\ intent \in {"present", "absent"}
    /\ news \in Wanted
    /\ output \in Id \cup {NoId}
    /\ olds \in Wanted \cup {NoWanted}
    /\ pc \in {"idle", "gone"} \cup Reconciling \cup Deleting
    /\ cur \in Id \cup {NoId}
    /\ seen \in [spec : SpecValue, prot : BOOLEAN, named : BOOLEAN]
    /\ left \in 0..DeleteAttempts
    /\ upsets \in 0..MaxUpsets

Ours == { id \in Id : Live(id) /\ inst[id].token # 0 }

\* However often the create is lost, repeated or interrupted, one resource
\* never pays for two instances at once.
OneLivePurchase == Cardinality(Ours) <= 1

\* An instance of somebody else that bears our name is never modified,
\* adopted into a change or deleted, whatever failed before.
NamesakesUntouched == [][\A id \in theirs : inst'[id] = inst[id]]_vars

\* Convergence that was observed prevents a second paid resize: no change of
\* specification is ordered for an instance that already has it, even when
\* the handler that ordered it died before saving anything.  (A request that
\* lands late was decided long before.)
NoRepeatedResize ==
    [][~LateRequests =>
       \A id \in Id :
          (ready(inst[id]) /\ inst'[id].status = "Modifying")
             => inst'[id].next # inst[id].spec]_vars

\* A finished destroy released the instance it was asked to delete, and leaves
\* no other of ours behind, provided the saved one was not released by hand
\* (reconcile then buys a replacement that a crash leaves unsaved, and delete
\* does not look for it) and no purchase lands after the destroy.
DestroyLeavesNothing ==
    pc = "gone" =>
       /\ inst[output].status = "released"
       /\ (~Releases /\ ~LateRequests) => Ours = {}

Desired(i) ==
    /\ ready(i) /\ specMatches(i, news) /\ i.prot = news.prot
    /\ i.settings = news.settings /\ i.tagged

\* A stack that stays wanted ends with a reconcile that succeeds, and with the
\* saved instance as desired unless somebody changed it after that reconcile
\* began: no deployment is due for what happens to an instance later.  A clone
\* bought just before a crash carries no tags to be recovered by, and a
\* namesake makes the lookup ambiguous: both need an operator.
Converges ==
    <>[]((intent = "present" /\ ~Restore /\ theirs = {})
            => /\ ~Due /\ output # NoId
               /\ touched \/ Desired(inst[output]))

\* A destroy completes, although deletions are refused while the instance is
\* being created, changed or protected.
Goes == intent = "absent" ~> pc = "gone"

\* Once the disturbances are over every deployment converges and every destroy
\* completes, wherever the handler before it stopped.
EventuallySettled == Converges /\ Goes
=============================================================================
