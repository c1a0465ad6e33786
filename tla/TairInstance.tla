---------------------------- MODULE TairInstance ----------------------------
(***************************************************************************)
(* One generation of an Alibaba.Tair.Instance resource: its reconcile and  *)
(* delete handlers (src/src/tair/instance.ts).                             *)
(*                                                                         *)
(* What sets Tair apart from RDS: an instance is seen through three APIs   *)
(* that may contradict each other (detail, inventory, overview); a deleted *)
(* instance stays in a recycle bin until it is destroyed; every change is  *)
(* sent again while the instance is not ready for it; a change of size     *)
(* carries a client token of its own; a saved identity that cannot be read *)
(* is looked up by name; and diff never looks at the instance.             *)
(*                                                                         *)
(* Abstractions, as in RdsInstance: a wait is the observation that ends    *)
(* it, a call that is lost may have been taken or may land late; SSL and   *)
(* eviction policy are one value, written at once and before the           *)
(* authentication mode; tags are one flag.  Two waits in a row for the     *)
(* same thing are one.  The default account's password, which no API       *)
(* shows, is left out, its reset is not.                                   *)
(* The cloud is external (src/src/protocol/world.ts).                      *)
(***************************************************************************)
EXTENDS Naturals, FiniteSets

CONSTANTS
    Id, NoId,       \* physical identities, and undefined
    Wanted,         \* desired inputs: [spec, prot, auth, settings]
    NoWanted,       \* olds = undefined
    Setup           \* the circumstances considered, see the variable setup

ASSUME IdAssumption == IsFiniteSet(Id)
ASSUME NoIdAssumption == NoId \notin Id
ASSUME NoWantedAssumption == NoWanted \notin Wanted
ASSUME WantedAssumption == \A w \in Wanted : w.prot \in BOOLEAN
ASSUME SetupAssumption ==
    Setup \subseteq [late : BOOLEAN, releases : BOOLEAN, lapses : BOOLEAN,
                     namesakes : Nat, upsets : Nat]

VARIABLES
    setup,      \* the circumstances of the run, chosen once
    inst,       \* the cloud: what every identity stands for
    listed,     \* identities the inventory (DescribeInstances) already shows
    dark,       \* identities that detail and inventory omit for a while
    late,       \* requests still under way after their caller moved on
    theirs,     \* identities bought by somebody else
    touched,    \* history: our instance changed behind the handler's back,
                \* by hand or by a late request, since reconcile began
    intent,     \* "present" or "absent": what the stack asks for
    news,       \* the desired inputs of the stack
    output,     \* saved by the engine: the physical identity, or NoId
    olds,       \* saved by the engine: the inputs last reconciled
    begun,      \* saved by the engine: a reconcile has not come to its end
    pc,         \* the step of the running handler, "idle" or "gone"
    cur,        \* instanceId in the handler
    seen,       \* the handler's latest copy of the instance
    token,      \* clientToken of the change of size under way
    stage,      \* which observation of delete is under way
    row,        \* what its overview showed: an instance or not
    upsets      \* disturbances so far

cloud == <<inst, listed, dark, late, theirs, touched>>
engine == <<intent, news, output, olds, begun>>
handler == <<pc, cur, seen, token, stage, row>>
moving == <<cloud, engine, handler, upsets>>
vars == <<setup, moving>>

LateRequests == setup.late  \* a request may land after its caller moved on
Releases == setup.releases  \* an operator may release our instance by hand
Lapses == setup.lapses      \* the read APIs may contradict each other
Namesakes == setup.namesakes
MaxUpsets == setup.upsets   \* bound on crashes, lost calls, lapses, edits and
                            \* console changes

SpecValue == { w.spec : w \in Wanted }
AuthValue == { w.auth : w \in Wanted }
Token == SpecValue \X Nat
NoToken == <<>>

\* "used" holds the client tokens of the size changes it has taken.
Instance == [status : {"unborn", "Creating", "Normal", "Changing",
                       "Releasing", "Released", "Destroyed"},
             spec : SpecValue, next : SpecValue, prot : BOOLEAN,
             auth : AuthValue,
             settings : { w.settings : w \in Wanted },
             named : BOOLEAN, tagged : BOOLEAN, bought : BOOLEAN,
             used : SUBSET Token]

\* In the detail and inventory APIs, apart from their lapses; billed.
Live(id) == inst[id].status \in {"Creating", "Normal", "Changing", "Releasing"}

ready(i) == i.status = "Normal"
deleting(i) == i.status = "Releasing"
specMatches(i, w) == i.spec = w.spec

Copy(i) == [spec |-> i.spec, prot |-> i.prot, auth |-> i.auth,
            named |-> i.named, tagged |-> i.tagged]
NoCopy == [spec |-> CHOOSE s \in SpecValue : TRUE, prot |-> FALSE,
           auth |-> CHOOSE a \in AuthValue : TRUE, named |-> TRUE, tagged |-> TRUE]

Reconciling == {"observe", "create", "recover", "created", "password",
                "passwordWait", "modify", "normal", "spec", "resize",
                "resizeWait", "settings", "settingsWait", "auth", "authWait", "tags",
                "final", "returned"}
Deleting == {"overview", "detail", "unprotect", "unprotectRead", "delete",
             "destroy"}
Stage == {"none", "first", "again", "recheck", "release", "last"}

Request == [op : {"Create", "ResetPassword", "Modify", "Resize", "ModifySettings",
                  "ModifyAuth", "Tag", "Unprotect", "Delete", "Destroy"},
            id : Id \cup {NoId}, want : Wanted, token : Token \cup {NoToken}]

Ask(op, id) == [op |-> op, id |-> id, want |-> news, token |-> token]

Blank(w) == [status |-> "unborn", spec |-> w.spec, next |-> w.spec,
             prot |-> FALSE, auth |-> w.auth, settings |-> w.settings,
             named |-> TRUE, tagged |-> FALSE, bought |-> FALSE, used |-> {}]

Init ==
    /\ setup \in Setup
    /\ news \in Wanted
    /\ inst = [id \in Id |-> Blank(news)]
    /\ listed = {} /\ dark = {} /\ late = {} /\ theirs = {}
    /\ touched = FALSE
    /\ intent = "present" /\ output = NoId /\ olds = NoWanted /\ begun = FALSE
    /\ pc = "idle" /\ cur = NoId /\ seen = NoCopy /\ token = NoToken
    /\ stage = "none" /\ row = FALSE
    /\ upsets = 0

-----------------------------------------------------------------------------
(* The cloud (external). *)

Unborn == { id \in Id : inst[id].status = "unborn" }

\* The identity of the next purchase; which one it is tells nothing apart.
Fresh == IF Unborn = {} THEN {} ELSE { CHOOSE id \in Unborn : TRUE }

Bought == { id \in Id : Live(id) /\ inst[id].bought }

\* Faulty: a token for every attempt.
freshToken == FALSE

\* The token create-<generation>, the same for every attempt, names a purchase.
createTokenKnown == Bought # {}

\* A purchase is tagged; its other settings are the cloud's defaults.
Purchase(w, id) ==
    \E u \in Wanted :
       inst' = [inst EXCEPT ![id] =
                  [Blank(w) EXCEPT !.status = "Creating", !.tagged = TRUE,
                                   !.auth = u.auth, !.settings = u.settings,
                                   !.bought = TRUE]]

\* Whether the cloud takes a request now.
Accepts(r) ==
    IF r.op = "Create" THEN TRUE
    ELSE IF r.op = "Tag" THEN Live(r.id)
    ELSE IF r.op = "Destroy" THEN inst[r.id].status = "Released"
    ELSE ready(inst[r.id]) /\ (r.op = "Delete" => ~inst[r.id].prot)

\* The instance a request leaves behind when taken: a size change whose token
\* was used before is answered with the earlier one.
Changed(r, i) ==
    CASE r.op = "ResetPassword"  -> i
      [] r.op = "Modify"         -> [i EXCEPT !.named = TRUE, !.prot = r.want.prot]
      [] r.op = "Unprotect"      -> [i EXCEPT !.prot = FALSE]
      [] r.op = "Resize"         -> IF r.token \in i.used THEN i
                                    ELSE [i EXCEPT !.status = "Changing",
                                                   !.next = r.want.spec,
                                                   !.used = @ \cup {r.token}]
      [] r.op = "ModifySettings" -> [i EXCEPT !.settings = r.want.settings,
                                              !.status = "Changing"]
      [] r.op = "ModifyAuth"     -> [i EXCEPT !.auth = r.want.auth,
                                              !.status = "Changing"]
      [] r.op = "Tag"            -> [i EXCEPT !.tagged = TRUE]
      [] r.op = "Delete"         -> [i EXCEPT !.status = "Releasing"]
      [] r.op = "Destroy"        -> [i EXCEPT !.status = "Destroyed"]

Take(r) ==
    /\ Accepts(r)
    /\ IF r.op # "Create"
         THEN inst' = [inst EXCEPT ![r.id] = Changed(r, @)]
         ELSE IF createTokenKnown
         THEN UNCHANGED inst
         ELSE \E id \in Fresh : Purchase(r.want, id)

\* The asynchronous task of an instance ends.
TaskEnds(id) ==
    /\ inst[id].status \in {"Creating", "Changing", "Releasing"}
    /\ inst' = [inst EXCEPT
                  ![id].status = IF deleting(inst[id]) THEN "Released"
                                                      ELSE "Normal",
                  ![id].spec = inst[id].next]
    /\ UNCHANGED <<listed, dark, late, theirs, touched, engine, handler, upsets>>

InventoryCatchesUp(id) ==
    /\ Live(id) /\ id \notin listed
    /\ listed' = listed \cup {id}
    /\ UNCHANGED <<inst, dark, late, theirs, touched, engine, handler, upsets>>

\* A request whose caller has moved on lands, or is dropped.
LateLands(r) ==
    /\ late' = late \ {r}
    /\ IF Accepts(r) THEN Take(r) /\ touched' = TRUE ELSE UNCHANGED <<inst, touched>>
    /\ UNCHANGED <<listed, dark, theirs, engine, handler, upsets>>

Upset == upsets < MaxUpsets /\ upsets' = upsets + 1

\* The detail APIs omit an instance that exists, and show it again.
GoesDark(id) ==
    /\ Lapses /\ Upset /\ Live(id) /\ id \notin dark
    /\ dark' = dark \cup {id}
    /\ UNCHANGED <<inst, listed, late, theirs, touched, engine, handler>>

Reappears(id) ==
    /\ id \in dark
    /\ dark' = dark \ {id}
    /\ UNCHANGED <<inst, listed, late, theirs, touched, engine, handler, upsets>>

\* Somebody else buys an instance under the same name.
NamesakeAppears(id) ==
    /\ Cardinality(theirs) < Namesakes
    /\ id \in Fresh
    /\ inst' = [inst EXCEPT ![id].status = "Normal"]
    /\ theirs' = theirs \cup {id}
    /\ listed' = listed \cup {id}
    /\ UNCHANGED <<dark, late, touched, engine, handler, upsets>>

\* An operator renames, protects, resizes or releases our instance.
ConsoleChange(id) ==
    /\ Upset
    /\ id \notin theirs /\ ready(inst[id])
    /\ \/ inst' = [inst EXCEPT ![id].named = FALSE]
       \/ inst' = [inst EXCEPT ![id].prot = ~@]
       \/ \E s \in SpecValue : inst' = [inst EXCEPT ![id].spec = s, ![id].next = s]
       \/ Releases /\ ~inst[id].prot /\ inst' = [inst EXCEPT ![id].status = "Releasing"]
    /\ touched' = TRUE
    /\ UNCHANGED <<listed, dark, late, theirs, engine, handler>>

-----------------------------------------------------------------------------
(* The engine (external): it runs one handler at a time. *)

Idle == /\ pc' = "idle" /\ cur' = NoId /\ seen' = NoCopy /\ token' = NoToken
        /\ stage' = "none" /\ row' = FALSE
Goto(step) == pc' = step /\ UNCHANGED <<cur, seen, token, stage, row>>

\* A deployment reconciles what was never reconciled, what an earlier run did
\* not finish, and inputs that changed; diff does not look at the instance.
Due == begun \/ olds # news

StartReconcile ==
    /\ pc = "idle" /\ intent = "present" /\ Due
    /\ Goto("observe")
    /\ touched' = FALSE /\ begun' = TRUE
    /\ UNCHANGED <<inst, listed, dark, late, theirs, intent, news, output, olds, upsets>>

StartDelete ==
    /\ pc = "idle" /\ intent = "absent"
    /\ pc' = "overview" /\ stage' = "first"
    /\ UNCHANGED <<cur, seen, token, row, cloud, engine, upsets>>

SaveState ==
    /\ pc = "returned"
    /\ output' = cur /\ olds' = news /\ begun' = FALSE
    /\ Idle
    /\ UNCHANGED <<cloud, intent, news, upsets>>

\* The handler dies, or fails on a read: nothing of it is saved.
Crash ==
    /\ pc \notin {"idle", "gone"}
    /\ Upset
    /\ Idle
    /\ UNCHANGED <<cloud, engine>>

EditStack ==
    /\ pc = "idle" /\ intent = "present"
    /\ Upset
    /\ news' \in Wanted \ {news}
    /\ UNCHANGED <<cloud, intent, output, olds, begun, handler>>

DestroyStack ==
    /\ pc = "idle" /\ intent = "present" /\ output # NoId
    /\ intent' = "absent"
    /\ UNCHANGED <<cloud, news, output, olds, begun, handler, upsets>>

-----------------------------------------------------------------------------
(* Calls and waits of the handlers. *)

\* The answer of a request never reaches its caller.
AnswerLost(r) ==
    /\ Upset
    /\ \/ Take(r) /\ UNCHANGED late
       \/ UNCHANGED <<inst, late>>
       \/ LateRequests /\ late' = late \cup {r} /\ UNCHANGED inst

\* requestMutation and retryingSdkCall: what is refused for the state of the
\* instance, or lost, is sent again until the budget is spent.
Mutation(op, then) ==
    LET r == Ask(op, cur) IN
    /\ \/ Take(r) /\ Goto(then) /\ UNCHANGED <<late, upsets>>
       \/ ~Accepts(r) /\ Idle /\ UNCHANGED <<inst, late, upsets>>
       \/ AnswerLost(r) /\ (Idle \/ UNCHANGED handler)
    /\ UNCHANGED <<listed, dark, theirs, touched, engine>>

Skip(then) == Goto(then) /\ UNCHANGED <<cloud, engine, upsets>>
Refuse == Idle /\ UNCHANGED <<cloud, engine, upsets>>

\* getById returns the instance.
Readable(id) == Live(id) /\ id \notin dark

\* waitForPresent on getById, up to the observation that ends it.
Wait(condition, copy, then) ==
    /\ \/ /\ Readable(cur) /\ condition
          /\ seen' = copy
          /\ pc' = then
          /\ UNCHANGED <<cur, token, stage, row>>
       \/ ~(Readable(cur) /\ condition) /\ Idle
    /\ UNCHANGED <<cloud, engine, upsets>>

-----------------------------------------------------------------------------
(* reconcile *)

\* findByName: the first match, whoever bought it.
ByName == { id \in listed : Readable(id) /\ inst[id].named }

\* observe: the saved identity, and the name when that cannot be read.
Observed(id) == IF id # NoId /\ Readable(id) THEN {id} ELSE ByName

Found(id, then) ==
    /\ cur' = id /\ seen' = Copy(inst[id]) /\ pc' = then
    /\ UNCHANGED <<token, stage, row, cloud, engine, upsets>>

Observe ==
    /\ pc = "observe"
    /\ \/ \E id \in Observed(output) : Found(id, "password")
       \/ Observed(output) = {} /\ Skip("create")

\* CreateInstance carries the token create-<generation>; an ambiguous failure
\* is recovered by name.
Create ==
    LET r == Ask("Create", NoId) IN
    /\ pc = "create"
    /\ \/ /\ Take(r)
          /\ \E id \in Id : /\ inst'[id].bought
                            /\ inst'[id].status \notin {"Released", "Destroyed"}
                            /\ cur' = id
          /\ pc' = "created"
          /\ UNCHANGED <<seen, token, stage, row, late, upsets>>
       \/ AnswerLost(r) /\ (Goto("recover") \/ UNCHANGED handler)
    /\ UNCHANGED <<listed, dark, theirs, touched, engine>>

Recover ==
    /\ pc = "recover"
    /\ \/ \E id \in ByName : Found(id, "created")
       \/ ByName = {} /\ Refuse

\* The wait for a new instance reads like observe; no password is reset.
Created ==
    /\ pc = "created"
    /\ \/ \E id \in Observed(cur) : ready(inst[id]) /\ Found(id, "modify")
       \/ (\A id \in Observed(cur) : ~ready(inst[id])) /\ Refuse

\* Whether the password differs from the saved one is an input.
ResetPassword ==
    /\ pc = "password"
    /\ Skip("modify") \/ Mutation("ResetPassword", "passwordWait")

PasswordWait == pc = "passwordWait" /\ Wait(ready(inst[cur]), seen, "modify")

ModifyAttribute ==
    /\ pc = "modify"
    /\ IF seen.named /\ seen.prot = news.prot THEN Skip("normal")
                                             ELSE Mutation("Modify", "normal")

WaitUntilNormal == pc = "normal" /\ Wait(ready(inst[cur]), Copy(inst[cur]), "spec")

\* Each operation has a fresh nonce; its retries reuse the same token.
Spent == (UNION { inst[id].used : id \in Id }) \cup { r.token : r \in late }

\* Faulty: the token is derived from the size alone.
specOnlyToken(spec) == <<spec, 1>>

specClientToken(spec) ==
    <<spec, CHOOSE n \in 1 .. Cardinality(Spent) + 1 : <<spec, n>> \notin Spent>>

ModifySpec ==
    /\ pc = "spec"
    /\ \/ specMatches(seen, news) /\ Skip("settings")
       \/ /\ ~specMatches(seen, news)
          /\ token' = specClientToken(news.spec)
          /\ pc' = "resize"
          /\ UNCHANGED <<cur, seen, stage, row, cloud, engine, upsets>>

RequestSpec == pc = "resize" /\ Mutation("Resize", "resizeWait")

ResizeWait ==
    /\ pc = "resizeWait"
    /\ Wait(ready(inst[cur]) /\ specMatches(inst[cur], news), seen, "settings")

\* ModifyInstanceSSL and ModifyInstanceConfig: observe, write, wait.
SyncSettings ==
    /\ pc = "settings"
    /\ IF inst[cur].settings = news.settings THEN Skip("settingsWait")
                                             ELSE Mutation("ModifySettings", "settingsWait")

SettingsWait ==
    /\ pc = "settingsWait"
    /\ Wait(ready(inst[cur]) /\ inst[cur].settings = news.settings,
            Copy(inst[cur]), "auth")

\* ModifyInstanceVpcAuthMode: what was read before decides, what follows only
\* waits for the instance to be ready.
SyncAuthMode ==
    /\ pc = "auth"
    /\ IF seen.auth = news.auth THEN Skip("tags") ELSE Mutation("ModifyAuth", "authWait")

AuthModeWait == pc = "authWait" /\ Wait(ready(inst[cur]), seen, "tags")

SyncTags ==
    /\ pc = "tags"
    /\ IF seen.tagged THEN Skip("final") ELSE Mutation("Tag", "final")

\* SSL and the eviction policy are not looked at again.
Final ==
    /\ pc = "final"
    /\ Wait(/\ ready(inst[cur])
            /\ specMatches(inst[cur], news)
            /\ inst[cur].prot = news.prot
            /\ inst[cur].auth = news.auth
            /\ inst[cur].tagged, seen, "returned")

Reconcile ==
    \/ Observe \/ Create \/ Recover \/ Created \/ ResetPassword \/ PasswordWait
    \/ ModifyAttribute \/ WaitUntilNormal \/ ModifySpec \/ RequestSpec
    \/ ResizeWait \/ SyncSettings \/ SettingsWait \/ SyncAuthMode \/ AuthModeWait
    \/ SyncTags \/ Final

-----------------------------------------------------------------------------
(* delete *)

Look(at) == pc' = "overview" /\ stage' = at /\ row' = FALSE /\ UNCHANGED <<cur, seen, token>>
Do(step) == pc' = step /\ stage' = "none" /\ row' = FALSE /\ UNCHANGED <<cur, seen, token>>

\* A TairApiPresence, and where delete goes on from it at each observation.
Presence == {"Absent", "Visible", "Released", "Unprotected", "Protected", "Deleting"}
live(i) == IF deleting(i) THEN "Deleting" ELSE IF i.prot THEN "Protected" ELSE "Unprotected"

Decide(p) ==
    \/ stage = "first" /\ p = "Absent"               /\ Do("gone")
    \/ stage = "first" /\ p = "Protected"            /\ Do("unprotect")
    \/ stage \in {"first", "again"} /\ p = "Unprotected" /\ Do("delete")
    \/ stage = "again" /\ p = "Protected"            /\ Do("delete")
    \/ stage = "first" /\ p = "Deleting"             /\ Look("release")
    \/ stage = "first" /\ p = "Released"             /\ Do("destroy")
    \/ stage = "again" /\ p \in {"Deleting", "Released", "Absent"} /\ Look("release")
    \/ stage = "recheck" /\ p \notin {"Protected", "Unprotected"}  /\ Look("release")
    \/ stage = "recheck" /\ p \in {"Protected", "Unprotected"}     /\ Idle
    \/ stage = "release" /\ p = "Released"           /\ Do("destroy")
    \/ stage = "release" /\ p = "Absent"             /\ Look("last")
    \/ stage = "last" /\ p = "Absent"                /\ Do("gone")
    \* a wait that ends in a timeout, an observation conflict or an unsafe
    \* transition
    \/ stage \in {"first", "again"} /\ p = "Visible" /\ Idle
    \/ stage = "release" /\ p \notin {"Released", "Absent"} /\ Idle
    \/ stage = "last" /\ p # "Absent" /\ Idle

\* observePresence reads the overview of the saved identity first, and then,
\* unless that shows it released, the instance as observe does.
Overview ==
    /\ pc = "overview"
    /\ \/ inst[output].status = "Released" /\ Decide("Released")
       \/ /\ inst[output].status # "Released"
          /\ row' = Live(output)
          /\ pc' = "detail"
          /\ UNCHANGED <<cur, seen, token, stage>>
    /\ UNCHANGED <<cloud, engine, upsets>>

\* Faulty: what detail and inventory omit is absent.
DetailAlone ==
    /\ pc = "detail"
    /\ \/ \E id \in Observed(output) : Decide(live(inst[id]))
       \/ Observed(output) = {} /\ Decide("Absent")
    /\ UNCHANGED <<cloud, engine, upsets>>

Detail ==
    /\ pc = "detail"
    /\ \/ \E id \in Observed(output) : Decide(live(inst[id]))
       \/ Observed(output) = {} /\ Decide(IF row THEN "Visible" ELSE "Absent")
    /\ UNCHANGED <<cloud, engine, upsets>>

\* requestOrContinueDelete: a request that fails is followed by a read.
RequestOrContinue(op, id, taken, failed) ==
    LET r == Ask(op, id) IN
    /\ \/ Take(r) /\ taken /\ UNCHANGED <<late, upsets>>
       \/ ~Accepts(r) /\ failed /\ UNCHANGED <<inst, late, upsets>>
       \/ AnswerLost(r) /\ (failed \/ UNCHANGED handler)
    /\ UNCHANGED <<listed, dark, theirs, touched, engine>>

DisableReleaseProtection ==
    /\ pc = "unprotect"
    /\ RequestOrContinue("Unprotect", output, Look("again"), Do("unprotectRead"))

UnprotectRead ==
    /\ pc = "unprotectRead"
    /\ IF ~Readable(output) \/ deleting(inst[output]) THEN Look("again") ELSE Idle
    /\ UNCHANGED <<cloud, engine, upsets>>

\* Faulty: what was observed is deleted, not what is saved.
DeleteObserved ==
    /\ pc = "delete"
    /\ \E id \in IF Observed(output) = {} THEN {output} ELSE Observed(output) :
         RequestOrContinue("Delete", id, Look("release"), Look("recheck"))

DeleteInstance ==
    /\ pc = "delete"
    /\ RequestOrContinue("Delete", output, Look("release"), Look("recheck"))

DestroyInstance ==
    LET r == Ask("Destroy", output) IN
    /\ pc = "destroy"
    /\ \/ Take(r) /\ Look("last") /\ UNCHANGED <<late, upsets>>
       \/ inst[output].status = "Destroyed" /\ Look("last") /\ UNCHANGED <<inst, late, upsets>>
       \/ AnswerLost(r) /\ (Idle \/ UNCHANGED handler)
    /\ UNCHANGED <<listed, dark, theirs, touched, engine>>

Delete ==
    \/ Overview \/ Detail \/ DisableReleaseProtection \/ UnprotectRead
    \/ DeleteInstance \/ DestroyInstance

-----------------------------------------------------------------------------
CloudStep ==
    \/ \E id \in Id : TaskEnds(id) \/ InventoryCatchesUp(id) \/ Reappears(id)
    \/ \E r \in late : LateLands(r)

Disturbance ==
    \/ \E id \in Id : NamesakeAppears(id) \/ ConsoleChange(id) \/ GoesDark(id)
    \/ Crash \/ EditStack \/ DestroyStack

EngineStep == StartReconcile \/ StartDelete \/ SaveState

Step == CloudStep \/ Disturbance \/ EngineStep \/ Reconcile \/ Delete

Next == Step /\ UNCHANGED setup

Spec == Init /\ [][Next]_vars

\* As in RdsInstance; an instance that went dark is shown again.
FairSpec ==
    /\ Spec
    /\ WF_moving(EngineStep \/ Reconcile \/ Delete)
    /\ \A id \in Id : /\ WF_moving(TaskEnds(id))
                      /\ WF_moving(InventoryCatchesUp(id))
                      /\ WF_moving(Reappears(id))
    /\ WF_moving(\E r \in late : LateLands(r))

-----------------------------------------------------------------------------
TypeOK ==
    /\ setup \in Setup
    /\ inst \in [Id -> Instance]
    /\ listed \in SUBSET Id /\ dark \in SUBSET Id /\ theirs \in SUBSET Id
    /\ late \in SUBSET Request
    /\ intent \in {"present", "absent"}
    /\ news \in Wanted
    /\ output \in Id \cup {NoId}
    /\ olds \in Wanted \cup {NoWanted}
    /\ touched \in BOOLEAN /\ begun \in BOOLEAN
    /\ pc \in {"idle", "gone"} \cup Reconciling \cup Deleting
    /\ cur \in Id \cup {NoId}
    /\ seen \in [spec : SpecValue, prot : BOOLEAN, auth : AuthValue,
                 named : BOOLEAN, tagged : BOOLEAN]
    /\ token \in Token \cup {NoToken}
    /\ stage \in Stage /\ row \in BOOLEAN
    /\ upsets \in 0..MaxUpsets

\* However often the create is lost, repeated or interrupted, and whatever the
\* read APIs hide meanwhile, one resource never pays for two instances at once.
OneLivePurchase == Cardinality(Bought) <= 1

\* A finished destroy has emptied the recycle bin: neither a lapse of the
\* detail APIs nor a release that is under way passes for absence.
DeletedMeansDestroyed == pc = "gone" => inst[output].status = "Destroyed"

\* Whatever bears the name meanwhile, delete ends the saved instance only.
NamesakesAreNotEnded ==
    [][\A id \in theirs :
          (inst[id].status = "Normal" /\ inst'[id].status \in {"Releasing", "Released", "Destroyed"})
             => id = output]_vars

Desired(i) ==
    /\ ready(i) /\ specMatches(i, news) /\ i.prot = news.prot
    /\ i.auth = news.auth /\ i.settings = news.settings /\ i.tagged

\* A stack that stays wanted ends with a reconcile that succeeds, and with the
\* saved instance as desired unless somebody changed it after that reconcile
\* began; a change back to an earlier size is not answered with the earlier
\* change.
Converges ==
    <>[]((intent = "present" /\ theirs = {})
            => /\ ~Due /\ output # NoId
               /\ touched \/ Desired(inst[output]))

\* A destroy completes, through the recycle bin, although deletions are
\* refused while the instance is busy or protected, and its own APIs may
\* contradict each other for a while.  Another instance that bears the name
\* keeps it from completing.
NameIsOurs == \A id \in Id \ {output} : ~(Live(id) /\ inst[id].named)

Goes == <>[](intent = "absent" /\ NameIsOurs) => <>(pc = "gone")

\* Once the disturbances are over every deployment converges and every destroy
\* completes, wherever the handler before it stopped.
EventuallySettled == Converges /\ Goes
=============================================================================
