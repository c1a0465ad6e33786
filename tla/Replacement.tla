---------------------------- MODULE Replacement ----------------------------
(***************************************************************************)
(* Replacing a resource whose immutable settings changed.                  *)
(*                                                                         *)
(* A provider's diff answers "replace"; the engine then starts a new       *)
(* generation of the resource, reconciles it with no saved output, and     *)
(* deletes the outgoing generation by its saved identity.  What decides    *)
(* whether the new generation really is a new physical resource is the     *)
(* name: reconcile looks it up before it creates anything, and what it     *)
(* finds carries the same ownership tags, whichever generation bought it.  *)
(*                                                                         *)
(* The providers differ in four ways, the fields of a kind:                *)
(*   policy         "guarded": diff goes through `replacement`             *)
(*                  (RDS instance, ACK cluster and node pool, disk, NAT,   *)
(*                  EIP); "unguarded": a bare create-before-delete         *)
(*                  (Network, VSwitch, Tair); "deleteFirst" (ECS instance, *)
(*                  attachments, associations); "sameNameFirst": delete    *)
(*                  first only when the explicit name is kept (key pair)   *)
(*   compares       the immutable settings reconcile insists on before it   *)
(*                  answers: cidrBlock for a Network, vpcId, cidrBlock and  *)
(*                  zoneId for a VSwitch, the key for a key pair, else none *)
(*   renamesInPlace a changed name alone is an update, not a replacement   *)
(*                  (EIP, NAT, disk)                                       *)
(*   names          what the settings may say of the name, NoName included *)
(*                  when they may leave it out                             *)
(* Left out: namesakes that carry someone else's tags and instances that   *)
(* vanish by hand (both in RdsInstance, with the repair of a saved         *)
(* resource that is gone), and editing the desired settings again before a *)
(* replacement has settled.                                                *)
(***************************************************************************)
EXTENDS Naturals, FiniteSets

CONSTANTS
    Id,              \* physical identities, one per creation
    NoId,
    NameChoice,      \* names the settings may give
    NoName,          \* the settings give none
    Part,            \* the immutable settings
    Choice,          \* their values
    Kind,            \* the kinds of provider considered
    MaxGenerations,  \* bound on the generations of the resource
    generated        \* the name the engine generates for each generation

Generation == 1 .. MaxGenerations
Explicit == NameChoice \ {NoName}
Names == Explicit \cup {generated[g] : g \in Generation}
Setting == [Part -> Choice]
Props == [name : NameChoice, setting : Setting]

ASSUME IdAssumption == NoId \notin Id
ASSUME GenerationAssumption == MaxGenerations \in Nat \ {0}
ASSUME NameAssumption == NoName \notin Names
ASSUME GeneratedAssumption ==
    \A g, h \in Generation : generated[g] = generated[h] => g = h
ASSUME KindAssumption ==
    Kind \subseteq [policy : {"guarded", "unguarded", "deleteFirst",
                             "sameNameFirst"},
                    compares : SUBSET Part, renamesInPlace : BOOLEAN,
                    names : SUBSET NameChoice]

VARIABLES
    kind,      \* the provider's kind, never changed
    inst,      \* the cloud: what each identity is
    gen,       \* the generation being reconciled or settled
    props,     \* its desired settings, saved by the engine
    output,    \* its saved identity
    outgoing,  \* the saved identity of the generation being replaced
    phase,     \* what the engine is doing
    target,    \* the identity the running reconcile is working on, in memory
    pinned     \* history: the last plan gave the name of the outgoing resource
               \* to the new one, and the requested names did not show it

replaceVars == <<kind, inst, gen, props, output, outgoing, phase, target, pinned>>

Phase == {"settled", "observe", "verify", "retire", "retiring"}
InstanceStatus == {"unused", "live", "deleting", "gone"}
Instance == [name : Names \cup {NoName}, setting : Setting, status : InstanceStatus]

Up(i) == inst[i].status \in {"live", "deleting"}

PhysicalName(g, p) == IF p.name = NoName THEN generated[g] ELSE p.name

Found == {i \in Id : Up(i) /\ inst[i].name = PhysicalName(gen, props)}

(* No resource yet: the first deployment is about to be reconciled. *)
ReplaceInit ==
    /\ \E s \in Setting :
         inst = [i \in Id |-> [name |-> NoName, setting |-> s, status |-> "unused"]]
    /\ kind \in Kind
    /\ gen = 1
    /\ props \in Props
    /\ props.name \in kind.names
    /\ output = NoId
    /\ outgoing = NoId
    /\ phase = "observe"
    /\ target = NoId
    /\ pinned = FALSE

-----------------------------------------------------------------------------
(* Planning *)

Replaces(p) ==
    \/ p.setting # props.setting
    \/ ~kind.renamesInPlace /\ p.name # props.name

KeepsName(p) == p.name # NoName /\ p.name = props.name

(* Faulty: nothing is refused. *)
NeverRefused(p) == FALSE /\ p = props

(* `replacement` refuses a plan that keeps the explicit name. *)
Refused(p) == kind.policy = "guarded" /\ KeepsName(p)

DeleteFirst(p) ==
    \/ kind.policy = "deleteFirst"
    \/ kind.policy = "sameNameFirst" /\ KeepsName(p)

(* A generated name written out, or a name asked for again after it was     *)
(* left out: the new name is the one in use, but not the one requested.     *)
Pins(p) ==
    /\ ~DeleteFirst(p)
    /\ ~KeepsName(p)
    /\ inst[output].status = "live"
    /\ inst[output].name = PhysicalName(gen + 1, p)

PlanReplacement(p) ==
    /\ phase = "settled"
    /\ gen < MaxGenerations
    /\ Replaces(p)
    /\ ~Refused(p)
    /\ gen' = gen + 1
    /\ props' = p
    /\ outgoing' = output
    /\ output' = NoId
    /\ phase' = IF DeleteFirst(p) THEN "retire" ELSE "observe"
    /\ pinned' = Pins(p)
    /\ UNCHANGED <<inst, target>>

(* An omitted name keeps the one already in use. *)
Rename(p) ==
    /\ phase = "settled"
    /\ ~Replaces(p)
    /\ p.name # props.name
    /\ inst[output].status = "live"
    /\ props' = p
    /\ inst' = IF p.name = NoName THEN inst
               ELSE [inst EXCEPT ![output].name = p.name]
    /\ UNCHANGED <<gen, output, outgoing, phase, target, pinned>>

-----------------------------------------------------------------------------
(* The reconcile of the new generation, which has no saved output *)

Adopt(i) ==
    /\ phase = "observe"
    /\ i \in Found
    /\ target' = i
    /\ phase' = "verify"
    /\ UNCHANGED <<inst, gen, props, output, outgoing, pinned>>

(* Faulty: a resource is created without looking for the name first. *)
CreateBlindly(i) ==
    /\ phase = "observe"
    /\ inst[i].status = "unused"
    /\ inst' = [inst EXCEPT ![i] = [name    |-> PhysicalName(gen, props),
                                    setting |-> props.setting,
                                    status  |-> "live"]]
    /\ target' = i
    /\ phase' = "verify"
    /\ UNCHANGED <<gen, props, output, outgoing, pinned>>

Create(i) ==
    /\ phase = "observe"
    /\ Found = {}
    /\ inst[i].status = "unused"
    /\ inst' = [inst EXCEPT ![i] = [name    |-> PhysicalName(gen, props),
                                    setting |-> props.setting,
                                    status  |-> "live"]]
    /\ target' = i
    /\ phase' = "verify"
    /\ UNCHANGED <<gen, props, output, outgoing, pinned>>

(* The end of reconcile; its result becomes the saved output. *)
Verify ==
    /\ phase = "verify"
    /\ inst[target].status = "live"
    /\ \A q \in kind.compares : inst[target].setting[q] = props.setting[q]
    /\ output' = target
    /\ target' = NoId
    /\ phase' = IF outgoing = NoId THEN "settled" ELSE "retire"
    /\ UNCHANGED <<inst, gen, props, outgoing, pinned>>

-----------------------------------------------------------------------------
(* The delete of the outgoing generation *)

RequestDelete ==
    /\ phase = "retire"
    /\ inst' = IF inst[outgoing].status = "live"
               THEN [inst EXCEPT ![outgoing].status = "deleting"]
               ELSE inst
    /\ phase' = "retiring"
    /\ UNCHANGED <<gen, props, output, outgoing, target, pinned>>

Retired ==
    /\ phase = "retiring"
    /\ ~Up(outgoing)
    /\ outgoing' = NoId
    /\ phase' = IF output = NoId THEN "observe" ELSE "settled"
    /\ UNCHANGED <<inst, gen, props, output, target, pinned>>

(* A failed step or a killed process: the next deployment starts the step  *)
(* over from what the engine saved.                                        *)
Interrupt ==
    /\ phase \in {"verify", "retiring"}
    /\ target' = NoId
    /\ phase' = IF phase = "verify" THEN "observe" ELSE "retire"
    /\ UNCHANGED <<inst, gen, props, output, outgoing, pinned>>

(* The cloud finishes a deletion it accepted. *)
Removed(i) ==
    /\ inst[i].status = "deleting"
    /\ inst' = [inst EXCEPT ![i].status = "gone"]
    /\ UNCHANGED <<gen, props, output, outgoing, phase, target, pinned>>

ReplacePlan ==
    \E p \in Props :
        p.name \in kind.names /\ (PlanReplacement(p) \/ Rename(p))
Reconcile == (\E i \in Id : Adopt(i) \/ Create(i)) \/ Verify
Retire == RequestDelete \/ Retired

ReplaceStep ==
    \/ ReplacePlan
    \/ Reconcile
    \/ Retire
    \/ Interrupt
    \/ \E i \in Id : Removed(i)

ReplaceNext == ReplaceStep /\ UNCHANGED kind

ReplaceSpec == ReplaceInit /\ [][ReplaceNext]_replaceVars

-----------------------------------------------------------------------------

ReplaceTypeOK ==
    /\ kind \in Kind
    /\ inst \in [Id -> Instance]
    /\ gen \in Generation
    /\ props \in Props /\ props.name \in kind.names
    /\ output \in Id \cup {NoId}
    /\ outgoing \in Id \cup {NoId}
    /\ phase \in Phase
    /\ target \in Id \cup {NoId}
    /\ pinned \in BOOLEAN

(* A deployment that has settled leaves the saved identity naming a live   *)
(* resource with the settings that were asked for: the replacement did not *)
(* return the outgoing identity only to delete it, and did not keep it     *)
(* with its old settings (identity.ts `replacement` and the diffs), unless *)
(* the plan pinned a name in use behind the back of the guard.             *)
ReplacementSurvives ==
    phase = "settled" /\ ~pinned =>
        /\ output # NoId
        /\ inst[output].status = "live"
        /\ inst[output].setting = props.setting

(* No reconcile of a new generation answers with the identity of the       *)
(* generation it replaces, whatever the names (identity.ts:30,             *)
(* REVIEW.md:73-74).                                                       *)
OutgoingNeverReturned == output # NoId => output # outgoing

(* However often a create or a delete is interrupted and started over, a   *)
(* settled deployment leaves no second resource behind: recovery by name   *)
(* finds what an interrupted reconcile created.                            *)
NoGenerationLeftBehind ==
    phase = "settled" => \A i \in Id : Up(i) => i = output

=============================================================================
