------------------------------ MODULE Children ------------------------------
(***************************************************************************)
(* The resources that live inside others or tie two of them together: RAM  *)
(* roles, policies and their attachments; accounts, databases, privileges  *)
(* and address lists of RDS and Tair; namespaces, repositories, links and  *)
(* access entries of ACR; security groups, their rules, and key pairs.     *)
(* Every stack here has at most two parents, "a" and "b", and a child "c"  *)
(* that needs the outputs of "a", and of "b" where it ties the two.        *)
(*                                                                         *)
(* Their handlers are one scheme with local differences: look, create what *)
(* is missing, tune what differs, confirm; and delete, wait until absent.  *)
(* The scheme's steps come first; each provider is then written with them. *)
(*                                                                         *)
(* Abstractions.  A wait is the single observation that ends it (see       *)
(* ObserveLoop).  What an update can change of a resource is one revision; *)
(* 3 is what somebody else made of it.  Names are generated: a generation  *)
(* has its own, and Replacement treats the names an author chooses.  The   *)
(* instances, networks and registries around a stack are there.            *)
(***************************************************************************)
EXTENDS Naturals

CONSTANTS
    Stacks,        \* the compositions to deploy
    None,           \* undefined
    MaxUpsets       \* bound on crashes, lost answers, edits, console changes

Parents == {"a", "b"}
All == Parents \cup {"c"}

Kinds == [
    ram    |-> [a |-> "Role", b |-> "Policy", c |-> "Attachment"],
    mysql  |-> [a |-> "Account", b |-> "Database", c |-> "Privilege"],
    pg     |-> [a |-> "Account", b |-> "Database", c |-> "Privilege"],
    acr    |-> [a |-> "Namespace", b |-> "Link", c |-> "Repository"],
    ecs    |-> [a |-> "SecurityGroup", b |-> "KeyPair", c |-> "IngressRule"],
    egress |-> [a |-> "SecurityGroup", b |-> "AclEntry", c |-> "EgressRule"],
    tair   |-> [a |-> "TairAccount", b |-> "TairIpGroup"],
    lists  |-> [a |-> "IpGroup"] ]

ASSUME StacksAssumption == Stacks \in SUBSET DOMAIN Kinds
ASSUME BoundAssumption == MaxUpsets \in Nat

VARIABLES
    stack,          \* which composition this is
    cloud,          \* every resource there is, or could be
    want,           \* the desired revision
    gen,            \* instanceId of the engine: the generation of each resource
    retire,         \* resources to be replaced in this run
    saved,          \* output and inputs of each resource, as the engine keeps them
    outgoing,       \* those of its replaced predecessor, to be deleted last
    destroying,     \* the stack is being destroyed
    pc,             \* the step of every handler
    touched,        \* history: what was changed behind the back of its diff
    upsets          \* disturbances so far

engine == <<want, gen, retire, saved, outgoing, destroying>>
vars == <<stack, cloud, engine, pc, touched, upsets>>

Res == DOMAIN Kinds[stack]
KindOf(r) == Kinds[stack][r]
Ties == stack \in {"ram", "mysql", "pg"}
Rules == {"IngressRule", "EgressRule"}

Generation == 1..(MaxUpsets + 1)
Id == (Parents \X Generation) \cup ({"c"} \X Generation \X Generation)

\* What the engine keeps of a resource: what it is, and what it was made to be.
Output == [at : Id, rev : 0..3]
ASSUME NoneAssumption == None \notin Output

\* What a resource of this run is known by: a name of its generation; the child
\* by the names of its parents and, if these are not two, its own or its content.
Key(r) ==
    IF r \in Parents THEN <<r, gen[r]>>
    ELSE <<"c", gen.a, IF Ties THEN gen.b ELSE IF KindOf("c") \in Rules THEN want ELSE gen.c>>

ParentsOf(k) == {<<"a", k[2]>>} \cup (IF Ties THEN {<<"b", k[3]>>} ELSE {})

Thing == [state : {"absent", "pending", "ready", "deleting"}, rev : 0..3,
          ours : BOOLEAN,    \* it carries the tags of this stack
          spare : BOOLEAN,   \* a policy has versions besides the default one
          guest : BOOLEAN]   \* something of another owner depends on it

Absent == [state |-> "absent", rev |-> 0, ours |-> FALSE, spare |-> FALSE, guest |-> FALSE]
Present(k) == cloud[k].state # "absent"
Busy(k) == cloud[k].state \in {"pending", "deleting"}
Bound(k) == { t \in Id : t[1] = "c" /\ Present(t) /\ k \in ParentsOf(t) }

Slow == {"Account", "TairAccount", "Database", "Link"}
Unchanging == {"Attachment", "Link"} \cup Rules
Wanted(r) == IF KindOf(r) \in Unchanging THEN 1 ELSE want
Same(r) == cloud[Key(r)].rev = Wanted(r)
Fits(r) == cloud[Key(r)].state = "ready" /\ cloud[Key(r)].rev = Wanted(r)

Rest == {"idle", "planned", "failed", "done", "gone"}
Step == Rest \cup {"look", "create", "tune", "cleared", "confirm", "dRead", "dVersions", "dAbsent"}

Init ==
    /\ stack \in Stacks
    /\ cloud = [k \in Id |-> Absent]
    /\ want = 1
    /\ gen = [r \in All |-> 1]
    /\ retire = {}
    /\ saved = [r \in All |-> None]
    /\ outgoing = [r \in All |-> None]
    /\ destroying = FALSE
    /\ pc = [r \in All |-> "idle"]
    /\ touched = {}
    /\ upsets = 0

\* What is on record.
Kept == { s \in {saved[r] : r \in Res} \cup {outgoing[r] : r \in Res} : s # None }

Upset == upsets < MaxUpsets /\ upsets' = upsets + 1
Calm == UNCHANGED upsets

-----------------------------------------------------------------------------
(* The cloud (external). *)

New(r) == [state |-> IF KindOf(r) \in Slow THEN "pending" ELSE "ready",
           rev |-> Wanted(r), ours |-> TRUE, spare |-> FALSE, guest |-> FALSE]

Put(k, t) == cloud' = [cloud EXCEPT ![k] = t]
Write(r) == Put(Key(r), [cloud[Key(r)] EXCEPT
                !.rev = Wanted(r), !.ours = TRUE, !.spare = @ \/ KindOf(r) = "Policy"])

\* A database takes its privileges with it, a security group its rules.
Remove(r, k) ==
    LET with == IF KindOf(r) \in {"Database", "SecurityGroup"} THEN Bound(k) ELSE {} IN
    cloud' = [i \in Id |->
        IF i = k /\ KindOf(r) \in Slow THEN [cloud[k] EXCEPT !.state = "deleting"]
        ELSE IF i \in with \cup {k} THEN Absent ELSE cloud[i]]

\* The rest is not deleted while something depends on it.
Needed(r, k) ==
    \/ cloud[k].guest \/ cloud[k].spare
    \/ KindOf(r) \in {"Role", "Policy", "Namespace", "Account"} /\ Bound(k) # {}

Grounded(r) == r = "c" => \A p \in ParentsOf(Key("c")) : cloud[p].state = "ready"

TaskEnds ==
    /\ \E k \in Id :
         \/ cloud[k].state = "pending" /\ Put(k, [cloud[k] EXCEPT !.state = "ready"])
         \/ cloud[k].state = "deleting" /\ Put(k, Absent)
    /\ UNCHANGED <<stack, engine, pc, touched, upsets>>

Hosts == {"Role", "Policy", "Namespace", "SecurityGroup"}
Named == {"Role", "Policy", "KeyPair"}
Removable == Named \cup Rules \cup {"SecurityGroup", "Attachment", "Privilege"}

\* An operator changes a resource, or deletes it with what depends on it;
\* somebody uses it, or stops to; takes its name, or gives it back; a key is
\* exchanged for another of its name.  A name that changes hands between a
\* handler's check and its write is beyond any check; a rule is its content, and
\* changed before it is on record it is as good as gone.
Console ==
    /\ Upset
    /\ \E r \in Res, k \in Id :
         /\ k[1] = r
         /\ \/ /\ cloud[k].state = "ready" /\ cloud[k].ours
               /\ KindOf(r) \notin {"Attachment", "Link"}
               /\ KindOf(r) \in Rules => k \in {s.at : s \in Kept}
               /\ Put(k, [cloud[k] EXCEPT !.rev = 3])
               /\ touched' = touched \cup {r}
            \/ /\ cloud[k].state = "ready" /\ (cloud[k].ours => KindOf(r) \in Removable)
               /\ LET with == IF r = "c" THEN {} ELSE Bound(k) IN
                  /\ cloud' = [i \in Id |-> IF i \in with \cup {k} THEN Absent ELSE cloud[i]]
                  /\ touched' = touched \cup { i[1] : i \in {t \in with \cup {k} : cloud[t].ours} }
            \/ /\ cloud[k].state = "ready" /\ cloud[k].ours /\ KindOf(r) \in Hosts
               /\ Put(k, [cloud[k] EXCEPT !.guest = ~@])
               /\ UNCHANGED touched
            \/ /\ KindOf(r) \in Named /\ pc[r] # "tune"
               /\ ~Present(k) \/ (KindOf(r) = "KeyPair" /\ cloud[k].ours)
               /\ k[2] \in {gen[r], gen[r] + 1}
               /\ Put(k, [Absent EXCEPT !.state = "ready", !.rev = 3])
               /\ touched' = IF Present(k) THEN touched \cup {r} ELSE touched
    /\ UNCHANGED <<stack, engine, pc>>

-----------------------------------------------------------------------------
(* The steps handlers are made of. *)

Goto(r, step) == pc' = [pc EXCEPT ![r] = step]
Fail(r) == Goto(r, "failed")
Proceed(r, step) == Goto(r, step) /\ Calm
Quiet == UNCHANGED <<stack, engine, touched>>

\* The answer of a request is lost: retryingSdkCall sends it again or gives
\* up, sdkCall gives up.
Again == TRUE
Once == FALSE
Lost(r, again) == Upset /\ (Fail(r) \/ (again /\ UNCHANGED pc))

\* One request: it is granted, refused, or lost on the way there or back.
Call(r, allowed, effect, next, again) ==
    \/ allowed /\ effect /\ (Proceed(r, next) \/ Lost(r, again))
    \/ ~allowed /\ Fail(r) /\ Calm /\ UNCHANGED cloud
    \/ Lost(r, again) /\ UNCHANGED cloud

\* The observation that ends a wait; that it came too early for a task of the
\* cloud is a disturbance.
Wait(r, ready, busy, next) ==
    /\ \/ ready /\ Proceed(r, next)
       \/ ~ready /\ Fail(r) /\ (IF busy THEN Upset ELSE Calm)
    /\ UNCHANGED cloud

\* The engine acts on a diff, once the resources referred to are there.  What
\* failed is run again whatever its diff says.
Begin(r, same) ==
    /\ pc[r] \in {"idle", "planned"} /\ ~destroying
    /\ r = "c" => \A p \in ParentsOf(Key("c")) : pc[p[1]] = "done"
    /\ IF r \in retire
       THEN /\ retire' = retire \ {r}
            /\ outgoing' = [outgoing EXCEPT ![r] = saved[r]]
            /\ saved' = [saved EXCEPT ![r] = None]
            /\ gen' = IF r = "c" /\ KindOf("c") # "Repository" THEN gen ELSE [gen EXCEPT ![r] = @ + 1]
            /\ Goto(r, "look")
       ELSE /\ Goto(r, IF pc[r] = "planned" /\ same THEN "done" ELSE "look")
            /\ UNCHANGED <<retire, outgoing, saved, gen>>
    /\ UNCHANGED <<stack, cloud, want, destroying, touched, upsets>>

\* A diff that compares the inputs, and one that looks at the cloud as well.
SameInputs(r) == saved[r] = [at |-> Key(r), rev |-> Wanted(r)]
InPlace(r) == saved[r] # None /\ saved[r].at = Key(r) /\ Fits(r)

LookUp(r, owned) ==
    /\ pc[r] = "look"
    /\ IF owned /\ saved[r] = None /\ Present(Key(r)) /\ ~cloud[Key(r)].ours THEN Fail(r)
       ELSE Goto(r, IF Present(Key(r)) THEN "tune" ELSE "create")
    /\ UNCHANGED <<cloud, upsets>> /\ Quiet

Create(r, again, next) ==
    /\ pc[r] = "create"
    /\ Call(r, ~Present(Key(r)) /\ Grounded(r), Put(Key(r), New(r)), next, again)
    /\ Quiet

Tune(r, same, again) ==
    /\ pc[r] = "tune"
    /\ IF same THEN Proceed(r, "confirm") /\ UNCHANGED cloud
       ELSE Call(r, cloud[Key(r)].state = "ready", Write(r), "confirm", again)
    /\ Quiet

\* One request writes the whole value, whether there is one or not.
Cover(r, again) ==
    /\ pc[r] \in {"create", "tune"}
    /\ IF Fits(r) THEN Proceed(r, "confirm") /\ UNCHANGED cloud
       ELSE Call(r, Grounded(r), Put(Key(r), New(r)), "confirm", again)
    /\ Quiet

\* The last wait; its result is what the engine saves.
Confirm(r, ready) ==
    /\ pc[r] = "confirm"
    /\ Wait(r, ready, Busy(Key(r)), "done")
    /\ IF ready
       THEN /\ saved' = [saved EXCEPT ![r] = [at |-> Key(r), rev |-> Wanted(r)]]
            /\ touched' = IF Fits(r) THEN touched \ {r} ELSE touched
       ELSE UNCHANGED <<saved, touched>>
    /\ UNCHANGED <<stack, want, gen, retire, outgoing, destroying>>

\* What a delete handler is called for: the predecessor, then the resource.
Victim(r) == IF outgoing[r] # None THEN outgoing[r] ELSE saved[r]
Doomed(r) == Victim(r).at

Delete(r, step, allowed, effect) ==
    /\ pc[r] = step
    /\ IF ~Present(Doomed(r)) \/ cloud[Doomed(r)].state = "deleting"
       THEN Proceed(r, "dAbsent") /\ UNCHANGED cloud
       ELSE Call(r, cloud[Doomed(r)].state = "ready" /\ allowed, effect, "dAbsent", Again)
    /\ Quiet

Gone(r) ==
    /\ pc[r] = "dAbsent"
    /\ Wait(r, ~Present(Doomed(r)), Busy(Doomed(r)),
            IF ~destroying THEN "done" ELSE IF outgoing[r] # None THEN "idle" ELSE "gone")
    /\ IF Present(Doomed(r)) THEN UNCHANGED <<saved, outgoing>>
       ELSE IF outgoing[r] # None
       THEN outgoing' = [outgoing EXCEPT ![r] = None] /\ UNCHANGED saved
       ELSE saved' = [saved EXCEPT ![r] = None] /\ UNCHANGED outgoing
    /\ UNCHANGED <<stack, want, gen, retire, destroying, touched>>

Release(r) == Delete(r, "dRead", ~Needed(r, Doomed(r)), Remove(r, Doomed(r))) \/ Gone(r)

-----------------------------------------------------------------------------
(* RAM: RamRole, RamPolicy, RolePolicyAttachment *)

\* Faulty: the diff of a role does not look at the role.
RoleDiffBlind(r) == Begin(r, SameInputs(r))

RoleDiff(r) == Begin(r, InPlace(r))

\* Faulty: a role found under the name is taken over, whoever made it.
RoleReconcileUnasked(r) ==
    \/ LookUp(r, FALSE)
    \/ Create(r, Again, "tune")
    \/ Tune(r, Same(r), Again)
    \/ Confirm(r, Fits(r))

RoleReconcile(r) ==
    \/ LookUp(r, TRUE)
    \/ Create(r, Again, "tune")
    \/ Tune(r, Same(r), Again)
    \/ Confirm(r, Fits(r))

RoleDelete(r) == Release(r)

PolicyDiff(r) == Begin(r, InPlace(r))

\* Another document is another version; the former one stays behind.
PolicyReconcile(r) ==
    \/ LookUp(r, TRUE)
    \/ Create(r, Again, "tune")
    \/ Tune(r, Same(r), Again)
    \/ Confirm(r, Fits(r))

\* Faulty: the versions are left to DeletePolicy.
PolicyDeleteAtOnce(r) == Release(r)

\* cascadingDelete: false.  The versions it lists go first, one by one.
PolicyDelete(r) ==
    LET k == Doomed(r) IN
    \/ /\ pc[r] = "dRead"
       /\ Proceed(r, IF Present(k) THEN "dVersions" ELSE "dAbsent")
       /\ UNCHANGED cloud /\ Quiet
    \/ /\ pc[r] = "dVersions" /\ cloud[k].spare
       /\ Call(r, TRUE, Put(k, [cloud[k] EXCEPT !.spare = FALSE]), "dVersions", Again)
       /\ Quiet
    \/ /\ pc[r] = "dVersions" /\ ~cloud[k].spare
       /\ Delete(r, "dVersions", ~Needed(r, k), Remove(r, k))
    \/ Gone(r)

AttachmentDiff(r) == Begin(r, InPlace(r))
AttachmentReconcile(r) == LookUp(r, FALSE) \/ Cover(r, Again) \/ Confirm(r, Fits(r))
AttachmentDelete(r) == Release(r)

-----------------------------------------------------------------------------
(* RDS: Account, Database, AccountPrivilege, SecurityIpGroup *)

AccountDiff(r) == Begin(r, SameInputs(r))

\* A password cannot be read: it is set when the inputs changed.
AccountReconcile(r) ==
    \/ LookUp(r, FALSE)
    \/ Create(r, Once, "confirm")
    \/ Tune(r, SameInputs(r), Once)
    \/ Confirm(r, cloud[Key(r)].state = "ready")

AccountDelete(r) == Release(r)

DatabaseDiff(r) == Begin(r, SameInputs(r))

DatabaseReconcile(r) ==
    \/ LookUp(r, FALSE)
    \/ Create(r, Once, "confirm")
    \/ Tune(r, Same(r), Once)
    \/ Confirm(r, Fits(r))

DatabaseDelete(r) == Release(r)

PrivilegeDiff(r) == Begin(r, SameInputs(r))

\* Faulty: another privilege is granted after the former is revoked.
PrivilegeReconcileBare(r) ==
    \/ LookUp(r, FALSE)
    \/ Create(r, Once, "confirm")
    \/ /\ pc[r] = "tune"
       /\ IF Same(r) THEN Proceed(r, "confirm") /\ UNCHANGED cloud
          ELSE Call(r, TRUE, Put(Key(r), Absent), "create", Once)
       /\ Quiet
    \/ Confirm(r, Fits(r))

PrivilegeReconcile(r) == LookUp(r, FALSE) \/ Cover(r, Once) \/ Confirm(r, Fits(r))

\* PostgreSQL cannot revoke: the privilege is left to a person.
PrivilegeDelete(r) ==
    \/ /\ pc[r] = "dRead" /\ stack = "pg" /\ Present(Doomed(r))
       /\ Fail(r) /\ UNCHANGED <<cloud, upsets>> /\ Quiet
    \/ (pc[r] = "dRead" /\ stack = "pg" => ~Present(Doomed(r))) /\ Release(r)

\* A list is never deleted: the loopback address in it stands for none.
IpGroupDiff(r) == Begin(r, SameInputs(r))
IpGroupReconcile(r) == LookUp(r, FALSE) \/ Cover(r, Once) \/ Confirm(r, Fits(r))
IpGroupDelete(r) == Release(r)

-----------------------------------------------------------------------------
(* Tair: TairAccount, TairSecurityIpGroup *)

TairAccountDiff(r) == Begin(r, SameInputs(r))

\* requestMutation waits until the request is accepted.
TairAccountReconcile(r) ==
    \/ LookUp(r, FALSE)
    \/ Create(r, Once, "confirm")
    \/ ~Busy(Key(r)) /\ Tune(r, SameInputs(r), Again)
    \/ pc[r] = "tune" /\ Busy(Key(r)) /\ Wait(r, FALSE, TRUE, "confirm") /\ Quiet
    \/ Confirm(r, cloud[Key(r)].state = "ready")

TairAccountDelete(r) == Release(r)

TairIpGroupDiff(r) == Begin(r, SameInputs(r))
TairIpGroupReconcile(r) == LookUp(r, FALSE) \/ Cover(r, Again) \/ Confirm(r, Fits(r))

\* The addresses of the saved output are taken out of the list; a list that
\* holds others stays.
TairIpGroupDelete(r) ==
    LET k == Doomed(r)
        emptied == cloud[k].rev = Victim(r).rev IN
    \/ Delete(r, "dRead", TRUE, IF emptied THEN Remove(r, k)
                                ELSE Put(k, [cloud[k] EXCEPT !.rev = 3]))
    \/ Gone(r)

-----------------------------------------------------------------------------
(* ACR: Namespace, Repository, EndpointAclEntry, VpcEndpointLink *)

NamespaceDiff(r) == Begin(r, SameInputs(r))

NamespaceReconcile(r) ==
    \/ LookUp(r, FALSE)
    \/ Create(r, Once, "confirm")
    \/ Tune(r, Same(r), Once)
    \/ Confirm(r, Fits(r))

NamespaceDelete(r) == Release(r)

RepositoryDiff(r) == Begin(r, SameInputs(r))

RepositoryReconcile(r) ==
    \/ LookUp(r, FALSE)
    \/ Create(r, Once, "confirm")
    \/ Tune(r, Same(r), Once)
    \/ Confirm(r, Fits(r))

RepositoryDelete(r) == Release(r)

AclEntryDiff(r) == Begin(r, SameInputs(r))

\* Another comment is another entry: the old one is removed first.
AclEntryReconcile(r) ==
    \/ LookUp(r, FALSE)
    \/ Create(r, Once, "confirm")
    \/ /\ pc[r] = "tune"
       /\ IF Same(r) THEN Proceed(r, "confirm") /\ UNCHANGED cloud
          ELSE Call(r, TRUE, Put(Key(r), Absent), "cleared", Again)
       /\ Quiet
    \/ pc[r] = "cleared" /\ Wait(r, ~Present(Key(r)), FALSE, "create") /\ Quiet
    \/ Confirm(r, Fits(r))

AclEntryDelete(r) == Release(r)

LinkDiff(r) == Begin(r, SameInputs(r))

LinkReconcile(r) ==
    \/ LookUp(r, FALSE)
    \/ Create(r, Once, "confirm")
    \/ Tune(r, TRUE, Once)
    \/ Confirm(r, cloud[Key(r)].state = "ready")

LinkDelete(r) == Release(r)

-----------------------------------------------------------------------------
(* ECS: SecurityGroup, SecurityGroupIngress and -Egress, KeyPair *)

SecurityGroupDiff(r) == Begin(r, InPlace(r))

\* A creation is idempotent by token, and one whose answer was lost is found
\* again by its name.
SecurityGroupReconcile(r) ==
    \/ LookUp(r, FALSE)
    \/ /\ pc[r] = "create" /\ Quiet
       /\ LET create == IF Present(Key(r)) THEN UNCHANGED cloud ELSE Put(Key(r), New(r)) IN
          \/ Call(r, TRUE, create, "tune", Again)
          \/ Upset /\ create /\ Goto(r, "tune")
    \/ Tune(r, Same(r), Again)
    \/ Confirm(r, Fits(r))

SecurityGroupDelete(r) == Release(r)

\* A managed rule that somebody changed is never left behind as it is.
Drifted(r) == saved[r] # None /\ saved[r].at = Key(r) /\ cloud[Key(r)].rev = 3
Drift(r) ==
    pc[r] = "look" /\ Drifted(r) /\ Fail(r) /\ UNCHANGED <<cloud, upsets>> /\ Quiet

IngressDiff(r) == Begin(r, InPlace(r))

IngressReconcile(r) ==
    \/ Drift(r)
    \/ ~Drifted(r) /\ LookUp(r, FALSE)
    \/ Cover(r, Again)
    \/ Confirm(r, Fits(r))

IngressDelete(r) == Release(r)

EgressDiff(r) == Begin(r, InPlace(r))

EgressReconcile(r) ==
    \/ Drift(r)
    \/ ~Drifted(r) /\ LookUp(r, FALSE)
    \/ Cover(r, Again)
    \/ Confirm(r, Fits(r))

EgressDelete(r) == Release(r)

KeyPairDiff(r) == Begin(r, InPlace(r))

\* What somebody else imported under the name is another key, and no request
\* turns one key into another.
OtherKey(r) ==
    pc[r] = "tune" /\ ~cloud[Key(r)].ours /\ Fail(r) /\ UNCHANGED <<cloud, upsets>> /\ Quiet

KeyPairReconcile(r) ==
    \/ LookUp(r, TRUE)
    \/ Create(r, Again, "tune")
    \/ OtherKey(r)
    \/ cloud[Key(r)].ours /\ Tune(r, Same(r), Again)
    \/ Confirm(r, Fits(r))

KeyPairDelete(r) == Release(r)

-----------------------------------------------------------------------------
(* The engine and the process (external). *)

Provider(r) == CASE
    KindOf(r) = "Role"          -> RoleDiff(r) \/ RoleReconcile(r) \/ RoleDelete(r)
 [] KindOf(r) = "Policy"        -> PolicyDiff(r) \/ PolicyReconcile(r) \/ PolicyDelete(r)
 [] KindOf(r) = "Attachment"    -> AttachmentDiff(r) \/ AttachmentReconcile(r) \/ AttachmentDelete(r)
 [] KindOf(r) = "Account"       -> AccountDiff(r) \/ AccountReconcile(r) \/ AccountDelete(r)
 [] KindOf(r) = "Database"      -> DatabaseDiff(r) \/ DatabaseReconcile(r) \/ DatabaseDelete(r)
 [] KindOf(r) = "Privilege"     -> PrivilegeDiff(r) \/ PrivilegeReconcile(r) \/ PrivilegeDelete(r)
 [] KindOf(r) = "IpGroup"       -> IpGroupDiff(r) \/ IpGroupReconcile(r) \/ IpGroupDelete(r)
 [] KindOf(r) = "TairAccount"   -> TairAccountDiff(r) \/ TairAccountReconcile(r) \/ TairAccountDelete(r)
 [] KindOf(r) = "TairIpGroup"   -> TairIpGroupDiff(r) \/ TairIpGroupReconcile(r) \/ TairIpGroupDelete(r)
 [] KindOf(r) = "Namespace"     -> NamespaceDiff(r) \/ NamespaceReconcile(r) \/ NamespaceDelete(r)
 [] KindOf(r) = "Repository"    -> RepositoryDiff(r) \/ RepositoryReconcile(r) \/ RepositoryDelete(r)
 [] KindOf(r) = "AclEntry"      -> AclEntryDiff(r) \/ AclEntryReconcile(r) \/ AclEntryDelete(r)
 [] KindOf(r) = "Link"          -> LinkDiff(r) \/ LinkReconcile(r) \/ LinkDelete(r)
 [] KindOf(r) = "SecurityGroup" -> SecurityGroupDiff(r) \/ SecurityGroupReconcile(r) \/ SecurityGroupDelete(r)
 [] KindOf(r) = "IngressRule"   -> IngressDiff(r) \/ IngressReconcile(r) \/ IngressDelete(r)
 [] KindOf(r) = "EgressRule"    -> EgressDiff(r) \/ EgressReconcile(r) \/ EgressDelete(r)
 [] KindOf(r) = "KeyPair"       -> KeyPairDiff(r) \/ KeyPairReconcile(r) \/ KeyPairDelete(r)

AllDone == \A r \in Res : pc[r] = "done"
AllGone == \A r \in Res : pc[r] = "gone"
AtRest == \A r \in Res : pc[r] \in Rest
Ran == AllDone \/ \E r \in Res : pc[r] = "failed"
Swept == AllDone /\ \A r \in Res : outgoing[r] = None

\* A destroy deletes children first; what was replaced goes when the rest is
\* done, children first as well.
StartDelete(r) ==
    /\ IF destroying
       THEN pc[r] = "idle" /\ (r \in Parents /\ "c" \in Res => pc.c = "gone")
       ELSE AllDone /\ outgoing[r] # None /\ (r \in Parents => outgoing.c = None)
    /\ Goto(r, IF Victim(r) = None THEN "gone" ELSE "dRead")
    /\ UNCHANGED <<cloud, upsets>> /\ Quiet

Handler(r) == r \in Res /\ (Provider(r) \/ StartDelete(r))

\* Before a plan, `read` looks for what has no saved output.
Recovered == [r \in All |->
    IF r \in Res /\ saved[r] = None /\ cloud[Key(r)].ours
    THEN [at |-> Key(r), rev |-> cloud[Key(r)].rev] ELSE saved[r]]

\* What the diffs want replaced: parents of another name, a security group that
\* is gone, a rule of other content, a child of other parents.  The child of a
\* parent that is itself to be replaced is not among them: its inputs are not
\* resolved, and its diff answers nothing.
Outdated(s, names, edited) ==
    LET parents == { p \in Parents \cap Res :
                       /\ s[p] # None /\ outgoing[p] = None
                       /\ p \in names \/ (KindOf(p) = "SecurityGroup" /\ ~Present(s[p].at)) }
        near == { k[1] : k \in ParentsOf(Key("c")) }
        child == { c \in {"c"} \cap Res :
                     /\ s.c # None /\ outgoing.c = None
                     /\ near \cap (parents \cup retire) = {} /\ \A p \in near : s[p] # None
                     /\ s.c.at # Key("c") \/ (edited /\ KindOf(c) \in Rules) } IN
    parents \cup child

Looks == Named \cup Rules \cup {"Attachment", "SecurityGroup"}
Secret == {"Account", "TairAccount"}

\* A new run of the plan: what failed is run again, what was done is compared.
\* A password that was set and not saved is no part of the comparison.
Plan(names, edited) ==
    /\ saved' = Recovered
    /\ retire' = retire \cup Outdated(Recovered, names, edited)
    /\ pc' = [r \in All |-> IF pc[r] = "failed" THEN "idle"
                            ELSE IF pc[r] = "done" THEN "planned" ELSE pc[r]]
    /\ touched' = { r \in touched : KindOf(r) \notin Looks } \cup
         { r \in Res : /\ edited /\ KindOf(r) \in Secret /\ saved[r] # None
                       /\ cloud[Key(r)].rev # saved[r].rev }

Rerun ==
    /\ AtRest /\ \E r \in Res : pc[r] = "failed"
    /\ IF destroying
       THEN /\ pc' = [r \in All |-> IF pc[r] = "failed" THEN "idle" ELSE pc[r]]
            /\ UNCHANGED <<saved, retire, touched>>
       ELSE Plan({}, FALSE)
    /\ UNCHANGED <<stack, cloud, want, gen, outgoing, destroying, upsets>>

\* The stack is deployed again, with other names or other settings.
Edit(names, edited) ==
    /\ Upset /\ AtRest /\ Ran /\ ~destroying
    /\ retire = {} /\ \A r \in Res : outgoing[r] = None
    /\ want' = IF edited THEN 3 - want ELSE want
    /\ Plan(names, edited)
    /\ UNCHANGED <<stack, cloud, gen, outgoing, destroying>>

Destroy ==
    /\ AtRest /\ Ran /\ ~destroying
    /\ destroying' = TRUE
    /\ saved' = Recovered
    /\ retire' = {}
    /\ pc' = [r \in All |-> "idle"]
    /\ UNCHANGED <<stack, cloud, want, gen, outgoing, touched, upsets>>

ProcessDies ==
    /\ Upset /\ ~AtRest
    /\ pc' = [r \in All |-> IF pc[r] \in Rest THEN pc[r] ELSE "failed"]
    /\ UNCHANGED <<cloud>> /\ Quiet

-----------------------------------------------------------------------------
Disturbance ==
    \/ Console \/ Destroy \/ ProcessDies
    \/ \E names \in SUBSET (Parents \cap Res), edited \in BOOLEAN : Edit(names, edited)

Next == (\E r \in All : Handler(r)) \/ Rerun \/ TaskEnds \/ Disturbance

Spec == Init /\ [][Next]_vars

\* Every handler keeps running, a failed run is repeated, tasks end.
FairSpec ==
    /\ Spec
    /\ \A r \in All : WF_vars(Handler(r))
    /\ WF_vars(Rerun) /\ WF_vars(TaskEnds)

-----------------------------------------------------------------------------
TypeOK ==
    /\ stack \in Stacks
    /\ cloud \in [Id -> Thing]
    /\ want \in 1..2 /\ gen \in [All -> Generation]
    /\ retire \in SUBSET Res /\ touched \in SUBSET Res
    /\ saved \in [All -> Output \cup {None}]
    /\ outgoing \in [All -> Output \cup {None}]
    /\ destroying \in BOOLEAN
    /\ pc \in [All -> Step]
    /\ upsets \in 0..MaxUpsets

Mine(k) == Present(k) /\ cloud[k].ours

\* A run that succeeds has made every resource what the stack says, also one
\* that somebody changed where the diff looks, and knows all it ever made;
\* a destroy that succeeds leaves none of it.
SuccessMeansDone ==
    /\ AllDone => \A r \in Res \ touched :
         saved[r] # None /\ saved[r].at = Key(r) /\ Fits(r)
    /\ Swept => \A k \in Id : Mine(k) =>
         k \in {s.at : s \in Kept} \/ (k[1] = "c" /\ KindOf("c") = "Repository")
    /\ AllGone => \A k \in Id : ~Mine(k)

\* Names are taken, tags decide: what another owner has under a name of this
\* stack is neither changed nor deleted, unless the name is on record as this
\* stack's; and nothing is deleted under what others made depend on it.
OthersKept ==
    [][\A k \in Id : ~Console =>
         /\ (Present(k) /\ ~cloud[k].ours /\ k \notin {s.at : s \in Kept}) => cloud'[k] = cloud[k]
         /\ cloud[k].guest => cloud'[k].guest]_vars

\* The child does what it is for: a role has its policy, an account its
\* database, a group its rule.
Serves(k) ==
    /\ k[1] = "c" /\ cloud[k].state = "ready" /\ cloud[k].rev # 3
    /\ \A p \in ParentsOf(k) : cloud[p].state = "ready"
Access == \E k \in Id : Serves(k)

\* Make before break: whatever is edited or replaced, and wherever the run
\* dies, access is never taken away before it is given anew.
AccessKept == [][(Access /\ ~Access' /\ touched = {}) => (destroying \/ Console)]_vars

\* A parent was replaced in the run that should have moved its child: the
\* child was updated in place, its former self is on no record, and the old
\* parent cannot go while it is there.
Condemned(k) == \E r \in Parents \cap Res :
    \/ outgoing[r] # None /\ outgoing[r].at = k
    \/ destroying /\ saved[r] # None /\ saved[r].at = k
Stranded == \E k \in Id :
    /\ k[1] = "c" /\ Present(k) /\ k \notin {s.at : s \in Kept}
    /\ \E p \in ParentsOf(k) : Condemned(p)

\* What else needs a person: a guest of something that is to go, a name that
\* is taken, a rule that was changed, a privilege that cannot be revoked, a
\* list that is not the one on record.
NeedsPerson ==
    \/ \E k \in Id : cloud[k].guest /\ Condemned(k)
    \/ \E r \in Res : /\ Present(Key(r)) /\ ~cloud[Key(r)].ours
                      /\ saved[r] = None \/ (KindOf(r) = "KeyPair" /\ ~destroying)
    \/ "c" \in Res /\ KindOf("c") \in Rules /\ Drifted("c") /\ ~destroying
    \/ stack = "pg" /\ Victim("c") # None /\ Present(Doomed("c"))
         /\ (destroying \/ outgoing.c # None)
    \/ stack = "tair" /\ Victim("b") # None /\ Present(Doomed("b"))
         /\ cloud[Doomed("b")].rev # Victim("b").rev /\ (destroying \/ outgoing.b # None)

\* After the disturbances every deployment and every destroy ends, wherever
\* the previous one died, unless it is stranded or needs a person.
EventuallySettled == <>[](Swept \/ AllGone \/ Stranded \/ NeedsPerson)
=============================================================================
