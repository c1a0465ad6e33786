# TLA+ verification of alchemy-alibaba

The repository is a set of Alchemy providers for Alibaba Cloud (TypeScript on
the Effect runtime) and one companion package, `packages/rds-access`.  A
provider is a pair of handlers, `reconcile` and `delete`, plus a pure `diff`;
the Alchemy engine runs them, saves what they return, and runs them again after
a failure.  Nothing of a handler survives it but the saved output, so the
question of this project is always the same: a handler is a sequence of SDK
calls against a control plane that is asynchronous, eventually listed, shared
with other people and sometimes silent; what is still true if it stops between
any two of those calls and is started over?

## 1. The system

| component | state it keeps | operations | what makes it correct |
|---|---|---|---|
| error classification and safe retries, `src/src/error.ts` | none | `isTransient`, `isNotFound`, `isAmbiguousCreate`, `retryingSdkCall`, `withinSafeRetryBudget` | only what is safe to repeat is repeated; budgets bound it |
| bounded waits, `src/src/internal/lifecycle.ts` | attempt counter, last observation | `observeUntil`, `waitFor*`, `waitUntilAccepted`, `requestOrContinueDelete` | a verdict is about the last observation; outages are waited out |
| inventory pagination, `lifecycle.ts` | items read, page number, total | `paginate` | an inventory that is returned is complete |
| recovery by name and replacement planning, `src/src/internal/identity.ts` and every `diff` | none | `replacement`, `requireRecoveryOwnership`, name lookups | a replacement is really a new resource, and nothing is orphaned |
| RDS instance, `src/src/rds/instance.ts` | in the cloud; saved id and inputs | reconcile (18 steps), delete (3 steps) | one purchase, no second paid resize, no foreign instance touched |
| vSwitch, `src/src/vpc/vswitch.ts` | one semaphore per VPC, in memory | reconcile, delete | creations exclude each other; stragglers are waited for |
| Tair instance, `src/src/tair/instance.ts` | as RDS, two inventories | reconcile, delete | one purchase; a delete ends nothing but the saved identity; a billed instance is seen released |
| ECS instance, disk, attachment, key pair, `src/src/ecs` | saved ids; running or stopped | reconcile, delete | a machine stopped for a resize runs again; its disk outlives it |
| ACK cluster, node pool, add-on, `src/src/ack` | saved ids; tasks of the cloud | reconcile, delete | one cluster and pool without an idempotency token; every category of the settings in force; the cluster outlives what is in it |
| VPC network, EIP, NAT gateway, SNAT, associations, `src/src/vpc` | saved ids | reconcile, delete | dependencies drain in order |
| RAM role, policy, attachment; accounts, databases, privileges and address lists of RDS and Tair; ACR namespace, repository, link, ACL entry; security groups, rules, key pairs | saved names; what the cloud shows of them, passwords excepted | diff, read, reconcile, delete | a name is no permission; the child of two parents and a rule grant access anew before they take it away (an ACR ACL entry is removed and created again, `acr/endpoint-acl-entry.ts:136-144`); what is half done is taken up again |
| developer allowlist, `packages/rds-access/src/access.ts` | the developer's group on an instance | `refresh`, `revoke`, `plan` | a command that reports success tells the truth, although laptops share the group and writes land late |
| gateway onboarding, `packages/rds-access/src/gateway` | a password file; the rest in the cloud and the database | `plan`, `apply`: peering, routes, allowlist group, account, grants | one plan carried out while others change things: no path of others is shadowed, success means connected, a rerun completes what an interrupted run began |
| protocol simulator, `src/src/protocol` | a simulated account | RPC handlers | it answers as Alibaba does; here it is the reference for the cloud's rules |
| clients, provider registry, command line, examples, scripts | none | pure wiring and I/O | not modelled |

How they interact: the engine calls a handler with the desired inputs (`news`),
the saved inputs (`olds`) and the saved attributes (`output`).  A handler
observes (through `observeUntil`, whose reads are `retryingSdkCall`s), sends at
most one mutating request at a time, waits, and returns attributes that the
engine saves.  Fibers of different resources run concurrently in one process
and share only the cloud and, for vSwitches, a semaphore per VPC.  A control
plane accepts a request, then runs a task; its inventories lag behind it.

The behaviours that are hard: a purchase whose answer is lost (money is spent
and nobody knows the identity); a request that lands after the fiber that sent
it was interrupted, since an Effect interruption does not cancel an SDK
promise; a crash after the write and before the save; saved inputs that are
stale because the reconcile that changed the cloud never returned; a name that
is not an identity; deletions refused while another task runs; inventories that
change under a reader; nested retry loops whose budgets multiply.

`PROJECT.json` lists each hazard at its line with the properties that cover it,
and the components with their status.


## 2. The modules

| module | models | how |
|---|---|---|
| `CloudErrors` | `error.ts` | an error is a code class and an HTTP status class; every retry and recovery predicate is an operator over the two |
| `ObserveLoop` | `observeUntil`, `waitFor`, `waitForPresent`, `waitForAbsent` around `retryingSdkCall` | two nested loops, one action per answer, failure, expired budget and sleep; the cloud drifts meanwhile |
| `BoundedWait` | the contract of a wait | the verdict is about the cloud as it is at the step that ends the wait; `ObserveLoop` refines it |
| `Paginate` | `paginate` | one action per page; items appear and disappear between pages |
| `RdsInstance` | `rds/instance.ts` reconcile and delete, and what makes the engine reconcile | one action per SDK call or wait, `pc` names the call |
| `TairInstance` | `tair/instance.ts` reconcile and delete, and what makes the engine reconcile | the same, with overview, inventory and detail reads that may disagree and the recycle bin |
| `VSwitch` | `vpc/vswitch.ts` reconcile and delete | concurrent fibers, a permit per VPC, process deaths |
| `Children` | RAM, the sub-resources of RDS and Tair, ACR, security groups with their rules, key pairs: diff, read, reconcile, delete of seventeen resources | the steps handlers are made of, then every provider written with them; a stack of at most two parents and a child that ties them; the engine's plan and its delete-last replacements |
| `Allowlist` | `packages/rds-access/src/access.ts`, `alibaba.ts` | laptops of one developer, one action per call; a write comes into force when RDS gets to it |
| `EcsCompute` | `ecs/instance.ts`, `ecs/disk.ts`, `ecs/disk-attachment.ts`: diff, reconcile, delete | three fibers over one cloud whose tasks take time; one action per SDK call or wait |
| `Connectivity` | `vpc/network.ts`, `vpc/nat-gateway.ts`, `vpc/eip.ts`, `vpc/eip-association.ts`, `vpc/snat-entry.ts`: diff, reconcile, delete | five fibers that wait for each other's outputs, over one cloud with the simulator's dependency refusals; a binding is looked at once and the request to undo it repeated; the engine's plan, its delete-first and delete-last replacements |
| `AckCluster` | `ack/managed-cluster.ts`, `ack/node-pool.ts`, `ack/addon.ts`, `ack/task.ts`: diff, read, reconcile, delete | three fibers, the pool and the addon in the cluster; every change is a task that may fail; no creation tokens |
| `Onboarding` | `packages/rds-access/src/gateway`: secret file, discovery, plan, application | one process per operator, one action per reading, request or wait; console changes and deaths between any two |
| `Replacement` | `identity.ts` `replacement`, the diffs, and how the engine drives a replacement | a kind record per replacement policy: how the outgoing name is guarded, which create-only settings reconcile compares before it answers |
| `*Proofs` | | theorems, each module EXTENDS the one it is about; `LifecycleAndAccessProofs` is about what has no resource of its own: `ObserveLoop`, `Paginate` and `Replacement`, `Onboarding` and `Allowlist` |
| `MC*` | | constants for TLC; `MCLifecycle` holds three specifications and `MCRdsAccess` two, and each lets every behaviour be of one of them |

State and code.  In the handler modules `pc` is the program counter of a
handler (which SDK call is next), `cur` the physical identity it holds, `seen`
its last copy of the instance, and `left` the observations left in a bounded
loop.  `output`, `olds`, `news` and `intent` belong to the engine.  `inst` (or
`sw`) is the truth in the cloud, `listed` and `dark` what its read APIs make of
it, and `late` the requests whose SDK promise outlived its Effect.  A handler
that fails or dies goes to `idle` and loses `cur`, `seen` and `left`: that is
all that an Effect failure, a rejected engine step and a killed process have in
common, so they share one action.

Whether a reconcile is called at all is the engine's decision, with `diff`.  In
`RdsInstance` and `TairInstance` a reconcile is `Due` while an earlier one has
`begun` and not returned, or the inputs differ from the saved ones.  The RDS
diff also looks at the instance, at its specification and configuration only
(`rds/instance.ts:644`): a deployment of unchanged inputs may find them changed
and reconcile (`Redeploy`).  The Tair diff compares inputs alone
(`tair/instance.ts:592-613`).  `touched` records that somebody changed the
instance after the last reconcile began.

The cloud's rules (what a client token, a status or a protection flag makes it
answer) are external: they follow the protocol simulator `src/src/protocol`, and
the map says so where there is no line to point at.

`Children` needs less: a handler observes what it is about to change, so `pc`,
the truth in the cloud and the saved outputs are its whole state.  A resource is
known by `Key`, its generated name; a privilege, an attachment and a rule have
none, and are known by the names of what they tie, or by their content.  What an
update may change of a resource is one revision, and the revision 3 is what
somebody else made of it.  `Recovered` is `read` before a plan, `Outdated` the
diffs that ask for a replacement, `Begin` what the engine makes of a diff.

A wait inside a handler is one step: the observation that ends it.  That is
justified by `ObserveLoop!ImplementsContract`: earlier observations of a wait
change nothing, and its verdict is about the cloud at its last step.

Operators under a comment "Faulty:" are not part of any specification.  Each is
a plausible mistake in the operator after it; substituting it must make TLC
find the property paired with it in `PROJECT.json` violated.

## 3. The runs

| run | question | result |
|---|---|---|
| `lifecycle` | can an outage strand a wait, does it report the truth; how much can a listing lose; do both loops end; is a replacement safe for every kind but those of network, vSwitch and Tair instance? | holds |
| `rds` | crashes, lost answers, edits, console changes, late requests, releases: one purchase, no namesake touched, no repeated resize; a reconcile that succeeds in the end, with the instance as desired unless it was changed after that reconcile began; a destroy that ends | holds |
| `tair` | the same for Tair, with contradictory reads and the recycle bin; no delete ends a namesake | holds |
| `vswitch` | two fibers that want one name: is the exclusive API respected, is one vSwitch bought, does a failure keep a permit, does a destroy outwait its attachments? | holds |
| `ecs` | a machine, its disk and their attachment in concurrent fibers: is the machine ever bought twice, left stopped, left without a group; does the disk grow, and outlive the machine; does every deployment and destroy end? | holds |
| `connectivity` | outbound networking in five concurrent fibers: is anything bought twice, does a deployment that ends leave a working path, does any other step take one away, does a handler that sees a binding of somebody else begin to undo it, does every deployment and destroy end? | holds |
| `replace_eip` | does the replacement of an address alone end? | violated: association and SNAT entry wait for each other |
| `ack` | a cluster, a node pool and an addon, bought without tokens and changed by tasks that may fail: is anything bought twice, is every setting in force when a deployment ends, does the cluster go last, does every deployment and destroy end? | holds |
| `children` | eight compositions of the smaller resources: is a success one, is what others own left alone, does the child of two parents or of a group ever lose access on the way, does every deployment and destroy end? | holds |
| `rds_access` | two operators and a console: is a path of others shadowed, is a run that reports success right, does a rerun succeed in the end?  Two laptops of one developer: is a reported success true? | holds |
| `replace_bare` | is a replacement safe for network, vSwitch and Tair instance, which have no guard and compare none (Tair) or some (network, vSwitch) of the create-only settings before they answer? | violated: a new generation adopts the outgoing one under its unchanged name, saves it and then deletes it |
| `replace_pinned` | does the guard keep a new generation from answering with the outgoing identity? | violated: it compares requested names, not the name in use |

The three violations are findings; `PROJECT.json` quotes the documents they
contradict.  The kind of `replace_bare` compares one of two settings; one that
compares none has all its behaviours and more, so the trace is one of Tair too.
`lifecycle` exempts from `ReplacementSurvives` what
`replace_pinned` shows: a plan that gives the name in use to the new generation
while the requested names differ (`pinned`).  Two ways lead there: a generated
name that is written out (`rds/instance.ts:643`, `ack/managed-cluster.ts:469`),
and a name that is left out, which keeps the one in use (`vpc/eip.ts:172`), and
is then asked for again.  Three more divergences have no run of their own.  `README.md:16-18`
promises to reconcile "from the observed resource", but `rds/instance.ts:924`
decides from the saved inputs whether to write the default whitelist: an edit
whose reconcile dies after the write, and that is then taken back, leaves the
abandoned whitelist in force (`RdsInstance!WhitelistChanged`).
`lifecycle.ts:171-174` calls the loop exhaustive, and `LossIsBounded` is the
strongest property that holds, for an item that disappears between two pages
hides another one.  And `COMPOSITION.md:34` says of a missing saved identity
"never switch to a namesake", which `TairInstance!Observed` does, as
`tair/instance.ts:416` tells it to: `NamesakesAreNotEnded` says what is left,
that delete never ends the namesake while the saved identity is another one.

`EventuallySettled` of `rds` and `tair` promises the instance as desired to a
stack whose last reconcile nobody interfered with.  A protection that is
switched, a whitelist or a name that is changed, or a release by hand after that
reconcile began stays as it is: `diff` does not look there, and no deployment is
due.  That state shows as `touched`.

`ForeignBindingKept` of `connectivity` is about what a handler can see.  Between
its look at a binding (`eip-association.ts:130`, `193`) and the requests that
follow, which are repeated up to `wait.attempts` times without another look, the
address may be given to somebody else.  A request that was decided upon before
that may then undo the other binding, for the cloud does not ask which instance
the request names (`protocol/vpc-connectivity.ts:122-130`).  The property says
that no request is decided upon while the binding is somebody else's, and that
nothing but such an earlier request undoes it.

`connectivity` exempts three cases from `EventuallySettled`, by name.  An address
that now belongs to somebody else is left alone.  `Stranded` is the state that
`replace_eip` reaches.  `Orphaned`: a gateway, an address or an entry was deleted
by hand, and its successor bought or bound by a run that never returned, so that
no saved output names it; a destroy then compares with the old output
(`eip-association.ts:193`) and the remaining deletions are refused.  For the same
reason `OneOfEach` excepts the `Successor` of something an operator deleted: the
run that buys it may die before it saves it, and a later edit that moves the
gateway then begins a generation that never looks for it.  It takes three
disturbances.  `DestroyLeavesNothing` excepts an address that was bought so, for
no output of the destroy names it.

`ack` exempts two cases from `EventuallySettled`, by name.  `Stillborn`: a
cluster or pool whose creation task failed keeps its name, is found by it in the
next run and waited for until a person removes it.  `Unnoticed`: `diff` says
nothing about a cluster that is gone (`managed-cluster.ts:481`), so no plan makes
another one and what is to be in it fails.  Its other properties except what was
deleted by hand (`released`): a saved identity that is gone hides the name under
which an interrupted run bought the successor (`managed-cluster.ts:369`), and
that one is bought again.

`children` exempts from `EventuallySettled` what its two definitions name.
`Stranded`: a privilege or an attachment whose parent is replaced has unresolved
inputs, so its diff answers nothing (`rds/account-privilege.ts:184`,
`ram/role-policy-attachment.ts:56`) and the engine updates it in place; the
former tie is then on no record, and the old account or role cannot be deleted
while it is there.  `SUPPORT-MATRIX.md:216-217` says "Deletion is state-driven,
with attribute dependencies ordering children before parents"; here the child
that would have to go first is the one that was forgotten.  `NeedsPerson`: something of
others depends on what is to be deleted, a name is taken, a key pair was
exchanged for one of another owner (`ecs/key-pair.ts:196-204` refuses other key
material), a managed rule was
changed (`drift` stops the run, on purpose), PostgreSQL cannot revoke a
privilege, or a Tair list holds other addresses than were saved with it: it is
deleted by the saved ones (`tair/security-ip-group.ts:181`), never becomes
absent, and the delete gives up in every run.  Its safety properties say less
about two things.  A resource in `touched` was changed where its diff does not
look (the diffs of RDS, Tair and ACR compare inputs only), or it is an account
whose password was changed by a run that never saved it and then changed back:
the settings in force are then not those of the stack, with nothing to show it.
And a repository whose move between namespaces was interrupted after its
creation is on no record under the former key (`acr/repository.ts:126`).

`ReportHolds` of `rds_access` is about a laptop that was not overtaken: no other
write was sent after its command began, and none was on its way then.  Without
that there is no such property, for a write that timed out at its sender may
come into force at any time (`alibaba.ts:175` does not repeat it for that
reason), and the group has no owner but the last writer.

`rds_access` exempts four cases from `EventuallyOnboarded`, by name (their union
is `NeedsPerson`).  `Ambiguous`: two operators each created a peering, on
readings that did not show the other's; `planPeering` then refuses to choose.
`Obstructed`: a route of somebody else, or one whose peering was deleted, leads
to the host; `planRoute` refuses to shadow it.  `EmptySecret`: a writer died
between creating the password file and writing it (`writeFile` is two system
calls); a rerun reads an empty file as none, cannot create it, and fails.  And an
account whose password is not the file's is never given another one.

### Bounds

- Disturbances (crashes, lost calls, edits, console changes, lapses of the read
  APIs) are capped by `MaxUpsets` or by the field `upsets` of a setup; steps of
  handlers, engine, tasks and inventories never are.  Two are enough for every
  pair of accidents, such as a lost create followed by a crash, and each
  property's mutant is caught within them.
- Three identities: the instance, its unsaved replacement, and a namesake.
  Which unused identity a purchase gets is immaterial, so `RdsInstance` and
  `TairInstance` take a fixed one.
- `Setup` lists the circumstances of a run; `setup` picks one at the start.
  Circumstances that do not interact are kept apart to keep the runs short.
- Two desired inputs that differ in every field.
- `EcsCompute` has two desired types, images and disk sizes, and four identities
  each for machines and disks, more than any run within the bound uses.  An edit
  resizes machine and disk together (the case in which their fibers collide),
  replaces the machine, or replaces the disk.  Its safety properties also hold
  with three disturbances (about 530 000 states, too long for a regular run);
  `EventuallySettled` does not: an operator who attaches a disk by hand while
  the run that buys it has not returned makes that run wait for a free disk that
  never comes, and it takes two such interventions and a released machine.
- `Connectivity` has two vSwitches for the gateway, two ways to bill the address,
  edits that change neither, either or both, and four identities of each kind.
  Its safety properties are proved for any number of disturbances; the run has
  two, which `EventuallySettled` can afford.
- `AckCluster` has three clusters and four pools, three disturbances, and edits
  that change edition and protection together (the categories that the API does
  not take in one request), the version, or pool and addon.
- `Children` has every composition, and two disturbances among crashes, lost
  answers, edits of names or settings, early ends of waits and console changes:
  enough for an edit and one accident in it, or two accidents of one
  deployment.  A stack has one resource of each kind; that a kind occurs twice
  in one stack adds only what `Replacement` says about names.
- `Allowlist` has two laptops and three commands or console changes: two that
  collide and one that comes after.  Both its theorems are for any number.
- `Onboarding` has two operators, of whom one lacks `--create-peering` and the
  admin account, three peerings and one disturbance, since two processes
  already interleave everywhere.  Its type and safety properties also hold with
  two disturbances (3.2 million states, too long for a regular run).
- `ObserveLoop` has three attempts of two calls.  Its properties are proved for
  all budgets.  `VSwitch` has two resources of one name in one VPC, the case
  in which only the second observation keeps them apart; what concerns other
  names and more fibers is proved.  `Replacement` has three generations: one to be replaced, its
  successor, and one more that finds what both left; of its two create-only
  settings network and vSwitch compare one.  `Paginate` has five
  items, pages of two and a limit of three pages, so that the limit is met.

### Fairness

A handler step, a task of the cloud, the inventory and a late request each make
progress (weak fairness): the Effect runtime schedules its fibers, every call is
answered, rejected or cut off by `withinSafeRetryBudget`, and the engine is
assumed to be run again after a failure or an edit.  Disturbances, namesakes,
edits, failing pages and deployments of unchanged inputs that were already
reconciled (`Redeploy`) are never forced.  In `EcsCompute` each of the three handlers is
scheduled fairly on its own, for they are fibers; so are the five of
`Connectivity` and the three each of `AckCluster` and `Children`.  `EventuallySettled` excludes
what the code leaves to a person: a protected machine, and a replaced disk that
is still attached although no saved attachment says so.  In `Onboarding` the processes keep
running, the operator with the full options runs the command again after every
run, and a peering that is being created becomes active or waits for an
acceptance; `--help` and `README.md:137` of the package call the rerun safe.
`LoopsEnd` assumes that the loop of a wait is scheduled and that pages keep
being answered.  `vswitch` and `connectivity` also assume that stragglers drain.

`CHECK_DEADLOCK FALSE` is set because a finished wait, a settled deployment and
a completed destroy are ends of their stories.

## 4. What is proved

`tlapm` proves, for every value of the constants:

- **LifecycleAndAccessProofs**, about `ObserveLoop`: `ObserveTypeCorrect`,
  `NeverStrandedByOutage`, `VerdictJustified`, `CallsBounded` and the refinement
  `LoopImplementsContract`.  The invariant `LoopInv` adds to the three safety
  properties that a pending outcome goes with a running loop; `CallInv` bounds
  the calls by the attempts begun and the retries used.  Assumptions: `Absent`
  is no value, `Pending` no verdict, `Attempts` an integer, `Retries` a natural.
  About `Paginate`: `ReadTypeCorrect` and `LossBounded`, for any finite set of
  items and any sizes.  `LossIsBounded` speaks of the end of a read; `ReadInv`
  speaks of its middle: only full pages were read, so the position follows from
  the page number, and the lasting items listed before that position which were
  not read are no more than the removals.
  About `Replacement`: `NoOrphanedGeneration`, for every kind of provider, and
  `SafeReplacement`, for every set of kinds without an unguarded one, both for
  any names, settings and number of generations.  Nothing is assumed of the
  names: a plan that pins a name in use is exempt in the property itself, and
  `replace_pinned` shows what becomes of it.  The inductive invariant says which
  identities may be up in each phase and under which name, and that the
  outgoing one can be found by the new generation (`Exposed`) only if the plan
  pinned its name or the kind has no guard.
  About `Onboarding`: `TypeCorrect`, `PathsKept` and `AppliedIsOnboarded`, for any number of operators, peerings and console
  changes.  `NothingShadowed` speaks of one step only; `RouteInv` carries what
  the plan knows across the wait for the peering: a table that is still to get a
  route has no way to the host, or has a host route (and the cloud refuses
  another), or was changed since it was read.  `OrderInv` adds that a process is
  at the routes only while some are left.  The theorem rests on the refusal of a
  second host route by the cloud, which is an assumption about it.
  `AppliedMeansOnboarded` needs `KnownInv`: at every step the run knows about
  what it has passed (peering, routes, allowlist group, account, grants) that it
  is there or was changed behind the run's back; a step of another operator
  `Respects` that.  `SecretInv` says the same of the password file.  The mark of
  an empty file is assumed to be no operator.
  About `Allowlist`: `AccessTypeCorrect` and `ReportsHold`, for any number of
  laptops, commands and console changes.  `ReportHolds` is not inductive: a
  write of another laptop could be on its way.  `AloneInv` says that a laptop
  which was not overtaken has all the writes that are, so what comes into force
  is its own address.  A step that reads keeps the invariant if it succeeds
  only on what it has read, which is one lemma for six actions.
- **VSwitchProofs.** `TypeCorrect`, `MutualExclusion`, `CreatesAreAccepted` and
  `NamesAreUnique`, for any number of fibers, names and VPCs.  `CreatesExclude`
  alone is not inductive: `LockInv` adds that a fiber inside `withPermits` finds
  its permit taken.  `NoRefusedCreate` needs that a Pending vSwitch of a VPC in
  which nothing was abandoned belongs to the fiber in the critical section, and
  that a late request implies an abandoned creation.  `OnePerName` needs
  `NameInv`: a fiber that is about to create finds no vSwitch of its name but
  its own, which the second observation, made under the permit, establishes.
- **RdsInstanceProofs.** `TypeCorrect`, `OnePurchase`, `OthersUntouched`,
  `OneResize` and `DestroyIsComplete`, for any identities, inputs, setups and
  bounds.  One invariant carries all of them, in five parts.  `EngineInv`: one
  handler at a time, and a delete works on the saved identity.  `CloudInv`: an
  identity is somebody else's, nobody's yet, or bears this resource's token, and
  of the last sort at most one is alive, which is what the token buys.
  `OwnInv`: past its ownership check a handler works on an instance of its own,
  and so does every late request; without it a step says nothing about
  namesakes.  `SpecInv`: the copy on which a resize is decided is not outdated
  when it is ordered.  `GoneInv`: where nothing is released by hand and nothing
  is late there is one purchase.  `Gentle` sums up what a step may do to the
  cloud, and the parts follow from it for almost every action.
- **TairInstanceProofs.** `TypeCorrect`, `OnePurchase`, `OthersNotEnded` and
  `DestroyIsComplete`, for any finite set of identities.  `LateInv` says that a
  request which ends an instance belongs to a destroy and names the saved
  identity, also when it is late.  `GoneInv` says what the overview has proved
  once it shows nothing, across the two reads that follow.  `TokenInv` and the
  lemma `TokenIsFresh` show that the model's fresh tokens do not run out: there
  are more tokens than requests that can bear one (a pigeonhole argument, the
  reason for the finiteness assumption).
- **EcsComputeProofs.** `TypeCorrect`, `OnePurchase`, `AlwaysGrouped`,
  `DisksOutlive` and `SuccessIsReal`, for any machines, disks, groups, edits and number of
  disturbances.  `PurchaseInv` says what each reading of the machine's handler
  is worth: the one that is about to look has only the saved machine to find,
  the one that is about to buy only what its own lost request bought, and that
  one bears the generation's token.  `GenInv` bounds the generations by the
  disturbances, and type correctness already needs it.  `NeverWithoutGroup`
  rests on every desired type asking for a group (`GroupAssumption`), which
  `ecs/instance.ts` requires of its inputs.  `KeepInv`: a disk that would go
  with its machine was attached so by an operator.  `SuccessMeansDone` needs
  `DoneInv`.  Its `PhaseInv` orders the three handlers, which run side by side.
  `VmInv` and `FitInv` say that no machine is there but the saved one, unless an
  operator released that, and that a machine made to fit fits until touched.
  For the disks `GenerationInv` has one live disk per generation, and `LeftInv`
  every live disk either saved, or on its way out, or about to be saved, or the
  successor of one that an operator had disappear; `DiskHold` is what the disk's
  handler knows at each of its steps.  `TiedInv` and `AttInv` keep what the
  attachment reported until somebody touches it.  A step of one handler is summed
  up for the other two (`Mild`, `Slack`, `Outlived`, `VmApart`, `DiskApart`,
  `AttApart`).  The proof corrected the property: with four disturbances, which
  the run does not reach, a disk that nobody knows of survives a destroy.  An
  operator lets the machine take its disk along, the run that buys the successor
  never saves it, and a change of zone begins a generation of its own.
  `DestroyLeavesNothing` therefore exempts that disk (`Successor`) and no other.
  Assumption: identities of machines and disks are distinct (they begin with
  `i-` and `d-`).
- **ConnectivityProofs.** `TypeCorrect`, `BoughtOnce`, `SuccessIsReal`,
  `EgressIsKept` and `ForeignIsKept`, for any gateways, addresses, entries, edits
  and number of disturbances.  `Line` is what gateways, addresses and entries
  have in common: one live thing per generation, and besides the present one only
  the one to be deleted last or the successor of what an operator deleted; a
  saved one that is not live was deleted by an operator or is on its way out.
  Its lemmas (`LineAges`, `LineBirth`, `LineSave`, `LineTurn`, ...) serve the
  three alike.  `CloudInv` is the order the cloud keeps by what it refuses: an
  entry uses an address that is bound to the gateway it is in, and a gateway that
  is bound is in service.  `EgressIsKept` and half of `SuccessIsReal` rest on it:
  an entry that is available works.  `OrderInv` orders the five handlers, which
  run side by side; `NatHold`, `EipHold` and `SnatHold` say what each knows at
  each of its steps, `NetInv` that the network outlasts the gateways, and
  `FitInv` that what the entry's handler reported holds until somebody touches
  it.  A step of one handler is summed up for the others (`NatLeaves`,
  `EipLeaves`, `Turn`, `Rebinds`), and every plan is one lemma (`Replans`).
  `ForeignIsKept` goes the other way: a binding of somebody else survives every
  step of the association's handler but a request on its way (`AttStepSpares`),
  and the look that leads to a request found the association's own binding
  (`NobodyTurnsOnThem`).  The
  proof corrected the model: generations are unbounded, and the exceptions named
  in section 3 are the states in which the properties, as they were first
  written, fail beyond the bounds of the run.  Assumption: identities of
  different kinds differ (they begin with `ngw-`, `eip-` and `snat-`).
- **AckClusterProofs.** `TypeCorrect`, `OnePurchase`, `SuccessIsReal` and
  `ChildrenFirst`, for any clusters, pools, edits and number of disturbances.
  A creation has no token, so that there is one of each follows from the reading
  before it: `ClusterInv`, `PoolInv` and `AddonInv` say what every step of a
  handler knows of the cloud (what it is about to create is not there, what it
  goes on with is, what it deleted is not).  `SavedInv` relates outputs to the
  cloud, `PhaseInv` orders the three handlers, and `SingleInv` is the property
  with what an operator deleted excepted.  `ClusterDone`, `PoolDone` and
  `AddonDone` keep what a success said until somebody changes it.  `Keeps` sums
  up a step of one handler for the other two.  Assumption: cluster and pool
  identities are distinct (they begin with `c-` and `np-`).
- **ChildrenProofs.** `TypeCorrect`, `OthersAreKept`, `AccessIsKept` and
  `SuccessIsReal`, for any choice among the eight compositions and any number of
  disturbances.  Its first part reduces the seventeen providers to a few forms of
  a step (`Known`: compare, begin a replacement, look up, work, confirm, drop,
  see gone), one lemma per operation of a provider; everything after it is about
  the forms.  `Inv` is the order of the handlers and of the records (`OrderInv`,
  `RecordInv`), what may be in the cloud under a name (`CloudInv`), and that
  every generation was paid for by a disturbance (`CountInv`), which type
  correctness already needs.  `OthersKept` adds `OwnedInv`: between the look-up
  and the request that relies on it, what has the name stays this stack's.
  `AccessKept` needs all of `Strong`, for a child is interrupted through its
  parents: `DoneOrder` says that a child is worked on only while its parents are
  done, `GroundInv` that a child in the cloud has its parents there, ready and on
  record, `PlaceInv` where the child on record is while a parent of it is being
  replaced, and `GoodInv` that what is done has what was asked for unless
  somebody changed it, secrets no read shows included.  `SuccessMeansDone`
  speaks of what is not on record; `LineInv`, `FollowInv` and `RuleInv` say that
  no earlier generation of a parent, no child of one and no outdated rule is ever
  left behind unrecorded.  An operator's changes need no exception there, as an
  earlier form of the property had it.  The proof corrected the model: what
  another owner removes by hand goes with what is bound to it, and an operator
  deletes only what the cloud lets go.  The repository that section 3 exempts is
  the only exception.  Assumption: `None` is no output.

The other assumptions on constants are that a mark such as `None`, `NoId` or
`NoWanted` is no identity or input, that switches are Boolean and that bounds are
naturals.

Only model-checked: every liveness property (the prover has no fairness), which
is `EventuallySettled` of every module, `LoopsEnd` and `ReplacementEnds`.  Every
invariant and every action property of a passing run is proved.  The type
invariants of all modules are proved and not repeated in runs, and so are
`CreatesExclude`, `VerdictJustified` and `CallBudget`.

## 5. Plan

1. `Connectivity` and `VSwitch` composed: the teardown order of a whole VPC.
2. `waitUntilAccepted` and `requestOrContinueDelete` as loops of their own
   beside `observeUntil`, as the handlers that use them have them now.

## 6. Not modelled

Request and response formats, redaction, configuration parsing, the command
line beyond the choice of a command, the examples and the release scripts: they
keep no state that outlives a call.  `list` changes nothing.  A kubeconfig is
decoded from one read, RRSA turns an issuer into a trust policy, and the
Kubernetes secret and the ACR image are handed to providers of the engine.  Of
the network its attributes and tags are left out.  Adoption of resources that
are not owned (`Unowned`) is the engine's; a handler relies on it where it does
not ask itself: the security group's reconcile takes what `find` finds under its
name (`ecs/security-group.ts:122`) without `requireRecoveryOwnership`, because
the engine has refused an unowned one at `read`, so a namesake that appears
between the two is outside the model.  The ACR link's
`enablePrivateZoneRecord` asks for a replacement under the same key
(`acr/vpc-endpoint-link.ts:98`); that is the policy of `replace_bare` and is not
repeated in `Children`, whose replacements have names of their own.
