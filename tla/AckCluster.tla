----------------------------- MODULE AckCluster -----------------------------
(***************************************************************************)
(* A managed cluster, a node pool and an addon in it (src/src/ack/         *)
(* managed-cluster.ts, node-pool.ts, addon.ts, task.ts): three handlers in *)
(* fibers of their own.  The pool and the addon wait for the cluster, the  *)
(* deletion of the cluster waits for theirs.  Creations carry no token and *)
(* are sent once: a name is all that recovers one whose answer was lost.   *)
(* Every change runs as a task of the cloud that may fail, and until it    *)
(* ends the cloud refuses the next one.                                    *)
(*                                                                         *)
(* Abstractions.  A wait is the single observation that ends it (see       *)
(* ObserveLoop), and a wait for a task is one with the wait that follows.  *)
(* Of the settings there remain the edition, the deletion protection (it   *)
(* stands for the whole configuration, some of which only ModifyCluster    *)
(* takes), the version, the size of the pool, the version and the          *)
(* configuration of the addon.  Namesakes of other owners are those of     *)
(* RdsInstance.  The cloud follows src/src/protocol/world.ts and           *)
(* roa-resources.ts, with tasks that take time.                            *)
(***************************************************************************)
EXTENDS Naturals, FiniteSetsExt

CONSTANTS
    Cid, Pid,          \* identities: clusters and node pools
    None,              \* undefined
    Edits,             \* the changes one deployment can make together
    MaxUpsets          \* bound on crashes, lost answers, failed tasks, edits,
                       \* console changes

Change == {"spec", "guard", "version", "size", "addon"}

\* The ids of clusters begin with c-, those of pools with np-: `released` holds both.
ASSUME IdAssumption == Cid \cap Pid = {} /\ None \notin Cid \cup Pid
ASSUME EditsAssumption == Edits \in SUBSET SUBSET Change
ASSUME BoundAssumption == MaxUpsets \in Nat

VARIABLES
    cluster, pool, addon,   \* the cloud
    want,          \* the desired settings
    dirty,         \* settings whose desired value differs from the saved input
    gen,           \* instanceId of the engine: the generation of the pool
    saved,         \* output of the three resources
    destroying,    \* the stack is being destroyed
    pc,            \* the step of every handler
    cur,           \* what the handlers hold: identities, and the calls that
                   \* the last observation of the cluster showed to be needed
    touched,       \* history: console changes since this deployment began
    released,      \* history: clusters and pools an operator deleted
    upsets         \* disturbances so far

cloud == <<cluster, pool, addon>>
engine == <<want, dirty, gen, saved, destroying>>
history == <<touched, released>>
vars == <<cloud, engine, pc, cur, history, upsets>>

Res == {"cluster", "pool", "addon"}
Choice == {1, 2}
Status == {"unborn", "creating", "running", "busy", "deleting", "failed", "gone"}

\* goal is what the present task leads to; broken: the last task failed.
Settings == [spec : Choice, guard : BOOLEAN, version : Choice]
Clusters == [status : Status, is : Settings, goal : Settings, tagged : BOOLEAN, broken : BOOLEAN]
Pools == [status : Status, in : Cid \cup {None}, gen : 0..MaxUpsets, size : Choice,
          goal : Choice, tagged : BOOLEAN, broken : BOOLEAN]
Addons == [status : Status, version : Choice, goal : Choice, tuned : BOOLEAN, broken : BOOLEAN]

Live(thing) == thing.status \notin {"unborn", "gone"}
Busy(thing) == thing.status \in {"creating", "busy", "deleting"}
LiveCluster == { c \in Cid : Live(cluster[c]) }
LivePool == { p \in Pid : Live(pool[p]) }
PoolsIn(c) == { p \in LivePool : pool[p].in = c }

Rest == {"idle", "planned", "failed", "done", "gone"}
Step == Rest \cup {"observe", "create", "created", "act", "modified", "final",
                   "dRead", "dUnguarded", "dDelete", "dAbsent"}

Sound == [spec |-> 1, guard |-> FALSE, version |-> 1]

Init ==
    /\ cluster = [c \in Cid |-> [status |-> "unborn", is |-> Sound, goal |-> Sound,
                                 tagged |-> TRUE, broken |-> FALSE]]
    /\ pool = [p \in Pid |-> [status |-> "unborn", in |-> None, gen |-> 0, size |-> 1,
                              goal |-> 1, tagged |-> TRUE, broken |-> FALSE]]
    /\ addon = [c \in Cid |-> [status |-> "unborn", version |-> 1, goal |-> 1,
                               tuned |-> TRUE, broken |-> FALSE]]
    /\ want = [spec |-> 1, guard |-> TRUE, version |-> 1, size |-> 1, addon |-> 1]
    /\ dirty = {"guard"}
    /\ gen = 0
    /\ saved = [cluster |-> None, pool |-> None, addon |-> None]
    /\ destroying = FALSE
    /\ pc = [r \in Res |-> "idle"]
    /\ cur = [cluster |-> None, pool |-> None, todo |-> {}]
    /\ touched = FALSE
    /\ released = {}
    /\ upsets = 0

Upset == upsets < MaxUpsets /\ upsets' = upsets + 1
Calm == UNCHANGED upsets

-----------------------------------------------------------------------------
(* The cloud (external). *)

SetCluster(c, thing) == cluster' = [cluster EXCEPT ![c] = thing] /\ UNCHANGED <<pool, addon>>
SetPool(p, thing) == pool' = [pool EXCEPT ![p] = thing] /\ UNCHANGED <<cluster, addon>>
SetAddon(c, thing) == addon' = [addon EXCEPT ![c] = thing] /\ UNCHANGED <<cluster, pool>>

Runs(c) == c \in Cid /\ cluster[c].status = "running"

\* A cluster takes everything in it along.
RemoveCluster(c) ==
    /\ cluster' = [cluster EXCEPT ![c].status = "gone"]
    /\ pool' = [p \in Pid |-> IF p \in PoolsIn(c) THEN [pool[p] EXCEPT !.status = "gone"]
                              ELSE pool[p]]
    /\ addon' = [addon EXCEPT ![c].status = "gone"]

Begin(thing, status) == [thing EXCEPT !.status = status, !.broken = FALSE]

TaskEnds ==
    /\ \/ \E c \in Cid :
            /\ Busy(cluster[c])
            /\ IF cluster[c].status = "deleting" THEN RemoveCluster(c)
               ELSE SetCluster(c, [cluster[c] EXCEPT !.status = "running", !.is = cluster[c].goal])
       \/ \E p \in Pid :
            /\ Busy(pool[p])
            /\ SetPool(p, IF pool[p].status = "deleting" THEN [pool[p] EXCEPT !.status = "gone"]
                          ELSE [pool[p] EXCEPT !.status = "running", !.size = pool[p].goal,
                                               !.tagged = TRUE])
       \/ \E c \in Cid :
            /\ Busy(addon[c])
            /\ SetAddon(c, IF addon[c].status = "deleting" THEN [addon[c] EXCEPT !.status = "gone"]
                           ELSE [addon[c] EXCEPT !.status = "running", !.version = addon[c].goal,
                                                 !.tuned = TRUE])
    /\ UNCHANGED <<engine, pc, cur, history, upsets>>

\* A cluster or a pool whose creation failed stays; an addon does not.
TaskFails ==
    /\ Upset
    /\ \/ \E c \in Cid :
            /\ Busy(cluster[c])
            /\ SetCluster(c, [cluster[c] EXCEPT
                    !.status = IF @ = "creating" THEN "failed" ELSE "running",
                    !.goal = cluster[c].is, !.broken = TRUE])
       \/ \E p \in Pid :
            /\ Busy(pool[p])
            /\ SetPool(p, [pool[p] EXCEPT
                    !.status = IF @ = "creating" THEN "failed" ELSE "running",
                    !.goal = pool[p].size, !.broken = TRUE])
       \/ \E c \in Cid :
            /\ Busy(addon[c])
            /\ SetAddon(c, [addon[c] EXCEPT
                    !.status = IF @ = "creating" THEN "gone" ELSE "running",
                    !.goal = addon[c].version, !.broken = TRUE])
    /\ UNCHANGED <<engine, pc, cur, history>>

\* An operator deletes something, or changes a setting or a tag.
Console ==
    /\ Upset
    /\ \/ \E c \in LiveCluster :
            \/ ~cluster[c].is.guard /\ RemoveCluster(c)
            \/ /\ Runs(c)
               /\ \/ SetCluster(c, [cluster[c] EXCEPT !.is.guard = ~@, !.goal.guard = ~@])
                  \/ SetCluster(c, [cluster[c] EXCEPT !.tagged = FALSE])
       \/ \E p \in LivePool :
            /\ pool[p].status = "running"
            /\ \/ SetPool(p, [pool[p] EXCEPT !.status = "gone"])
               \/ SetPool(p, [pool[p] EXCEPT !.size = 3 - @, !.goal = 3 - @])
               \/ SetPool(p, [pool[p] EXCEPT !.tagged = FALSE])
       \/ \E c \in Cid :
            /\ addon[c].status = "running"
            /\ \/ SetAddon(c, [addon[c] EXCEPT !.status = "gone"])
               \/ SetAddon(c, [addon[c] EXCEPT !.tuned = FALSE])
    /\ touched' = TRUE
    /\ released' = released \cup (LiveCluster \ LiveCluster') \cup (LivePool \ LivePool')
    /\ UNCHANGED <<engine, pc, cur>>

-----------------------------------------------------------------------------
(* Steps of a handler. *)

Goto(r, step) == pc' = [pc EXCEPT ![r] = step]

\* The handler ends, and its local variables with it.
End(r, step) ==
    /\ Goto(r, step)
    /\ cur' = [x \in DOMAIN cur |->
                 IF x = r THEN None ELSE IF x = "todo" /\ r = "cluster" THEN {} ELSE cur[x]]

Fail(r) == End(r, "failed")
Proceed(r, step) == Goto(r, step) /\ Calm /\ UNCHANGED cur

\* sdkCall: one request, granted, refused, or lost on the way there or back.
Once(r, allowed, effect, next) ==
    \/ allowed /\ effect /\ (Proceed(r, next) \/ (Upset /\ Fail(r)))
    \/ ~allowed /\ Fail(r) /\ Calm /\ UNCHANGED cloud
    \/ Upset /\ Fail(r) /\ UNCHANGED cloud

\* retryingSdkCall: a lost answer makes the request be repeated, unless the
\* retries run out.
Lost(r) == Upset /\ (UNCHANGED <<pc, cur>> \/ Fail(r))

\* requestOrContinueDelete: what is refused because it is over is no error.
Continue(r, allowed, over, effect, next) ==
    \/ allowed /\ effect /\ (Proceed(r, next) \/ Lost(r))
    \/ ~allowed /\ over /\ Proceed(r, next) /\ UNCHANGED cloud
    \/ ~allowed /\ ~over /\ Fail(r) /\ Calm /\ UNCHANGED cloud
    \/ Lost(r) /\ UNCHANGED cloud

\* The observation that ends a wait; that it came too early for a task of the
\* cloud is a disturbance.
Late(ready, thing) == ~ready /\ IF Busy(thing) THEN Upset ELSE Calm

-----------------------------------------------------------------------------
(* Managed cluster *)

\* The calls of reconcile, in their order.
Edition == 1
Configuration == 2
Upgrade == 3
Tags == 4

\* A category is written when its input changed, even if it already matches.
Needed(c) == { i \in Edition..Tags :
    \/ i = Edition /\ ("spec" \in dirty \/ cluster[c].is.spec # want.spec)
    \/ i = Configuration /\ ("guard" \in dirty \/ cluster[c].is.guard # want.guard)
    \/ i = Upgrade /\ cluster[c].is.version # want.version
    \/ i = Tags /\ ~cluster[c].tagged }

Matches(c) == /\ cluster[c].is.spec = want.spec
              /\ cluster[c].is.guard = want.guard
              /\ cluster[c].is.version = want.version

\* Faulty: diff compares the inputs alone.
PlanClusterBlind ==
    /\ pc.cluster \in {"idle", "planned"} /\ ~destroying
    /\ Goto("cluster", IF pc.cluster = "planned" THEN "done" ELSE "observe")
    /\ UNCHANGED <<cloud, engine, cur, history, upsets>>

\* diff: a cluster that is gone, or whose tags differ, is no reason to update.
PlanCluster ==
    /\ pc.cluster \in {"idle", "planned"} /\ ~destroying
    /\ Goto("cluster", IF /\ pc.cluster = "planned"
                          /\ (saved.cluster \in LiveCluster => Matches(saved.cluster))
                       THEN "done" ELSE "observe")
    /\ UNCHANGED <<cloud, engine, cur, history, upsets>>

\* Faulty: no lookup by name.
FoundClusterById == LiveCluster \cap {saved.cluster}

\* observe: the saved identity alone, or the name.
FoundCluster == IF saved.cluster # None THEN LiveCluster \cap {saved.cluster} ELSE LiveCluster

\* What the handler goes on with after an observation.
Examine(c, from) ==
    /\ cur' = [cur EXCEPT !.cluster = c, !.todo = { i \in Needed(c) : i >= from }]
    /\ Goto("cluster", "act")

ObserveCluster ==
    /\ pc.cluster = "observe"
    /\ IF Cardinality(FoundCluster) > 1 THEN Fail("cluster")
       ELSE IF FoundCluster = {} THEN Goto("cluster", "create") /\ UNCHANGED cur
       ELSE \E c \in FoundCluster : Examine(c, Edition)
    /\ UNCHANGED <<cloud, engine, history, upsets>>

CreateCluster ==
    LET c == CHOOSE d \in Cid : cluster[d].status = "unborn"
        bought == [spec |-> want.spec, guard |-> want.guard, version |-> want.version]
        new == [status |-> "creating", is |-> bought, goal |-> bought,
                tagged |-> TRUE, broken |-> FALSE] IN
    /\ pc.cluster = "create" /\ \E d \in Cid : cluster[d].status = "unborn"
    /\ \/ /\ SetCluster(c, new)
          /\ \/ cur' = [cur EXCEPT !.cluster = c] /\ Goto("cluster", "created") /\ Calm
             \/ Upset /\ Fail("cluster")
       \/ Upset /\ Fail("cluster") /\ UNCHANGED cloud
    /\ UNCHANGED <<engine, history>>

\* waitForTask, waitForPresent.
AwaitCreated ==
    LET c == cur.cluster
        ready == Runs(c) /\ ~cluster[c].broken IN
    /\ pc.cluster = "created"
    /\ \/ ready /\ Calm /\ Examine(c, Edition)
       \/ Late(ready, cluster[c]) /\ Fail("cluster")
    /\ UNCHANGED <<cloud, engine, history>>

\* The wait after a category: until what was written matches.
AwaitModified ==
    LET c == cur.cluster
        i == Min(cur.todo)
        ready == /\ Runs(c) /\ ~cluster[c].broken
                 /\ IF i = Edition THEN cluster[c].is.spec = want.spec
                    ELSE cluster[c].is.guard = want.guard IN
    /\ pc.cluster = "modified" /\ i # Upgrade
    /\ \/ ready /\ Calm /\ Examine(c, i + 1)
       \/ Late(ready, cluster[c]) /\ Fail("cluster")
    /\ UNCHANGED <<cloud, engine, history>>

\* Faulty: edition and configuration in one request, of which the cloud takes
\* the edition only.
ModifyTogether ==
    LET c == cur.cluster IN
    /\ pc.cluster = "act" /\ cur.todo # {} /\ Min(cur.todo) \in {Edition, Configuration}
    /\ Once("cluster", Runs(c),
            SetCluster(c, [Begin(cluster[c], "busy") EXCEPT !.goal.spec = want.spec]),
            "modified")
    /\ UNCHANGED <<engine, history>>

\* One category per request: of a request with both the cloud takes one.
ModifyCluster ==
    LET c == cur.cluster IN
    /\ pc.cluster = "act" /\ cur.todo # {}
    /\ \/ /\ Min(cur.todo) = Edition
          /\ Once("cluster", Runs(c),
                  SetCluster(c, [Begin(cluster[c], "busy") EXCEPT !.goal.spec = want.spec]),
                  "modified")
       \/ /\ Min(cur.todo) = Configuration
          /\ Once("cluster", Runs(c),
                  SetCluster(c, [Begin(cluster[c], "busy") EXCEPT !.goal.guard = want.guard]),
                  "modified")
    /\ UNCHANGED <<engine, history>>

UpgradeCluster ==
    LET c == cur.cluster IN
    /\ pc.cluster = "act" /\ cur.todo # {} /\ Min(cur.todo) = Upgrade
    /\ Once("cluster", Runs(c),
            SetCluster(c, [Begin(cluster[c], "busy") EXCEPT !.goal.version = want.version]),
            "modified")
    /\ UNCHANGED <<engine, history>>

\* waitForTask alone: the tags are then compared as they were observed before.
AwaitUpgrade ==
    LET c == cur.cluster
        ended == ~Busy(cluster[c]) /\ ~cluster[c].broken IN
    /\ pc.cluster = "modified" /\ Min(cur.todo) = Upgrade
    /\ \/ /\ ended /\ Calm
          /\ cur' = [cur EXCEPT !.todo = @ \ {Upgrade}] /\ Goto("cluster", "act")
       \/ Late(ended, cluster[c]) /\ Fail("cluster")
    /\ UNCHANGED <<cloud, engine, history>>

SyncTags ==
    LET c == cur.cluster IN
    /\ pc.cluster = "act" /\ cur.todo = {Tags}
    /\ \/ /\ c \in LiveCluster
          /\ SetCluster(c, [cluster[c] EXCEPT !.tagged = TRUE])
          /\ \/ cur' = [cur EXCEPT !.todo = {}] /\ Calm /\ UNCHANGED pc
             \/ Lost("cluster")
       \/ c \notin LiveCluster /\ Fail("cluster") /\ Calm /\ UNCHANGED cloud
       \/ Lost("cluster") /\ UNCHANGED cloud
    /\ UNCHANGED <<engine, history>>

FinalCluster ==
    LET c == cur.cluster
        fits == Runs(c) /\ Matches(c) /\ cluster[c].tagged IN
    /\ pc.cluster = "act" /\ cur.todo = {}
    /\ \/ /\ fits /\ Calm /\ End("cluster", "done")
          /\ saved' = [saved EXCEPT !.cluster = c]
          /\ dirty' = dirty \ {"spec", "guard"}
       \/ Late(fits, cluster[c]) /\ Fail("cluster") /\ UNCHANGED <<saved, dirty>>
    /\ UNCHANGED <<cloud, want, gen, destroying, history>>

StartDeleteCluster ==
    /\ destroying /\ pc.cluster = "idle" /\ pc.pool = "gone" /\ pc.addon = "gone"
    /\ cur' = [cur EXCEPT !.cluster = saved.cluster] /\ Goto("cluster", "dRead")
    /\ UNCHANGED <<cloud, engine, history, upsets>>

\* A cluster that was never created needs no task to lose its protection.
Unguarded(thing) ==
    IF thing.status = "failed" THEN [thing EXCEPT !.is.guard = FALSE, !.broken = FALSE]
    ELSE [Begin(thing, "busy") EXCEPT !.goal.guard = FALSE]

\* Protection is lifted first; one that is on its way out is waited for.
DisableProtection ==
    LET c == cur.cluster IN
    /\ pc.cluster = "dRead"
    /\ IF c \notin LiveCluster THEN End("cluster", "gone") /\ Calm /\ UNCHANGED cloud
       ELSE IF cluster[c].status = "deleting"
       THEN Proceed("cluster", "dAbsent") /\ UNCHANGED cloud
       ELSE IF ~cluster[c].is.guard THEN Proceed("cluster", "dDelete") /\ UNCHANGED cloud
       ELSE Continue("cluster", cluster[c].status \in {"running", "failed"}, FALSE,
                     SetCluster(c, Unguarded(cluster[c])), "dUnguarded")
    /\ UNCHANGED <<engine, history>>

AwaitUnguarded ==
    LET c == cur.cluster
        ended == ~Busy(cluster[c]) /\ ~cluster[c].broken IN
    /\ pc.cluster = "dUnguarded"
    /\ \/ ended /\ Proceed("cluster", IF c \in LiveCluster THEN "dDelete" ELSE "dAbsent")
       \/ Late(ended, cluster[c]) /\ Fail("cluster")
    /\ UNCHANGED <<cloud, engine, history>>

DeleteCluster ==
    LET c == cur.cluster IN
    /\ pc.cluster = "dDelete"
    /\ Continue("cluster",
                cluster[c].status \in {"running", "failed"} /\ ~cluster[c].is.guard,
                ~Live(cluster[c]) \/ cluster[c].status = "deleting",
                SetCluster(c, Begin(cluster[c], "deleting")), "dAbsent")
    /\ UNCHANGED <<engine, history>>

\* Faulty: a deletion that was accepted counts as done.
ClusterAbsentHastily ==
    /\ pc.cluster = "dAbsent"
    /\ End("cluster", "gone") /\ Calm
    /\ UNCHANGED <<cloud, engine, history>>

ClusterAbsent ==
    LET c == cur.cluster
        absent == c \notin LiveCluster IN
    /\ pc.cluster = "dAbsent"
    /\ \/ absent /\ Calm /\ End("cluster", "gone")
       \/ Late(absent, cluster[c]) /\ Fail("cluster")
    /\ UNCHANGED <<cloud, engine, history>>

ClusterStep ==
    \/ PlanCluster \/ ObserveCluster \/ CreateCluster \/ AwaitCreated
    \/ ModifyCluster \/ AwaitModified \/ UpgradeCluster \/ AwaitUpgrade \/ SyncTags \/ FinalCluster
    \/ StartDeleteCluster \/ DisableProtection \/ AwaitUnguarded
    \/ DeleteCluster \/ ClusterAbsent

-----------------------------------------------------------------------------
(* Node pool *)

PoolFits(p) == pool[p].size = want.size /\ pool[p].tagged

\* diff: a pool of another cluster is replaced; in a cluster that is gone the
\* old one needs no deletion.
PlanPool ==
    /\ pc.pool \in {"idle", "planned"} /\ pc.cluster = "done" /\ ~destroying
    /\ IF saved.pool # None /\ pool[saved.pool].in # saved.cluster
       THEN /\ saved' = [saved EXCEPT !.pool = None]
            /\ gen' = gen + 1
            /\ Goto("pool", "observe")
       ELSE /\ Goto("pool", IF /\ pc.pool = "planned"
                               /\ saved.pool \in LivePool => pool[saved.pool].size = want.size
                            THEN "done" ELSE "observe")
            /\ UNCHANGED <<saved, gen>>
    /\ UNCHANGED <<cloud, want, dirty, destroying, cur, history, upsets>>

\* observe: the saved identity alone, or the name, in this cluster.
FoundPool == IF saved.pool # None THEN LivePool \cap {saved.pool}
             ELSE { p \in PoolsIn(saved.cluster) : pool[p].gen = gen }

ObservePool ==
    /\ pc.pool = "observe"
    /\ IF Cardinality(FoundPool) > 1 THEN Fail("pool")
       ELSE IF FoundPool = {} THEN Goto("pool", "create") /\ UNCHANGED cur
       ELSE \E p \in FoundPool :
              /\ cur' = [cur EXCEPT !.pool = p]
              /\ Goto("pool", IF PoolFits(p) /\ "size" \notin dirty THEN "final" ELSE "act")
    /\ UNCHANGED <<cloud, engine, history, upsets>>

CreateClusterNodePool ==
    LET p == CHOOSE q \in Pid : pool[q].status = "unborn"
        new == [status |-> "creating", in |-> saved.cluster, gen |-> gen, size |-> want.size,
                goal |-> want.size, tagged |-> TRUE, broken |-> FALSE] IN
    /\ pc.pool = "create" /\ \E q \in Pid : pool[q].status = "unborn"
    /\ \/ /\ Runs(saved.cluster) /\ SetPool(p, new)
          /\ \/ cur' = [cur EXCEPT !.pool = p] /\ Goto("pool", "created") /\ Calm
             \/ Upset /\ Fail("pool")
       \/ ~Runs(saved.cluster) /\ Fail("pool") /\ Calm /\ UNCHANGED cloud
       \/ Upset /\ Fail("pool") /\ UNCHANGED cloud
    /\ UNCHANGED <<engine, history>>

AwaitPool ==
    LET p == cur.pool
        ready == pool[p].status = "running" /\ ~pool[p].broken IN
    /\ pc.pool = "created"
    /\ \/ ready /\ Proceed("pool", IF PoolFits(p) /\ "size" \notin dirty THEN "final" ELSE "act")
       \/ Late(ready, pool[p]) /\ Fail("pool")
    /\ UNCHANGED <<cloud, engine, history>>

\* Size and tags in one request.
ModifyClusterNodePool ==
    LET p == cur.pool IN
    /\ pc.pool = "act"
    /\ Once("pool", pool[p].status = "running" /\ Runs(pool[p].in),
            SetPool(p, [Begin(pool[p], "busy") EXCEPT !.goal = want.size]), "final")
    /\ UNCHANGED <<engine, history>>

FinalPool ==
    LET p == cur.pool
        fits == pool[p].status = "running" /\ PoolFits(p) IN
    /\ pc.pool = "final"
    /\ \/ /\ fits /\ Calm /\ End("pool", "done")
          /\ saved' = [saved EXCEPT !.pool = p]
          /\ dirty' = dirty \ {"size"}
       \/ Late(fits, pool[p]) /\ Fail("pool") /\ UNCHANGED <<saved, dirty>>
    /\ UNCHANGED <<cloud, want, gen, destroying, history>>

StartDeletePool ==
    /\ destroying /\ pc.pool = "idle"
    /\ cur' = [cur EXCEPT !.pool = saved.pool] /\ Goto("pool", "dRead")
    /\ UNCHANGED <<cloud, engine, history, upsets>>

\* Faulty: a pool that is being deleted counts as gone.
DeletePoolHastily ==
    LET p == cur.pool IN
    /\ pc.pool = "dRead"
    /\ IF p \notin LivePool \/ pool[p].status = "deleting"
       THEN End("pool", "gone") /\ Calm /\ UNCHANGED cloud
       ELSE Continue("pool", pool[p].status \in {"running", "failed"} /\ Runs(pool[p].in),
                     FALSE, SetPool(p, Begin(pool[p], "deleting")), "dAbsent")
    /\ UNCHANGED <<engine, history>>

DeleteClusterNodepool ==
    LET p == cur.pool IN
    /\ pc.pool = "dRead"
    /\ IF p \notin LivePool THEN End("pool", "gone") /\ Calm /\ UNCHANGED cloud
       ELSE IF pool[p].status = "deleting" THEN Proceed("pool", "dAbsent") /\ UNCHANGED cloud
       ELSE Continue("pool", pool[p].status \in {"running", "failed"} /\ Runs(pool[p].in),
                     FALSE, SetPool(p, Begin(pool[p], "deleting")), "dAbsent")
    /\ UNCHANGED <<engine, history>>

PoolAbsent ==
    LET p == cur.pool
        absent == p \notin LivePool IN
    /\ pc.pool = "dAbsent"
    /\ \/ absent /\ Calm /\ End("pool", "gone")
       \/ Late(absent, pool[p]) /\ Fail("pool")
    /\ UNCHANGED <<cloud, engine, history>>

PoolStep ==
    \/ PlanPool \/ ObservePool \/ CreateClusterNodePool \/ AwaitPool
    \/ ModifyClusterNodePool \/ FinalPool
    \/ StartDeletePool \/ DeleteClusterNodepool \/ PoolAbsent

-----------------------------------------------------------------------------
(* Addon: known by its cluster and its name alone *)

AddonFits(c) == addon[c].version = want.addon /\ addon[c].tuned

\* diff: an addon of another cluster is replaced; nothing else is compared.
PlanAddon ==
    /\ pc.addon \in {"idle", "planned"} /\ pc.cluster = "done" /\ ~destroying
    /\ IF saved.addon = saved.cluster
       THEN Goto("addon", IF pc.addon = "planned" THEN "done" ELSE "observe") /\ UNCHANGED saved
       ELSE Goto("addon", "observe") /\ saved' = [saved EXCEPT !.addon = None]
    /\ UNCHANGED <<cloud, want, dirty, gen, destroying, cur, history, upsets>>

ObserveAddon ==
    LET c == saved.cluster IN
    /\ pc.addon = "observe"
    /\ Goto("addon", IF ~Live(addon[c]) THEN "create"
                     ELSE IF AddonFits(c) THEN "final" ELSE "act")
    /\ UNCHANGED <<cloud, engine, cur, history, upsets>>

InstallClusterAddons ==
    LET c == saved.cluster IN
    /\ pc.addon = "create"
    /\ Once("addon", Runs(c) /\ ~Live(addon[c]),
            SetAddon(c, [status |-> "creating", version |-> want.addon, goal |-> want.addon,
                         tuned |-> TRUE, broken |-> FALSE]), "final")
    /\ UNCHANGED <<engine, history>>

\* Another version takes the configuration along; a configuration alone is
\* written at once.
UpgradeClusterAddons ==
    LET c == saved.cluster IN
    /\ pc.addon = "act"
    /\ \/ /\ addon[c].version # want.addon
          /\ Once("addon", Runs(c) /\ addon[c].status = "running",
                  SetAddon(c, [Begin(addon[c], "busy") EXCEPT !.goal = want.addon]), "final")
       \/ /\ addon[c].version = want.addon
          /\ Once("addon", Runs(c) /\ addon[c].status = "running",
                  SetAddon(c, [addon[c] EXCEPT !.tuned = TRUE]), "final")
    /\ UNCHANGED <<engine, history>>

FinalAddon ==
    LET c == saved.cluster
        fits == addon[c].status = "running" /\ AddonFits(c) IN
    /\ pc.addon = "final"
    /\ \/ /\ fits /\ Calm /\ Goto("addon", "done")
          /\ saved' = [saved EXCEPT !.addon = c]
       \/ Late(fits, addon[c]) /\ Goto("addon", "failed") /\ UNCHANGED saved
    /\ UNCHANGED <<cloud, want, dirty, gen, destroying, cur, history>>

StartDeleteAddon ==
    /\ destroying /\ pc.addon = "idle"
    /\ Goto("addon", IF saved.addon = None THEN "gone" ELSE "dRead")
    /\ UNCHANGED <<cloud, engine, cur, history, upsets>>

UnInstallClusterAddons ==
    LET c == saved.addon IN
    /\ pc.addon = "dRead"
    /\ IF ~Live(addon[c]) THEN Proceed("addon", "gone") /\ UNCHANGED cloud
       ELSE IF addon[c].status = "deleting" THEN Proceed("addon", "dAbsent") /\ UNCHANGED cloud
       ELSE Continue("addon", addon[c].status = "running" /\ Runs(c), FALSE,
                     SetAddon(c, Begin(addon[c], "deleting")), "dAbsent")
    /\ UNCHANGED <<engine, history>>

AddonAbsent ==
    LET absent == ~Live(addon[saved.addon]) IN
    /\ pc.addon = "dAbsent"
    /\ \/ absent /\ Proceed("addon", "gone")
       \/ Late(absent, addon[saved.addon]) /\ Fail("addon")
    /\ UNCHANGED <<cloud, engine, history>>

AddonStep ==
    \/ PlanAddon \/ ObserveAddon \/ InstallClusterAddons \/ UpgradeClusterAddons
    \/ FinalAddon \/ StartDeleteAddon \/ UnInstallClusterAddons \/ AddonAbsent

-----------------------------------------------------------------------------
(* The engine and the process (external). *)

AtRest == \A r \in Res : pc[r] \in Rest
AllDone == \A r \in Res : pc[r] = "done"
AllGone == \A r \in Res : pc[r] = "gone"
Ran == AllDone \/ \E r \in Res : pc[r] = "failed"

One(S) == IF S = {} THEN None ELSE CHOOSE i \in S : TRUE

\* Before a plan, `read` looks for what has no saved output.
Recovered ==
    LET c == One(FoundCluster)
        known == [saved EXCEPT !.cluster = IF @ # None THEN @ ELSE c]
        p == One({ q \in LivePool : pool[q].in = known.cluster /\ pool[q].gen = gen }) IN
    [known EXCEPT !.pool = IF @ # None THEN @ ELSE p,
                  !.addon = IF @ # None THEN @
                            ELSE IF known.cluster # None /\ Live(addon[known.cluster])
                            THEN known.cluster ELSE None]

\* A run of the plan: what failed is run again, what was done is compared, and
\* what has other inputs is updated.
Plan(changes) ==
    LET updated == { r \in Res : \/ r = "cluster" /\ changes \cap {"spec", "guard", "version"} # {}
                                 \/ r = "pool" /\ "size" \in changes
                                 \/ r = "addon" /\ "addon" \in changes } IN
    /\ saved' = Recovered
    /\ pc' = [r \in Res |-> IF pc[r] = "failed" \/ r \in updated THEN "idle"
                            ELSE IF pc[r] = "done" THEN "planned" ELSE pc[r]]
    /\ touched' = FALSE

Rerun ==
    /\ AtRest /\ \E r \in Res : pc[r] = "failed"
    /\ IF destroying
       THEN /\ pc' = [r \in Res |-> IF pc[r] = "failed" THEN "idle" ELSE pc[r]]
            /\ UNCHANGED <<saved, touched>>
       ELSE Plan({})
    /\ UNCHANGED <<cloud, want, dirty, gen, destroying, cur, released, upsets>>

\* The stack is deployed again, possibly with other settings; a version is
\* never taken back.
Edit(changes) ==
    /\ Upset /\ AtRest /\ Ran /\ ~destroying
    /\ "version" \in changes => want.version = 1
    /\ want' = [want EXCEPT !.spec = IF "spec" \in changes THEN 3 - @ ELSE @,
                            !.guard = IF "guard" \in changes THEN ~@ ELSE @,
                            !.version = IF "version" \in changes THEN 2 ELSE @,
                            !.size = IF "size" \in changes THEN 3 - @ ELSE @,
                            !.addon = IF "addon" \in changes THEN 3 - @ ELSE @]
    /\ dirty' = LET edited == changes \cap {"spec", "guard", "size"} IN
                (dirty \ edited) \cup (edited \ dirty)
    /\ Plan(changes)
    /\ UNCHANGED <<cloud, gen, destroying, cur, released>>

Destroy ==
    /\ AtRest /\ Ran /\ ~destroying
    /\ destroying' = TRUE
    /\ saved' = Recovered
    /\ pc' = [r \in Res |-> "idle"]
    /\ UNCHANGED <<cloud, want, dirty, gen, cur, history, upsets>>

ProcessDies ==
    /\ Upset /\ ~AtRest
    /\ pc' = [r \in Res |-> IF pc[r] \in Rest THEN pc[r] ELSE "failed"]
    /\ cur' = [cluster |-> None, pool |-> None, todo |-> {}]
    /\ UNCHANGED <<cloud, engine, history>>

-----------------------------------------------------------------------------
Disturbance ==
    \/ TaskFails \/ Console \/ Destroy \/ ProcessDies
    \/ \E changes \in Edits : Edit(changes)

Next == ClusterStep \/ PoolStep \/ AddonStep \/ Rerun \/ TaskEnds \/ Disturbance

Spec == Init /\ [][Next]_vars

\* Every handler keeps running, a failed run is repeated, tasks end.
FairSpec ==
    /\ Spec
    /\ WF_vars(ClusterStep) /\ WF_vars(PoolStep) /\ WF_vars(AddonStep)
    /\ WF_vars(Rerun) /\ WF_vars(TaskEnds)

-----------------------------------------------------------------------------
TypeOK ==
    /\ cluster \in [Cid -> Clusters] /\ pool \in [Pid -> Pools] /\ addon \in [Cid -> Addons]
    /\ want \in [spec : Choice, guard : BOOLEAN, version : Choice, size : Choice, addon : Choice]
    /\ dirty \in SUBSET {"spec", "guard", "size"}
    /\ gen \in 0..MaxUpsets
    /\ saved \in [cluster : Cid \cup {None}, pool : Pid \cup {None}, addon : Cid \cup {None}]
    /\ destroying \in BOOLEAN /\ touched \in BOOLEAN
    /\ pc \in [Res -> Step]
    /\ cur \in [cluster : Cid \cup {None}, pool : Pid \cup {None}, todo : SUBSET (1..4)]
    /\ released \in SUBSET (Cid \cup Pid)
    /\ upsets \in 0..MaxUpsets

\* "Name lookup is the only way to recover a cluster orphaned by an
\* interrupted create": whatever answers were lost and wherever a run died,
\* no second cluster is bought, and no second pool in it.  Only when something
\* was deleted by hand does its saved identity hide the name of the successor.
OneCluster ==
    /\ Cardinality(LiveCluster) > 1 => released \cap Cid # {}
    /\ \A c \in Cid : Cardinality(PoolsIn(c)) > 1 => \E p \in released \cap Pid : pool[p].in = c

\* Children are deleted before the cluster: it is never asked to go while a
\* pool or the addon is still there, even if its deletion failed or the run
\* that created it never returned.
ClusterOutlivesChildren ==
    [][\A c \in Cid :
         cluster[c].status # "deleting" /\ cluster'[c].status = "deleting" =>
            /\ \A p \in PoolsIn(c) : released # {}
            /\ ~Live(addon[c])]_vars

\* A deployment that ends well, and that nobody interfered with, leaves the
\* cluster, the pool in it and the addon as desired, every category of the
\* settings included.  It does not notice what was deleted by hand before it.
DeployedMeansConfigured ==
    (AllDone /\ ~touched /\ saved.cluster \notin released) =>
       /\ Runs(saved.cluster) /\ Matches(saved.cluster)
       /\ addon[saved.cluster].version = want.addon
       /\ \/ saved.pool \in released
          \/ pool[saved.pool].in = saved.cluster /\ pool[saved.pool].size = want.size

\* A destroy that ended has deleted the cluster and all that was in it,
\* protected or not; again with the exception of what succeeded a cluster that
\* was deleted by hand.
DestroyLeavesNothing ==
    AllGone => LiveCluster = {} \/ released \cap Cid # {}

\* The two successes together, a deployment's and a destroy's.
SuccessMeansDone == DeployedMeansConfigured /\ DestroyLeavesNothing

\* What the cloud failed to create stays as it is until a person removes it.
Stillborn ==
    ~destroying /\ \/ \E c \in Cid : cluster[c].status = "failed"
                   \/ \E p \in Pid : pool[p].status = "failed"

\* A cluster was deleted by hand, and no later plan sees a reason to make
\* another one: everything that is to be in it fails.
Unnoticed == ~destroying /\ saved.cluster \in released \ LiveCluster

\* After the disturbances every deployment and every destroy ends, wherever
\* the previous one died.  What was stillborn or removed needs a person.
EventuallySettled == <>[](AllDone \/ AllGone \/ Stillborn \/ Unnoticed)
=============================================================================
