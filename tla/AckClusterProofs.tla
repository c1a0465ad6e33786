-------------------------- MODULE AckClusterProofs --------------------------
(***************************************************************************)
(* Proofs about AckCluster, for any sets of clusters and pools, any edits  *)
(* and any number of disturbances: the state is well typed, an interrupted *)
(* creation leads to no second cluster and no second pool, the cluster     *)
(* outlives what is in it, and an ended deployment or destroy has done     *)
(* what it says.                                                           *)
(***************************************************************************)
EXTENDS AckCluster, FiniteSetTheorems, TLAPS

\* The steps of a deployment's handler, and those of a destroy's.
Making == {"observe", "create", "created", "act", "modified", "final"}
Deleting == {"dRead", "dUnguarded", "dDelete", "dAbsent"}

\* The pool and the addon are made when the cluster is done, and the cluster
\* is deleted when they are gone.
PhaseInv ==
    /\ destroying => \A r \in Res : pc[r] \in {"idle", "failed", "gone"} \cup Deleting
    /\ ~destroying => \A r \in Res : pc[r] \notin {"gone"} \cup Deleting
    /\ \A r \in {"pool", "addon"} : pc[r] \in Making \cup {"done"} => pc.cluster = "done"
    /\ pc.cluster \in {"gone"} \cup Deleting => pc.pool = "gone" /\ pc.addon = "gone"

\* Nothing is in a cluster that is not there, nothing that was saved or
\* released is unborn, and only a destroy deletes.
CloudInv ==
    /\ \A p \in LivePool : pool[p].in \in LiveCluster
    /\ \A c \in Cid : Live(addon[c]) => Live(cluster[c])
    /\ \A c \in Cid : c = saved.cluster \/ c \in released => cluster[c].status # "unborn"
    /\ \A p \in Pid : p = saved.pool \/ p \in released => pool[p].status # "unborn"
    /\ \A c \in Cid : cluster[c].status = "deleting" => destroying
    /\ \A p \in Pid : pool[p].status = "deleting" => destroying

PoolReleased(c) == \E p \in released \cap Pid : pool[p].in = c

\* While nobody deleted anything by hand there is one of each.
SingleInv ==
    /\ released \cap Cid = {} => \A c, d \in LiveCluster : c = d
    /\ \A c \in Cid : (\A p, q \in PoolsIn(c) : p = q) \/ PoolReleased(c)

\* What the outputs say of what there is.
SavedInv ==
    /\ ~destroying =>
         /\ saved.cluster # None => saved.cluster \in LiveCluster \cup released
         /\ saved.pool # None => saved.pool \in LivePool \cup released
         /\ \A p \in LivePool : pool[p].in = saved.cluster /\ pool[p].gen = gen
         /\ saved.pool # None /\ pool[saved.pool].in # saved.cluster => LivePool = {}
         /\ \A c \in Cid : Live(addon[c]) => c = saved.cluster /\ saved.addon \in {None, c}
    /\ destroying =>
         /\ released \cap Cid = {} => LiveCluster \subseteq {saved.cluster}
         /\ released = {} => LivePool \subseteq {saved.pool}
         /\ \A c \in Cid : Live(addon[c]) => c = saved.addon

\* A generation of the pool is begun for a cluster that was deleted by hand.
GenInv ==
    /\ gen <= upsets
    /\ /\ ~destroying /\ saved.pool # None
       /\ pool[saved.pool].in # saved.cluster \/ saved.cluster \notin LiveCluster
       => gen < upsets

\* What a handler is about to create is not there, what it goes on with is,
\* and what it has deleted is not.
ClusterInv ==
    /\ pc.cluster = "create" => /\ saved.cluster \notin LiveCluster
                                /\ released \cap Cid = {} => LiveCluster = {}
    /\ pc.cluster \in {"created", "act", "modified"} =>
         /\ cur.cluster \in Cid /\ cluster[cur.cluster].status # "unborn"
         /\ cur.cluster # saved.cluster => saved.cluster \notin LiveCluster
    /\ pc.cluster \in Deleting => cur.cluster = saved.cluster
    /\ pc.cluster = "gone" /\ released \cap Cid = {} => LiveCluster = {}

PoolInv ==
    /\ pc.pool \in Making \cup {"done"} =>
         saved.pool = None \/ pool[saved.pool].in = saved.cluster
    /\ pc.pool = "create" => LivePool = {} \/ PoolReleased(saved.cluster)
    /\ pc.pool \in {"created", "act", "final"} =>
         /\ cur.pool \in Pid /\ pool[cur.pool].status # "unborn"
         /\ pool[cur.pool].in = saved.cluster
    /\ pc.pool \in Deleting => cur.pool = saved.pool
    /\ pc.pool = "gone" /\ released = {} => LivePool = {}

AddonInv ==
    /\ pc.addon \in Making \cup {"done"} => saved.addon \in {None, saved.cluster}
    /\ pc.addon \in Deleting => saved.addon # None
    /\ pc.addon = "gone" => \A c \in Cid : ~Live(addon[c])

\* What is done runs, unless an operator deleted it, and is as desired, unless
\* an operator changed it.
ClusterDone ==
    /\ pc.cluster \in {"done", "planned"} =>
         saved.cluster # None /\ (saved.cluster \in released \/ Runs(saved.cluster))
    /\ pc.cluster = "done" /\ ~touched /\ saved.cluster \notin released =>
         Matches(saved.cluster)

PoolDone ==
    /\ pc.pool \in {"done", "planned"} =>
         saved.pool # None /\ (saved.pool \in released \/ pool[saved.pool].status = "running")
    /\ pc.pool = "done" /\ ~touched /\ saved.pool \notin released =>
         pool[saved.pool].size = want.size

AddonDone ==
    /\ pc.addon \in {"done", "planned"} =>
         /\ saved.addon # None /\ ~Busy(addon[saved.addon])
         /\ addon[saved.addon].version = want.addon
    /\ pc.addon = "done" => saved.addon = saved.cluster

Inv ==
    /\ TypeOK /\ PhaseInv /\ CloudInv /\ SingleInv /\ SavedInv /\ GenInv
    /\ ClusterInv /\ PoolInv /\ AddonInv /\ ClusterDone /\ PoolDone /\ AddonDone

-----------------------------------------------------------------------------
(* How the handlers move. *)

Held == [cluster : Cid \cup {None}, pool : Pid \cup {None}, todo : SUBSET (1..4)]

\* A handler that stays where it is, with what it holds.
Stays(r) == pc'[r] = pc[r] /\ (r # "addon" => cur'[r] = cur[r])

\* A step of one handler.
Alone(r) ==
    /\ pc' \in [Res -> Step] /\ cur' \in Held
    /\ \A q \in Res : q # r => Stays(q)
    /\ upsets' \in 0..MaxUpsets /\ upsets <= upsets'

\* It goes on to a step, stays or fails; what it holds it holds until it fails.
Moves(r, step) ==
    /\ Alone(r)
    /\ pc'[r] \in {step, pc[r], "failed"}
    /\ UNCHANGED cur \/ pc'[r] = "failed"

LEMMA UpsetType ==
    ASSUME TypeOK, Upset \/ Calm
    PROVE  upsets' \in 0..MaxUpsets /\ upsets <= upsets'
BY BoundAssumption DEF TypeOK, Upset, Calm

LEMMA GotoType ==
    ASSUME TypeOK, NEW r \in Res, NEW step \in Step, Goto(r, step)
    PROVE  pc' \in [Res -> Step] /\ pc'[r] = step /\ \A q \in Res : q # r => pc'[q] = pc[q]
BY DEF TypeOK, Goto

LEMMA CurType == ASSUME TypeOK PROVE cur \in Held
BY DEF TypeOK, Held

LEMMA EndType ==
    ASSUME TypeOK, NEW r \in Res, NEW step \in Step, End(r, step), Upset \/ Calm
    PROVE  Alone(r) /\ pc'[r] = step
<1>1. cur \in Held /\ DOMAIN cur = {"cluster", "pool", "todo"}
  BY DEF TypeOK, Held
<1>2. cur' = [x \in {"cluster", "pool", "todo"} |->
                IF x = r THEN None ELSE IF x = "todo" /\ r = "cluster" THEN {} ELSE cur[x]]
  BY <1>1 DEF End
<1>3. /\ cur' = [cluster |-> cur'.cluster, pool |-> cur'.pool, todo |-> cur'.todo]
      /\ cur'.cluster \in {None, cur.cluster} /\ cur'.pool \in {None, cur.pool}
      /\ cur'.todo \in {{}, cur.todo}
  BY <1>2 DEF Res
<1>4. cur' \in Held
  BY <1>1, <1>3 DEF Held
<1>5. \A q \in Res : q # r /\ q # "addon" => cur'[q] = cur[q]
  BY <1>2 DEF Res
<1> QED BY <1>4, <1>5, GotoType, UpsetType DEF End, Alone, Stays

LEMMA FailMoves ==
    ASSUME TypeOK, NEW r \in Res, NEW step, Fail(r), Upset \/ Calm
    PROVE  Moves(r, step) /\ pc'[r] = "failed"
BY EndType DEF Fail, Moves, Step, Rest

LEMMA ProceedMoves ==
    ASSUME TypeOK, NEW r \in Res, NEW step \in Step, Proceed(r, step)
    PROVE  Moves(r, step) /\ pc'[r] = step /\ UNCHANGED cur
BY GotoType, UpsetType, CurType DEF Proceed, Moves, Alone, Stays

LEMMA LostMoves ==
    ASSUME TypeOK, NEW r \in Res, NEW step, Lost(r)
    PROVE  Moves(r, step)
<1>1. CASE Upset /\ UNCHANGED <<pc, cur>>
  BY <1>1, UpsetType, CurType DEF Moves, Alone, Stays, TypeOK
<1>2. CASE Upset /\ Fail(r)
  BY <1>2, FailMoves
<1> QED BY <1>1, <1>2 DEF Lost

LEMMA OnceMoves ==
    ASSUME TypeOK, NEW r \in Res, NEW STATE allowed, NEW ACTION effect, NEW step \in Step,
           Once(r, allowed, effect, step)
    PROVE  Moves(r, step) /\ ((allowed /\ effect) \/ UNCHANGED cloud)
BY ProceedMoves, FailMoves DEF Once

LEMMA ContinueMoves ==
    ASSUME TypeOK, NEW r \in Res, NEW STATE allowed, NEW STATE over, NEW ACTION effect,
           NEW step \in Step, Continue(r, allowed, over, effect, step)
    PROVE  Moves(r, step) /\ ((allowed /\ effect) \/ UNCHANGED cloud)
BY ProceedMoves, LostMoves, FailMoves DEF Continue

LEMMA LateFails ==
    ASSUME TypeOK, NEW r \in Res, NEW step, NEW ready, NEW thing, Late(ready, thing), Fail(r)
    PROVE  Moves(r, step) /\ pc'[r] = "failed"
BY FailMoves DEF Late

-----------------------------------------------------------------------------
(* What steps do to the cloud. *)

CloudType == cluster \in [Cid -> Clusters] /\ pool \in [Pid -> Pools] /\ addon \in [Cid -> Addons]

\* Nothing comes to life; and nothing is in a cluster that is no longer there.
Wanes ==
    /\ \A c \in Cid :
         /\ Live(cluster'[c]) => Live(cluster[c])
         /\ cluster'[c].status = "unborn" <=> cluster[c].status = "unborn"
         /\ cluster'[c].status = "deleting" => cluster[c].status = "deleting" \/ destroying
         /\ Live(addon'[c]) => Live(addon[c]) /\ (Live(cluster[c]) => Live(cluster'[c]))
    /\ \A p \in Pid :
         /\ Live(pool'[p]) => Live(pool[p])
         /\ Live(pool'[p]) /\ pool[p].in \in LiveCluster => Live(cluster'[pool[p].in])
         /\ pool'[p].status = "unborn" <=> pool[p].status = "unborn"
         /\ pool'[p].status = "deleting" => pool[p].status = "deleting" \/ destroying
         /\ pool'[p].in = pool[p].in /\ pool'[p].gen = pool[p].gen

\* What ceases to be there was deleted by a destroy or by hand.
Excused ==
    /\ \A c \in Cid : Live(cluster[c]) /\ ~Live(cluster'[c]) =>
                        destroying \/ (c \in released' /\ upsets < upsets')
    /\ \A p \in Pid : Live(pool[p]) /\ ~Live(pool'[p]) => destroying \/ p \in released'
    /\ released \subseteq released'
    /\ \A c \in Cid : c \in released' \ released => cluster[c].status # "unborn"
    /\ \A p \in Pid : p \in released' \ released => pool[p].status # "unborn"
    /\ upsets \in Nat /\ upsets' \in Nat /\ upsets <= upsets'

\* A step that neither makes anything nor lets anything go.
Keeps == CloudType' /\ Wanes /\ Excused

LEMMA StillKeeps ==
    ASSUME TypeOK, UNCHANGED <<cloud, released>>, upsets' \in 0..MaxUpsets, upsets <= upsets'
    PROVE  Keeps
<1>1. /\ UNCHANGED <<cluster, pool, addon, released>> /\ CloudType
      /\ upsets \in Nat /\ upsets' \in Nat
  BY BoundAssumption DEF TypeOK, CloudType, cloud
<1> QED BY <1>1 DEF Keeps, Wanes, Excused, CloudType, LiveCluster

LEMMA WriteCluster ==
    ASSUME TypeOK, NEW c, NEW thing, SetCluster(c, thing), UNCHANGED released,
           c \in Cid => /\ thing \in Clusters /\ Live(thing) /\ Live(cluster[c])
                        /\ thing.status = "deleting" => destroying,
           upsets' \in 0..MaxUpsets, upsets <= upsets'
    PROVE  /\ Keeps /\ UNCHANGED <<pool, addon>>
           /\ \A d \in Cid : cluster'[d] = IF d = c THEN thing ELSE cluster[d]
<1>1. CloudType /\ upsets \in Nat /\ upsets' \in Nat
  BY BoundAssumption DEF TypeOK, CloudType
<1>2. UNCHANGED <<pool, addon>> /\ cluster' = [cluster EXCEPT ![c] = thing]
  BY DEF SetCluster
<1>3. /\ \A d \in Cid : cluster'[d] = IF d = c THEN thing ELSE cluster[d]
      /\ CloudType'
  BY <1>1, <1>2 DEF CloudType
<1>4. \A d \in Cid : /\ Live(cluster'[d]) <=> Live(cluster[d])
                     /\ cluster'[d].status = "unborn" <=> cluster[d].status = "unborn"
                     /\ cluster'[d].status = "deleting" => cluster[d].status = "deleting" \/ destroying
  BY <1>3 DEF Live
<1> QED BY <1>1, <1>2, <1>3, <1>4 DEF Keeps, Wanes, Excused, LiveCluster

LEMMA WritePool ==
    ASSUME TypeOK, NEW p, NEW thing, SetPool(p, thing), UNCHANGED released,
           p \in Pid => /\ thing \in Pools /\ Live(thing) /\ Live(pool[p])
                        /\ thing.in = pool[p].in /\ thing.gen = pool[p].gen
                        /\ thing.status = "deleting" => destroying,
           upsets' \in 0..MaxUpsets, upsets <= upsets'
    PROVE  /\ Keeps /\ UNCHANGED <<cluster, addon>>
           /\ \A q \in Pid : pool'[q] = IF q = p THEN thing ELSE pool[q]
<1>1. CloudType /\ upsets \in Nat /\ upsets' \in Nat
  BY BoundAssumption DEF TypeOK, CloudType
<1>2. UNCHANGED <<cluster, addon>> /\ pool' = [pool EXCEPT ![p] = thing]
  BY DEF SetPool
<1>3. /\ \A q \in Pid : pool'[q] = IF q = p THEN thing ELSE pool[q]
      /\ CloudType'
  BY <1>1, <1>2 DEF CloudType
<1>4. \A q \in Pid : /\ Live(pool'[q]) <=> Live(pool[q])
                     /\ pool'[q].status = "unborn" <=> pool[q].status = "unborn"
                     /\ pool'[q].status = "deleting" => pool[q].status = "deleting" \/ destroying
                     /\ pool'[q].in = pool[q].in /\ pool'[q].gen = pool[q].gen
  BY <1>3 DEF Live
<1> QED BY <1>1, <1>2, <1>3, <1>4 DEF Keeps, Wanes, Excused, LiveCluster

LEMMA WriteAddon ==
    ASSUME TypeOK, NEW c, NEW thing, SetAddon(c, thing), UNCHANGED released,
           c \in Cid => thing \in Addons /\ (Live(thing) => Live(addon[c])),
           upsets' \in 0..MaxUpsets, upsets <= upsets'
    PROVE  /\ Keeps /\ UNCHANGED <<cluster, pool>>
           /\ \A d \in Cid : addon'[d] = IF d = c THEN thing ELSE addon[d]
<1>1. CloudType /\ upsets \in Nat /\ upsets' \in Nat
  BY BoundAssumption DEF TypeOK, CloudType
<1>2. UNCHANGED <<cluster, pool>> /\ addon' = [addon EXCEPT ![c] = thing]
  BY DEF SetAddon
<1>3. /\ \A d \in Cid : addon'[d] = IF d = c THEN thing ELSE addon[d]
      /\ CloudType'
  BY <1>1, <1>2 DEF CloudType
<1>4. \A d \in Cid : Live(addon'[d]) => Live(addon[d])
  BY <1>3
<1> QED BY <1>1, <1>2, <1>3, <1>4 DEF Keeps, Wanes, Excused, LiveCluster

-----------------------------------------------------------------------------
(* What such a step leaves true. *)

LEMMA CloudKept ==
    ASSUME TypeOK, CloudInv, Keeps, UNCHANGED engine
    PROVE  CloudInv'
<1>1. UNCHANGED <<saved, destroying>> /\ pool \in [Pid -> Pools] /\ pool' \in [Pid -> Pools]
  BY DEF engine, Keeps, TypeOK, CloudType
<1>2. \A p \in LivePool' : pool'[p].in \in LiveCluster'
  BY DEF CloudInv, LivePool, LiveCluster, Keeps, Wanes
<1>3. \A c \in Cid : Live(addon'[c]) => Live(cluster'[c])
  BY DEF CloudInv, Keeps, Wanes
<1>4. \A c \in Cid : c = saved.cluster \/ c \in released' => cluster'[c].status # "unborn"
  BY DEF CloudInv, Keeps, Wanes, Excused
<1>5. \A p \in Pid : p = saved.pool \/ p \in released' => pool'[p].status # "unborn"
  BY DEF CloudInv, Keeps, Wanes, Excused
<1>6. /\ \A c \in Cid : cluster'[c].status = "deleting" => destroying
      /\ \A p \in Pid : pool'[p].status = "deleting" => destroying
  BY DEF CloudInv, Keeps, Wanes
<1> QED BY <1>1, <1>2, <1>3, <1>4, <1>5, <1>6 DEF CloudInv

LEMMA ReleasedKept ==
    ASSUME CloudInv, Keeps, NEW c, PoolReleased(c)
    PROVE  PoolReleased(c)'
BY DEF PoolReleased, Keeps, Wanes, Excused

\* What there was less of.
LEMMA Fewer ==
    ASSUME Keeps
    PROVE  /\ LiveCluster' \subseteq LiveCluster /\ LivePool' \subseteq LivePool
           /\ \A c \in Cid : PoolsIn(c)' \subseteq PoolsIn(c)
BY DEF Keeps, Wanes, LiveCluster, LivePool, PoolsIn

LEMMA SingleKept ==
    ASSUME CloudInv, SingleInv, Keeps
    PROVE  SingleInv'
<1>1. released' \cap Cid = {} => \A c, d \in LiveCluster' : c = d
  BY Fewer DEF SingleInv, Keeps, Excused
<1>2. ASSUME NEW c \in Cid
      PROVE  (\A p, q \in PoolsIn(c)' : p = q) \/ PoolReleased(c)'
  BY Fewer, ReleasedKept DEF SingleInv
<1> QED BY <1>1, <1>2 DEF SingleInv

LEMMA SavedKept ==
    ASSUME TypeOK, SavedInv, Keeps, UNCHANGED engine
    PROVE  SavedInv'
<1>1. /\ UNCHANGED <<saved, destroying, gen>> /\ saved.cluster \in Cid \cup {None}
      /\ saved.pool \in Pid \cup {None}
  BY DEF engine, TypeOK
<1>2. CASE ~destroying
  <2>1. saved.cluster # None => saved.cluster \in LiveCluster' \cup released'
    BY <1>1, <1>2 DEF SavedInv, Keeps, Excused, LiveCluster
  <2>2. saved.pool # None => saved.pool \in LivePool' \cup released'
    BY <1>1, <1>2 DEF SavedInv, Keeps, Excused, LivePool
  <2>3. \A p \in LivePool' : pool'[p].in = saved.cluster /\ pool'[p].gen = gen
    BY <1>2 DEF SavedInv, Keeps, Wanes, LivePool
  <2>4. saved.pool # None /\ pool'[saved.pool].in # saved.cluster => LivePool' = {}
    BY <1>1, <1>2, Fewer DEF SavedInv, Keeps, Wanes
  <2>5. \A c \in Cid : Live(addon'[c]) => c = saved.cluster /\ saved.addon \in {None, c}
    BY <1>2 DEF SavedInv, Keeps, Wanes
  <2> QED BY <1>1, <1>2, <2>1, <2>2, <2>3, <2>4, <2>5 DEF SavedInv
<1>3. CASE destroying
  <2>1. /\ released' \cap Cid = {} => released \cap Cid = {}
        /\ released' = {} => released = {}
    BY DEF Keeps, Excused
  <2>2. \A c \in Cid : Live(addon'[c]) => c = saved.addon
    BY <1>3 DEF SavedInv, Keeps, Wanes
  <2> QED BY <1>1, <1>3, <2>1, <2>2, Fewer DEF SavedInv
<1> QED BY <1>2, <1>3

LEMMA GenKept ==
    ASSUME TypeOK, GenInv, CloudInv, Keeps, UNCHANGED engine
    PROVE  GenInv'
<1>1. /\ UNCHANGED <<saved, destroying, gen>> /\ saved.cluster \in Cid \cup {None}
      /\ saved.pool \in Pid \cup {None} /\ gen \in Nat
      /\ upsets \in Nat /\ upsets' \in Nat /\ upsets <= upsets'
  BY DEF engine, TypeOK, Keeps, Excused
<1>2. CASE ~destroying /\ saved.pool # None /\ saved.cluster \in LiveCluster
             /\ saved.cluster \notin LiveCluster'
  BY <1>1, <1>2 DEF GenInv, Keeps, Excused, LiveCluster
<1>3. CASE ~(~destroying /\ saved.pool # None /\ saved.cluster \in LiveCluster
             /\ saved.cluster \notin LiveCluster')
  <2>1. saved.pool # None => pool'[saved.pool].in = pool[saved.pool].in
    BY <1>1 DEF Keeps, Wanes
  <2> QED BY <1>1, <1>3, <2>1 DEF GenInv
<1> QED BY <1>2, <1>3

LEMMA ClusterStays ==
    ASSUME TypeOK, ClusterInv, Keeps, UNCHANGED engine, Stays("cluster")
    PROVE  ClusterInv'
<1>1. UNCHANGED <<saved, destroying>> /\ pc'.cluster = pc.cluster /\ cur'.cluster = cur.cluster
  BY DEF engine, Stays
<1>2. released' \cap Cid = {} => released \cap Cid = {}
  BY DEF Keeps, Excused
<1>3. \A c \in Cid : cluster'[c].status = "unborn" <=> cluster[c].status = "unborn"
  BY DEF Keeps, Wanes
<1> QED BY <1>1, <1>2, <1>3, Fewer DEF ClusterInv

LEMMA PoolStays ==
    ASSUME TypeOK, CloudInv, PoolInv, Keeps, UNCHANGED engine, Stays("pool")
    PROVE  PoolInv'
<1>1. UNCHANGED <<saved, destroying>> /\ pc'.pool = pc.pool /\ cur'.pool = cur.pool
  BY DEF engine, Stays
<1>2. released' = {} => released = {}
  BY DEF Keeps, Excused
<1>3. \A p \in Pid : /\ pool'[p].status = "unborn" <=> pool[p].status = "unborn"
                     /\ pool'[p].in = pool[p].in
  BY DEF Keeps, Wanes
<1>4. saved.pool \in Pid \cup {None}
  BY DEF TypeOK
<1>5. PoolReleased(saved.cluster) => PoolReleased(saved.cluster)'
  BY <1>1, ReleasedKept
<1>6. pc'.pool \in Making \cup {"done"} => saved.pool = None \/ pool'[saved.pool].in = saved.cluster
  BY <1>1, <1>3, <1>4 DEF PoolInv
<1>7. pc'.pool = "create" => LivePool' = {} \/ PoolReleased(saved.cluster)'
  BY <1>1, <1>5, Fewer DEF PoolInv
<1>8. pc'.pool = "gone" /\ released' = {} => LivePool' = {}
  BY <1>1, <1>2, Fewer DEF PoolInv
<1>9. pc'.pool \in {"created", "act", "final"} =>
         /\ cur'.pool \in Pid /\ pool'[cur'.pool].status # "unborn"
         /\ pool'[cur'.pool].in = saved.cluster
  BY <1>1, <1>3 DEF PoolInv
<1>10. pc'.pool \in Deleting => cur'.pool = saved'.pool
  BY <1>1 DEF PoolInv
<1> QED BY <1>1, <1>6, <1>7, <1>8, <1>9, <1>10 DEF PoolInv

LEMMA AddonStays ==
    ASSUME TypeOK, AddonInv, Keeps, UNCHANGED engine, Stays("addon")
    PROVE  AddonInv'
<1>1. UNCHANGED <<saved, destroying>> /\ pc'.addon = pc.addon
  BY DEF engine, Stays
<1>2. \A c \in Cid : Live(addon'[c]) => Live(addon[c])
  BY DEF Keeps, Wanes
<1> QED BY <1>1, <1>2 DEF AddonInv

LEMMA TypeKept ==
    ASSUME TypeOK, NEW r \in Res, Alone(r), Keeps, UNCHANGED <<engine, history>>
    PROVE  TypeOK'
BY DEF TypeOK, Alone, Keeps, CloudType, engine, history, Held

\* The parts of the invariant about the cloud and the outputs.
LEMMA BaseKept ==
    ASSUME Inv, Keeps, UNCHANGED engine
    PROVE  (CloudInv /\ SingleInv /\ SavedInv /\ GenInv)'
BY CloudKept, SingleKept, SavedKept, GenKept DEF Inv

-----------------------------------------------------------------------------
(* The handler of the cluster. *)

LEMMA Names == {"cluster", "pool", "addon"} = Res
BY DEF Res

LEMMA NoneNotAnId == None \notin Cid /\ None \notin Pid
BY IdAssumption

LEMMA ClusterMakes ==
    ASSUME Inv, Alone("cluster"), Keeps, UNCHANGED <<pool, addon, engine, history>>,
           ~destroying, pc.cluster # "done", pc'.cluster \in Making \cup {"failed"}, ClusterInv'
    PROVE  Inv'
<1>1. TypeOK'
  BY Names, TypeKept DEF Inv
<1>2. Stays("pool") /\ Stays("addon")
  BY Names DEF Alone
<1>3. PoolInv' /\ AddonInv'
  BY <1>2, PoolStays, AddonStays DEF Inv
<1>4. UNCHANGED <<pool, addon, saved, want, destroying, touched, released>>
      /\ pc'.pool = pc.pool /\ pc'.addon = pc.addon
  BY <1>2 DEF engine, history, Stays
<1>5. PoolDone' /\ AddonDone'
  BY <1>4 DEF Inv, PoolDone, AddonDone
<1>6. PhaseInv'
  BY <1>4, Names DEF Inv, PhaseInv, Making, Deleting
<1>7. ClusterDone'
  BY DEF ClusterDone, Making
<1> QED BY <1>1, <1>3, <1>5, <1>6, <1>7, BaseKept DEF Inv

LEMMA ClusterDeletes ==
    ASSUME Inv, Alone("cluster"), Keeps, UNCHANGED <<pool, addon, engine, history>>,
           destroying, pc.pool = "gone", pc.addon = "gone",
           pc'.cluster \in Deleting \cup {"gone", "failed"}, ClusterInv'
    PROVE  Inv'
<1>1. TypeOK'
  BY Names, TypeKept DEF Inv
<1>2. Stays("pool") /\ Stays("addon")
  BY Names DEF Alone
<1>3. PoolInv' /\ AddonInv'
  BY <1>2, PoolStays, AddonStays DEF Inv
<1>4. UNCHANGED <<pool, addon, saved, want, destroying, touched, released>>
      /\ pc'.pool = pc.pool /\ pc'.addon = pc.addon
  BY <1>2 DEF engine, history, Stays
<1>5. PoolDone' /\ AddonDone'
  BY <1>4 DEF Inv, PoolDone, AddonDone
<1>6. PhaseInv'
  BY <1>4, Names DEF Inv, PhaseInv, Making, Deleting
<1>7. ClusterDone'
  BY DEF ClusterDone, Deleting
<1> QED BY <1>1, <1>3, <1>5, <1>6, <1>7, BaseKept DEF Inv

\* The handler that knows its cluster goes on with it.
LEMMA ClusterGoes ==
    ASSUME Inv, Keeps, UNCHANGED engine,
           \/ /\ pc.cluster \in {"created", "act", "modified"}
              /\ Moves("cluster", "act") \/ Moves("cluster", "modified")
           \/ /\ pc.cluster \in Deleting
              /\ \E step \in Deleting : Moves("cluster", step)
    PROVE  ClusterInv'
<1>1. UNCHANGED <<saved, destroying>> /\ (UNCHANGED cur \/ pc'.cluster = "failed")
  BY DEF engine, Moves
<1>2. \A c \in Cid : cluster'[c].status = "unborn" <=> cluster[c].status = "unborn"
  BY DEF Keeps, Wanes
<1>3. CASE pc.cluster \in {"created", "act", "modified"}
           /\ (Moves("cluster", "act") \/ Moves("cluster", "modified"))
  BY <1>1, <1>2, <1>3, Fewer DEF ClusterInv, Inv, Moves, Deleting
<1>4. CASE pc.cluster \in Deleting /\ \E step \in Deleting : Moves("cluster", step)
  BY <1>1, <1>4 DEF ClusterInv, Inv, Moves, Deleting
<1> QED BY <1>3, <1>4

LEMMA ClusterWorks ==
    ASSUME Inv, Keeps, UNCHANGED <<pool, addon, engine, history>>,
           pc.cluster \in {"created", "act", "modified"},
           Moves("cluster", "act") \/ Moves("cluster", "modified")
    PROVE  Inv'
<1>1. Alone("cluster") /\ pc'.cluster \in Making \cup {"failed"}
  BY DEF Moves, Making
<1>2. ~destroying /\ pc.cluster # "done"
  BY Names DEF Inv, PhaseInv, Deleting
<1>3. ClusterInv'
  BY ClusterGoes
<1> QED BY <1>1, <1>2, <1>3, ClusterMakes

LEMMA ClusterGoing ==
    ASSUME Inv, Keeps, UNCHANGED <<pool, addon, engine, history>>,
           pc.cluster \in Deleting, NEW step \in Deleting, Moves("cluster", step)
    PROVE  Inv'
<1>1. Alone("cluster") /\ pc'.cluster \in Deleting \cup {"gone", "failed"}
  BY DEF Moves
<1>2. destroying /\ pc.pool = "gone" /\ pc.addon = "gone"
  BY Names DEF Inv, PhaseInv
<1>3. ClusterInv'
  BY ClusterGoes
<1> QED BY <1>1, <1>2, <1>3, ClusterDeletes

\* Nothing happened to the cloud.
LEMMA Quiet ==
    ASSUME Inv, NEW r \in Res, Alone(r), UNCHANGED <<cloud, engine, history>>
    PROVE  Keeps /\ UNCHANGED <<cluster, pool, addon, engine, history>>
BY StillKeeps DEF Inv, Alone, cloud, history

\* Matters of the steps that wait, write settings or tags.
LEMMA ExamineMoves ==
    ASSUME Inv, NEW c \in Cid, NEW from, Examine(c, from), Calm
    PROVE  Alone("cluster") /\ pc'.cluster = "act" /\ cur'.cluster = c
<1>1. "act" \in Step
  BY DEF Step
<1>2. /\ pc' \in [Res -> Step] /\ pc'.cluster = "act"
      /\ \A q \in Res : q # "cluster" => pc'[q] = pc[q]
  BY <1>1, Names, GotoType DEF Inv, Examine
<1> DEFINE todo == { i \in Needed(c) : i >= from }
<1>3. todo \in SUBSET (1..4)
  BY DEF Needed, Edition, Tags
<1>4. cur \in Held /\ cur' = [cur EXCEPT !.cluster = c, !.todo = todo]
  BY CurType DEF Inv, Examine
<1> HIDE DEF todo
<1>5. cur' \in Held /\ cur'.cluster = c /\ cur'.pool = cur.pool
  BY <1>3, <1>4 DEF Held
<1> QED BY <1>2, <1>5, UpsetType, Names DEF Alone, Stays, Inv, Res

LEMMA PlanClusterKeeps == ASSUME Inv, PlanCluster PROVE Inv'
<1>1. /\ pc.cluster \in {"idle", "planned"} /\ ~destroying
      /\ UNCHANGED <<cloud, engine, cur, history, upsets>>
  BY DEF PlanCluster
<1>2. TypeOK
  BY DEF Inv
<1>3. CASE Goto("cluster", "observe")
  <2>1. pc' \in [Res -> Step] /\ pc'.cluster = "observe" /\ \A q \in Res : q # "cluster" => pc'[q] = pc[q]
    BY <1>2, <1>3, Names, GotoType DEF Step
  <2>2. Alone("cluster")
    BY <1>1, <1>2, <2>1, CurType DEF Alone, Stays, TypeOK
  <2>3. ClusterInv'
    BY <2>1 DEF ClusterInv, Deleting
  <2> QED BY <1>1, <2>1, <2>2, <2>3, Quiet, ClusterMakes, Names DEF Making
<1>4. CASE /\ Goto("cluster", "done") /\ pc.cluster = "planned"
           /\ saved.cluster \in LiveCluster => Matches(saved.cluster)
  <2>1. pc' \in [Res -> Step] /\ pc'.cluster = "done" /\ \A q \in Res : q # "cluster" => pc'[q] = pc[q]
    BY <1>2, <1>4, Names, GotoType DEF Step, Rest
  <2>2. Alone("cluster")
    BY <1>1, <1>2, <2>1, CurType DEF Alone, Stays, TypeOK
  <2>3. Keeps /\ UNCHANGED <<cluster, pool, addon, engine, history>>
    BY <1>1, <2>2, Names, Quiet
  <2>4. Stays("pool") /\ Stays("addon")
    BY <2>2, Names DEF Alone
  <2>5. TypeOK' /\ PoolInv' /\ AddonInv'
    BY <2>2, <2>3, <2>4, Names, TypeKept, PoolStays, AddonStays DEF Inv
  <2>6. ClusterInv'
    BY <2>1 DEF ClusterInv, Deleting
  <2>7. UNCHANGED <<cluster, pool, addon, saved, want, destroying, touched, released>>
        /\ pc'.pool = pc.pool /\ pc'.addon = pc.addon
    BY <2>3, <2>4 DEF engine, history, Stays
  <2>8. PoolDone' /\ AddonDone'
    BY <2>7 DEF Inv, PoolDone, AddonDone
  <2>9. PhaseInv'
    BY <1>1, <2>1, <2>7, Names DEF Inv, PhaseInv, Making, Deleting
  <2>10. ClusterDone'
    <3>1. saved.cluster # None /\ (saved.cluster \in released \/ Runs(saved.cluster))
      BY <1>4 DEF Inv, ClusterDone
    <3>2. saved.cluster \in released \/ Matches(saved.cluster)
      BY <1>4, <3>1 DEF Runs, LiveCluster, Live
    <3> QED BY <2>7, <3>1, <3>2 DEF ClusterDone, Runs, Matches
  <2> QED BY <2>3, <2>5, <2>6, <2>8, <2>9, <2>10, BaseKept DEF Inv
<1> QED BY <1>3, <1>4 DEF PlanCluster

LEMMA ObserveClusterKeeps == ASSUME Inv, ObserveCluster PROVE Inv'
<1>1. pc.cluster = "observe" /\ UNCHANGED <<cloud, engine, history, upsets>>
  BY DEF ObserveCluster
<1>2. TypeOK /\ ~destroying /\ pc.cluster # "done" /\ Calm
  BY <1>1, Names DEF Inv, PhaseInv, Deleting, Calm
<1>3. CASE Fail("cluster")
  <2>1. Alone("cluster") /\ pc'.cluster = "failed"
    BY <1>2, <1>3, Names, FailMoves DEF Moves
  <2>2. ClusterInv'
    BY <2>1 DEF ClusterInv, Deleting
  <2> QED BY <1>1, <1>2, <2>1, <2>2, Quiet, ClusterMakes, Names
<1>4. CASE FoundCluster = {} /\ Goto("cluster", "create") /\ UNCHANGED cur
  <2>1. pc' \in [Res -> Step] /\ pc'.cluster = "create" /\ \A q \in Res : q # "cluster" => pc'[q] = pc[q]
    BY <1>2, <1>4, Names, GotoType DEF Step
  <2>2. Alone("cluster")
    BY <1>2, <1>4, <2>1, CurType, UpsetType DEF Alone, Stays
  <2>3. saved.cluster \notin LiveCluster
    BY <1>4, NoneNotAnId DEF FoundCluster, LiveCluster
  <2>4. released \cap Cid = {} => LiveCluster = {}
    BY <1>2, <1>4, <2>3 DEF Inv, SavedInv, FoundCluster, TypeOK
  <2>5. UNCHANGED <<cluster, saved, released>>
    BY <1>1 DEF cloud, engine, history
  <2>6. ClusterInv'
    BY <2>1, <2>3, <2>4, <2>5 DEF ClusterInv, Deleting, LiveCluster
  <2> QED BY <1>1, <1>2, <2>1, <2>2, <2>6, Quiet, ClusterMakes, Names DEF Making
<1>5. ASSUME NEW c \in FoundCluster, Examine(c, Edition)
      PROVE  Inv'
  <2>1. c \in LiveCluster /\ c \in Cid
    BY DEF FoundCluster, LiveCluster
  <2>2. Alone("cluster") /\ pc'.cluster = "act" /\ cur'.cluster = c
    BY <1>2, <1>5, <2>1, ExamineMoves
  <2>3. c # saved.cluster => saved.cluster \notin LiveCluster
    BY NoneNotAnId DEF FoundCluster, LiveCluster
  <2>4. UNCHANGED <<cluster, saved, released>>
    BY <1>1 DEF cloud, engine, history
  <2>5. ClusterInv'
    BY <2>1, <2>2, <2>3, <2>4 DEF ClusterInv, Deleting, LiveCluster, Live
  <2> QED BY <1>1, <1>2, <2>2, <2>5, Quiet, ClusterMakes, Names DEF Making
<1> QED BY <1>3, <1>4, <1>5 DEF ObserveCluster

\* The waits of the deployment's handler.
LEMMA AwaitKeeps == ASSUME Inv, AwaitCreated \/ AwaitModified \/ AwaitUpgrade PROVE Inv'
<1> DEFINE c == cur.cluster
<1>1. pc.cluster \in {"created", "modified"} /\ UNCHANGED <<cloud, engine, history>>
  BY DEF AwaitCreated, AwaitModified, AwaitUpgrade
<1>2. /\ TypeOK /\ ~destroying /\ pc.cluster # "done"
      /\ c \in Cid /\ cluster[c].status # "unborn"
      /\ c # saved.cluster => saved.cluster \notin LiveCluster
  BY <1>1, Names DEF Inv, PhaseInv, Deleting, ClusterInv
<1>3. ASSUME Alone("cluster"), pc'.cluster = "failed"
      PROVE  Inv'
  <2>1. ClusterInv'
    BY <1>3 DEF ClusterInv, Deleting
  <2> QED BY <1>1, <1>2, <1>3, <2>1, Quiet, ClusterMakes, Names
<1>4. ASSUME Alone("cluster"), pc'.cluster = "act", cur'.cluster = c
      PROVE  Inv'
  <2>1. UNCHANGED <<cluster, saved, released>>
    BY <1>1 DEF cloud, engine, history
  <2>2. ClusterInv'
    BY <1>2, <1>4, <2>1 DEF ClusterInv, Deleting, LiveCluster
  <2> QED BY <1>1, <1>2, <1>4, <2>2, Quiet, ClusterMakes, Names DEF Making
<1>5. ASSUME NEW ready, NEW thing, Late(ready, thing), Fail("cluster")
      PROVE  Inv'
  BY <1>2, <1>3, <1>5, Names, LateFails DEF Moves
<1>6. ASSUME NEW from, Examine(c, from), Calm
      PROVE  Inv'
  BY <1>2, <1>4, <1>6, ExamineMoves
<1>7. CASE /\ Calm /\ Goto("cluster", "act")
           /\ cur' = [cur EXCEPT !.todo = @ \ {Upgrade}]
  <2>1. pc' \in [Res -> Step] /\ pc'.cluster = "act" /\ \A q \in Res : q # "cluster" => pc'[q] = pc[q]
    BY <1>2, <1>7, Names, GotoType DEF Step
  <2>2. cur' \in Held /\ cur'.cluster = c /\ cur'.pool = cur.pool
    BY <1>2, <1>7, CurType DEF Held
  <2> QED BY <1>2, <1>4, <1>7, <2>1, <2>2, UpsetType, Names DEF Alone, Stays, Res
<1> QED BY <1>5, <1>6, <1>7 DEF AwaitCreated, AwaitModified, AwaitUpgrade

\* A setting is written.
LEMMA WriteKeeps ==
    ASSUME Inv, pc.cluster = "act", NEW thing \in Clusters, thing.status = "busy",
           Once("cluster", Runs(cur.cluster), SetCluster(cur.cluster, thing), "modified"),
           UNCHANGED <<engine, history>>
    PROVE  Inv'
<1> DEFINE allowed == Runs(cur.cluster)
           effect == SetCluster(cur.cluster, thing)
<1>1. Moves("cluster", "modified") /\ ((allowed /\ effect) \/ UNCHANGED cloud)
  <2>1. Once("cluster", allowed, effect, "modified")
    OBVIOUS
  <2>2. TypeOK /\ "modified" \in Step
    BY DEF Inv, Step
  <2> HIDE DEF allowed, effect
  <2> QED BY <2>1, <2>2, Names, OnceMoves
<1>2. UNCHANGED released /\ TypeOK /\ upsets' \in 0..MaxUpsets /\ upsets <= upsets'
  BY <1>1 DEF history, Inv, Moves, Alone
<1>3. CASE allowed /\ effect
  <2>1. Live(thing) /\ Live(cluster[cur.cluster]) /\ thing.status # "deleting"
    BY <1>3 DEF Live, Runs
  <2>2. Keeps /\ UNCHANGED <<pool, addon>>
    BY <1>2, <1>3, <2>1, WriteCluster
  <2> QED BY <1>1, <2>2, ClusterWorks
<1>4. CASE UNCHANGED cloud
  <2>1. Keeps /\ UNCHANGED <<cluster, pool, addon>>
    BY <1>1, <1>4, Quiet, Names DEF Moves
  <2> QED BY <1>1, <2>1, ClusterWorks
<1> QED BY <1>1, <1>3, <1>4

LEMMA ModifyKeeps == ASSUME Inv, ModifyCluster \/ UpgradeCluster PROVE Inv'
<1> DEFINE c == cur.cluster
           edition == [Begin(cluster[c], "busy") EXCEPT !.goal.spec = want.spec]
           guard == [Begin(cluster[c], "busy") EXCEPT !.goal.guard = want.guard]
           version == [Begin(cluster[c], "busy") EXCEPT !.goal.version = want.version]
<1>1. pc.cluster = "act" /\ UNCHANGED <<engine, history>>
  BY DEF ModifyCluster, UpgradeCluster
<1>2. c \in Cid /\ cluster[c] \in Clusters /\ want.spec \in Choice /\ want.guard \in BOOLEAN
      /\ want.version \in Choice
  BY <1>1 DEF Inv, ClusterInv, TypeOK
<1>3. Begin(cluster[c], "busy") \in Clusters /\ Begin(cluster[c], "busy").status = "busy"
  BY <1>2 DEF Begin, Clusters, Status
<1>4. /\ edition \in Clusters /\ edition.status = "busy"
      /\ guard \in Clusters /\ guard.status = "busy"
      /\ version \in Clusters /\ version.status = "busy"
  BY <1>2, <1>3 DEF Clusters, Settings
<1>5. \E thing \in {edition, guard, version} :
        Once("cluster", Runs(c), SetCluster(c, thing), "modified")
  BY DEF ModifyCluster, UpgradeCluster
<1> HIDE DEF edition, guard, version
<1> QED BY <1>1, <1>4, <1>5, WriteKeeps

LEMMA SyncTagsKeeps == ASSUME Inv, SyncTags PROVE Inv'
<1> DEFINE c == cur.cluster
           tagged == [cluster[c] EXCEPT !.tagged = TRUE]
<1>1. pc.cluster = "act" /\ UNCHANGED <<engine, history>>
  BY DEF SyncTags
<1>2. c \in Cid /\ cluster[c] \in Clusters /\ TypeOK
  BY <1>1 DEF Inv, ClusterInv, TypeOK
<1>3. tagged \in Clusters /\ tagged.status = cluster[c].status
  BY <1>2 DEF Clusters
<1>4. /\ Alone("cluster") /\ pc'.cluster \in {"act", "failed"}
      /\ cur'.cluster = c \/ pc'.cluster = "failed"
  <2>1. CASE Lost("cluster")
    BY <1>1, <1>2, <2>1, Names, LostMoves DEF Moves
  <2>2. CASE Fail("cluster") /\ Calm
    BY <1>2, <2>2, Names, FailMoves DEF Moves
  <2>3. CASE cur' = [cur EXCEPT !.todo = {}] /\ Calm /\ UNCHANGED pc
    <3>1. cur' \in Held /\ cur'.cluster = c /\ cur'.pool = cur.pool
      BY <1>2, <2>3, CurType DEF Held
    <3> QED BY <1>1, <1>2, <2>3, <3>1, UpsetType, Names DEF Alone, Stays, TypeOK, Res
  <2> QED BY <2>1, <2>2, <2>3 DEF SyncTags
<1>5. UNCHANGED released /\ upsets' \in 0..MaxUpsets /\ upsets <= upsets'
  BY <1>1, <1>4 DEF history, Alone
<1>6. Keeps /\ UNCHANGED <<pool, addon>>
  <2>1. CASE c \in LiveCluster /\ SetCluster(c, tagged)
    <3>1. Live(cluster[c]) /\ Live(tagged) /\ (tagged.status = "deleting" => destroying)
      BY <1>2, <1>3, <2>1 DEF LiveCluster, Live, Inv, CloudInv
    <3> HIDE DEF tagged
    <3> QED BY <1>2, <1>3, <1>5, <2>1, <3>1, WriteCluster
  <2>2. CASE UNCHANGED cloud
    BY <1>1, <1>4, <2>2, Quiet, Names
  <2> QED BY <2>1, <2>2 DEF SyncTags
<1>7. ~destroying /\ pc.cluster # "done"
  BY <1>1, Names DEF Inv, PhaseInv, Deleting
<1>8. /\ c \in Cid /\ cluster[c].status # "unborn" /\ UNCHANGED saved
      /\ c # saved.cluster => saved.cluster \notin LiveCluster
  BY <1>1 DEF Inv, ClusterInv, engine
<1>9. ClusterInv'
  <2>1. cluster'[c].status # "unborn"
    BY <1>6, <1>8 DEF Keeps, Wanes
  <2> QED BY <1>4, <1>6, <1>8, <2>1, Fewer DEF ClusterInv, Deleting
<1> QED BY <1>1, <1>4, <1>6, <1>7, <1>9, ClusterMakes DEF Making

\* What a new cluster means to what was in the old one: there is nothing.
LEMMA FinalClusterKeeps == ASSUME Inv, FinalCluster PROVE Inv'
<1> DEFINE c == cur.cluster
           fits == Runs(c) /\ Matches(c) /\ cluster[c].tagged
<1>1. pc.cluster = "act" /\ UNCHANGED <<cloud, want, gen, destroying, history>>
  BY DEF FinalCluster
<1>2. /\ TypeOK /\ ~destroying /\ pc.cluster # "done"
      /\ c \in Cid /\ cluster[c].status # "unborn"
      /\ c # saved.cluster => saved.cluster \notin LiveCluster
  BY <1>1, Names DEF Inv, PhaseInv, Deleting, ClusterInv
<1>3. CASE Late(fits, cluster[c]) /\ Fail("cluster") /\ UNCHANGED <<saved, dirty>>
  <2> HIDE DEF fits
  <2>1. Alone("cluster") /\ pc'.cluster = "failed"
    BY <1>2, <1>3, Names, LateFails DEF Moves
  <2>2. ClusterInv'
    BY <2>1 DEF ClusterInv, Deleting
  <2> QED BY <1>1, <1>2, <1>3, <2>1, <2>2, Quiet, ClusterMakes, Names DEF engine
<1>4. CASE /\ fits /\ Calm /\ End("cluster", "done")
           /\ saved' = [saved EXCEPT !.cluster = c]
           /\ dirty' = dirty \ {"spec", "guard"}
  <2>1. Alone("cluster") /\ pc'.cluster = "done"
    BY <1>2, <1>4, Names, EndType DEF Step, Rest
  <2>2. /\ UNCHANGED <<cluster, pool, addon, want, gen, destroying, touched, released, upsets>>
        /\ pc'.pool = pc.pool /\ pc'.addon = pc.addon
        /\ saved'.cluster = c /\ saved'.pool = saved.pool /\ saved'.addon = saved.addon
    BY <1>1, <1>2, <1>4, <2>1, Names DEF cloud, history, Alone, Stays, TypeOK, Calm
  <2>3. UNCHANGED <<LiveCluster, LivePool>> /\ \A d \in Cid : UNCHANGED PoolsIn(d)
    BY <2>2 DEF LiveCluster, LivePool, PoolsIn
  <2>4. pc.pool \notin Making \cup Deleting \cup {"done", "gone"}
        /\ pc.addon \notin Making \cup Deleting \cup {"done", "gone"}
    BY <1>1, <1>2, Names DEF Inv, PhaseInv
  <2>5. c \in LiveCluster
    BY <1>2, <1>4 DEF LiveCluster, Live, Runs
  <2>6. c # saved.cluster => LivePool = {} /\ \A d \in Cid : ~Live(addon[d])
    <3> SUFFICES ASSUME saved.cluster \notin LiveCluster
                 PROVE  LivePool = {} /\ \A d \in Cid : ~Live(addon[d])
      BY <1>2
    <3>1. \A p \in LivePool : pool[p].in = saved.cluster /\ pool[p].in \in LiveCluster
      BY <1>2 DEF Inv, SavedInv, CloudInv
    <3>2. \A d \in Cid : Live(addon[d]) => d = saved.cluster /\ d \in LiveCluster
      BY <1>2 DEF Inv, SavedInv, CloudInv, LiveCluster
    <3> QED BY <3>1, <3>2
  <2>7. TypeOK'
    <3>1. saved' \in [cluster : Cid \cup {None}, pool : Pid \cup {None}, addon : Cid \cup {None}]
      BY <1>2, <1>4 DEF TypeOK
    <3>2. cur' \in [cluster : Cid \cup {None}, pool : Pid \cup {None}, todo : SUBSET (1..4)]
          /\ pc' \in [Res -> Step]
      BY <2>1 DEF Alone, Held
    <3> QED BY <1>2, <1>4, <2>2, <3>1, <3>2 DEF TypeOK
  <2>8. PhaseInv'
    BY <1>2, <2>1, <2>2, <2>4, Names DEF PhaseInv, Making, Deleting
  <2>9. CloudInv'
    BY <1>2, <2>2, <2>3 DEF Inv, CloudInv
  <2>10. SingleInv'
    BY <2>2, <2>3 DEF Inv, SingleInv, PoolReleased
  <2>11. SavedInv'
    <3>1. CASE c = saved.cluster
      BY <1>2, <2>2, <2>3, <3>1 DEF Inv, SavedInv
    <3>2. CASE c # saved.cluster
      BY <1>2, <2>2, <2>3, <2>5, <2>6, <3>2 DEF Inv, SavedInv
    <3> QED BY <3>1, <3>2
  <2>12. GenInv'
    BY <1>2, <2>2, <2>3, <2>5 DEF Inv, GenInv
  <2>13. ClusterInv'
    BY <2>1 DEF ClusterInv, Deleting
  <2>14. PoolInv' /\ AddonInv'
    BY <2>2, <2>4 DEF PoolInv, AddonInv, Making, Deleting
  <2>15. ClusterDone'
    BY <1>2, <1>4, <2>2, NoneNotAnId DEF ClusterDone, Runs, Matches
  <2>16. PoolDone' /\ AddonDone'
    BY <2>2, <2>4 DEF Inv, PoolDone, AddonDone
  <2> QED BY <2>7, <2>8, <2>9, <2>10, <2>11, <2>12, <2>13, <2>14, <2>15, <2>16 DEF Inv
<1> QED BY <1>3, <1>4 DEF FinalCluster

LEMMA StartDeleteClusterKeeps == ASSUME Inv, StartDeleteCluster PROVE Inv'
<1>1. /\ destroying /\ pc.pool = "gone" /\ pc.addon = "gone" /\ TypeOK
      /\ UNCHANGED <<cloud, engine, history, upsets>>
      /\ cur' = [cur EXCEPT !.cluster = saved.cluster] /\ Goto("cluster", "dRead")
  BY DEF StartDeleteCluster, Inv
<1>2. pc' \in [Res -> Step] /\ pc'.cluster = "dRead" /\ \A q \in Res : q # "cluster" => pc'[q] = pc[q]
  BY <1>1, Names, GotoType DEF Step
<1>3. cur' \in Held /\ cur'.cluster = saved.cluster /\ cur'.pool = cur.pool
  BY <1>1, CurType DEF Held, TypeOK
<1>4. Alone("cluster")
  BY <1>1, <1>2, <1>3, Names DEF Alone, Stays, TypeOK, Res
<1>5. ClusterInv'
  BY <1>1, <1>2, <1>3 DEF ClusterInv, Deleting, engine
<1> QED BY <1>1, <1>2, <1>4, <1>5, Quiet, ClusterDeletes, Names DEF Deleting

\* The deletion ends when what was saved is not there.
LEMMA ClusterEnds ==
    ASSUME Inv, pc.cluster \in Deleting, cur.cluster \notin LiveCluster,
           Calm, End("cluster", "gone"), UNCHANGED <<cloud, engine, history>>
    PROVE  Inv'
<1>1. destroying /\ pc.pool = "gone" /\ pc.addon = "gone" /\ TypeOK /\ cur.cluster = saved.cluster
  BY Names DEF Inv, PhaseInv, ClusterInv
<1>2. Alone("cluster") /\ pc'.cluster = "gone"
  BY <1>1, Names, EndType DEF Step, Rest
<1>3. released \cap Cid = {} => LiveCluster = {}
  BY <1>1 DEF Inv, SavedInv
<1>4. ClusterInv'
  BY <1>2, <1>3 DEF ClusterInv, Deleting, cloud, history, LiveCluster
<1> QED BY <1>1, <1>2, <1>4, Quiet, ClusterDeletes, Names

\* A request of the deletion.
LEMMA ClusterContinues ==
    ASSUME Inv, pc.cluster \in Deleting, NEW STATE over, NEW step \in Deleting,
           NEW STATE allowed, NEW thing,
           allowed /\ cur.cluster \in Cid => Live(cluster[cur.cluster]) /\ thing \in Clusters /\ Live(thing),
           Continue("cluster", allowed, over, SetCluster(cur.cluster, thing), step),
           UNCHANGED <<engine, history>>
    PROVE  Inv'
<1> DEFINE effect == SetCluster(cur.cluster, thing)
<1>1. Moves("cluster", step) /\ ((allowed /\ effect) \/ UNCHANGED cloud)
  <2>1. Continue("cluster", allowed, over, effect, step)
    OBVIOUS
  <2>2. TypeOK /\ step \in Step
    BY DEF Inv, Step, Deleting
  <2> HIDE DEF effect
  <2> QED BY <2>1, <2>2, Names, ContinueMoves
<1>2. UNCHANGED released /\ TypeOK /\ upsets' \in 0..MaxUpsets /\ upsets <= upsets' /\ destroying
  BY <1>1, Names DEF history, Inv, Moves, Alone, PhaseInv
<1>3. CASE allowed /\ effect
  <2>1. Keeps /\ UNCHANGED <<pool, addon>>
    BY <1>2, <1>3, WriteCluster
  <2> QED BY <1>1, <2>1, ClusterGoing
<1>4. CASE UNCHANGED cloud
  <2>1. Keeps /\ UNCHANGED <<cluster, pool, addon>>
    BY <1>1, <1>4, Quiet, Names DEF Moves
  <2> QED BY <1>1, <2>1, ClusterGoing
<1> QED BY <1>1, <1>3, <1>4

\* A step of the deletion that asks for nothing.
LEMMA ClusterGoesOn ==
    ASSUME Inv, pc.cluster \in Deleting, NEW step \in Deleting, Moves("cluster", step),
           UNCHANGED <<cloud, engine, history>>
    PROVE  Inv'
<1>1. Keeps /\ UNCHANGED <<cluster, pool, addon, engine, history>>
  BY Quiet, Names DEF Moves
<1> QED BY <1>1, ClusterGoing

LEMMA DisableProtectionKeeps == ASSUME Inv, DisableProtection PROVE Inv'
<1> DEFINE c == cur.cluster
           thing == Unguarded(cluster[c])
           allowed == cluster[c].status \in {"running", "failed"}
<1>1. pc.cluster \in Deleting /\ UNCHANGED <<engine, history>> /\ TypeOK
  BY DEF DisableProtection, Inv, Deleting
<1>2. CASE c \notin LiveCluster /\ End("cluster", "gone") /\ Calm /\ UNCHANGED cloud
  BY <1>1, <1>2, ClusterEnds
<1>3. ASSUME NEW step \in {"dAbsent", "dDelete"}, Proceed("cluster", step), UNCHANGED cloud
      PROVE  Inv'
  <2>1. step \in Deleting /\ step \in Step
    BY DEF Deleting, Step
  <2>2. Moves("cluster", step)
    BY <1>1, <1>3, <2>1, ProceedMoves, Names
  <2> QED BY <1>1, <1>3, <2>1, <2>2, ClusterGoesOn
<1>4. CASE Continue("cluster", allowed, FALSE, SetCluster(c, thing), "dUnguarded")
  <2>1. c \in Cid => cluster[c] \in Clusters
    BY <1>1 DEF TypeOK
  <2>2. allowed /\ c \in Cid => Live(cluster[c]) /\ thing \in Clusters /\ Live(thing)
    <3> SUFFICES ASSUME c \in Cid, allowed
                 PROVE  Live(cluster[c]) /\ thing \in Clusters /\ Live(thing)
      OBVIOUS
    <3>1. CASE cluster[c].status = "failed"
      BY <2>1, <3>1 DEF Unguarded, Clusters, Settings, Live
    <3>2. CASE cluster[c].status = "running"
      <4>1. Begin(cluster[c], "busy") \in Clusters /\ Begin(cluster[c], "busy").status = "busy"
        BY <2>1 DEF Begin, Clusters, Status
      <4>2. thing \in Clusters /\ thing.status = "busy"
        BY <3>2, <4>1 DEF Unguarded, Clusters, Settings
      <4> QED BY <3>2, <4>2 DEF Live
    <3> QED BY <3>1, <3>2
  <2>3. "dUnguarded" \in Deleting
    BY DEF Deleting
  <2> HIDE DEF thing, allowed
  <2> QED BY <1>1, <1>4, <2>2, <2>3, ClusterContinues
<1> QED BY <1>2, <1>3, <1>4 DEF DisableProtection

LEMMA AwaitUnguardedKeeps == ASSUME Inv, AwaitUnguarded PROVE Inv'
<1>1. /\ pc.cluster \in Deleting /\ UNCHANGED <<cloud, engine, history>> /\ TypeOK
      /\ {"dDelete", "dAbsent"} \subseteq Deleting \cap Step
  BY DEF AwaitUnguarded, Inv, Deleting, Step
<1>2. ASSUME NEW step \in {"dDelete", "dAbsent"}, Proceed("cluster", step)
      PROVE  Inv'
  BY <1>1, <1>2, ProceedMoves, Names, ClusterGoesOn
<1>3. ASSUME NEW ready, NEW thing, Late(ready, thing), Fail("cluster")
      PROVE  Inv'
  BY <1>1, <1>3, LateFails, Names, ClusterGoesOn
<1> QED BY <1>2, <1>3 DEF AwaitUnguarded

LEMMA DeleteClusterKeeps == ASSUME Inv, DeleteCluster PROVE Inv'
<1> DEFINE c == cur.cluster
           thing == Begin(cluster[c], "deleting")
           allowed == cluster[c].status \in {"running", "failed"} /\ ~cluster[c].is.guard
           over == ~Live(cluster[c]) \/ cluster[c].status = "deleting"
<1>1. pc.cluster \in Deleting /\ UNCHANGED <<engine, history>> /\ TypeOK /\ "dAbsent" \in Deleting
  BY DEF DeleteCluster, Inv, Deleting
<1>2. Continue("cluster", allowed, over, SetCluster(c, thing), "dAbsent")
  BY DEF DeleteCluster
<1>3. allowed /\ c \in Cid => Live(cluster[c]) /\ thing \in Clusters /\ Live(thing)
  <2>1. c \in Cid => cluster[c] \in Clusters
    BY <1>1 DEF TypeOK
  <2> QED BY <2>1 DEF Begin, Clusters, Status, Live
<1> HIDE DEF thing, allowed, over
<1> QED BY <1>1, <1>2, <1>3, ClusterContinues

LEMMA ClusterAbsentKeeps == ASSUME Inv, ClusterAbsent PROVE Inv'
<1>1. /\ pc.cluster \in Deleting /\ UNCHANGED <<cloud, engine, history>> /\ TypeOK
      /\ "dAbsent" \in Deleting
  BY DEF ClusterAbsent, Inv, Deleting
<1>2. ASSUME NEW ready, NEW thing, Late(ready, thing), Fail("cluster")
      PROVE  Inv'
  BY <1>1, <1>2, LateFails, Names, ClusterGoesOn
<1> QED BY <1>1, <1>2, ClusterEnds DEF ClusterAbsent

\* A cluster is bought only when no other is there, unless one was deleted by
\* hand.
LEMMA CreateClusterKeeps == ASSUME Inv, CreateCluster PROVE Inv'
<1> DEFINE c == CHOOSE d \in Cid : cluster[d].status = "unborn"
           bought == [spec |-> want.spec, guard |-> want.guard, version |-> want.version]
           new == [status |-> "creating", is |-> bought, goal |-> bought,
                   tagged |-> TRUE, broken |-> FALSE]
<1>1. pc.cluster = "create" /\ UNCHANGED <<engine, history>>
  BY DEF CreateCluster
<1>2. c \in Cid /\ cluster[c].status = "unborn"
  BY DEF CreateCluster
<1>3. /\ TypeOK /\ ~destroying /\ pc.cluster # "done"
      /\ saved.cluster \notin LiveCluster
      /\ released \cap Cid = {} => LiveCluster = {}
  BY <1>1, Names DEF Inv, PhaseInv, Deleting, ClusterInv
<1>4. new \in Clusters /\ new.status = "creating"
  BY <1>3 DEF TypeOK, Clusters, Settings, Status
<1>5. \/ /\ SetCluster(c, new)
         /\ \/ cur' = [cur EXCEPT !.cluster = c] /\ Goto("cluster", "created") /\ Calm
            \/ Upset /\ Fail("cluster")
      \/ Upset /\ Fail("cluster") /\ UNCHANGED cloud
  BY DEF CreateCluster
<1> HIDE DEF c, new
<1>6. CASE Upset /\ Fail("cluster") /\ UNCHANGED cloud
  <2>1. Alone("cluster") /\ pc'.cluster = "failed"
    BY <1>3, <1>6, Names, FailMoves DEF Moves
  <2>2. ClusterInv'
    BY <2>1 DEF ClusterInv, Deleting
  <2> QED BY <1>1, <1>3, <1>6, <2>1, <2>2, Quiet, ClusterMakes, Names
<1>7. CASE /\ SetCluster(c, new)
           /\ \/ cur' = [cur EXCEPT !.cluster = c] /\ Goto("cluster", "created") /\ Calm
              \/ Upset /\ Fail("cluster")
  <2>1. /\ Alone("cluster")
        /\ pc'.cluster = "failed" \/ (pc'.cluster = "created" /\ cur'.cluster = c)
    <3>1. CASE Upset /\ Fail("cluster")
      BY <1>3, <3>1, Names, FailMoves DEF Moves
    <3>2. CASE cur' = [cur EXCEPT !.cluster = c] /\ Goto("cluster", "created") /\ Calm
      <4>1. pc' \in [Res -> Step] /\ pc'.cluster = "created"
            /\ \A q \in Res : q # "cluster" => pc'[q] = pc[q]
        BY <1>3, <3>2, Names, GotoType DEF Step
      <4>2. cur' \in Held /\ cur'.cluster = c /\ cur'.pool = cur.pool
        BY <1>2, <1>3, <3>2, CurType DEF Held
      <4> QED BY <1>3, <3>2, <4>1, <4>2, UpsetType, Names DEF Alone, Stays, Res
    <3> QED BY <1>7, <3>1, <3>2
  <2>2. /\ UNCHANGED <<pool, addon, want, dirty, gen, saved, destroying, touched, released>>
        /\ pc'.pool = pc.pool /\ pc'.addon = pc.addon
        /\ upsets \in Nat /\ upsets' \in Nat /\ upsets <= upsets'
        /\ cluster' = [cluster EXCEPT ![c] = new]
    BY <1>1, <1>3, <1>7, <2>1, Names, BoundAssumption
       DEF SetCluster, engine, history, Alone, Stays, TypeOK
  <2>3. cluster' \in [Cid -> Clusters] /\ \A d \in Cid : cluster'[d] = IF d = c THEN new ELSE cluster[d]
    BY <1>2, <1>3, <1>4, <2>2 DEF TypeOK
  <2>4. /\ LiveCluster' = LiveCluster \cup {c} /\ UNCHANGED LivePool
        /\ \A d \in Cid : UNCHANGED PoolsIn(d)
    BY <1>2, <1>4, <2>2, <2>3 DEF LiveCluster, LivePool, PoolsIn, Live
  <2>5. c # saved.cluster /\ c \notin released
    BY <1>2 DEF Inv, CloudInv
  <2>6. pc.pool \notin Making \cup Deleting \cup {"done", "gone"}
        /\ pc.addon \notin Making \cup Deleting \cup {"done", "gone"}
    BY <1>1, <1>3, Names DEF Inv, PhaseInv
  <2>7. TypeOK'
    BY <1>3, <2>1, <2>2, <2>3 DEF TypeOK, Alone, Held
  <2>8. PhaseInv'
    BY <1>3, <2>1, <2>2, <2>6, Names DEF PhaseInv, Making, Deleting
  <2>9. CloudInv'
    <3>1. \A p \in LivePool' : pool'[p].in \in LiveCluster'
      BY <2>2, <2>4 DEF Inv, CloudInv
    <3>2. \A d \in Cid : Live(addon'[d]) => Live(cluster'[d])
      BY <1>4, <2>2, <2>3 DEF Inv, CloudInv, Live
    <3> QED BY <1>4, <2>2, <2>3, <3>1, <3>2 DEF Inv, CloudInv
  <2>10. SingleInv'
    <3>1. released' \cap Cid = {} => \A d, e \in LiveCluster' : d = e
      BY <1>3, <2>2, <2>4
    <3> QED BY <2>2, <2>4, <3>1 DEF Inv, SingleInv, PoolReleased
  <2>11. SavedInv'
    BY <1>3, <2>2, <2>4 DEF Inv, SavedInv
  <2>12. GenInv'
    BY <2>2, <2>4, <1>3 DEF Inv, GenInv, TypeOK
  <2>13. ClusterInv'
    BY <1>2, <1>3, <1>4, <2>1, <2>2, <2>3, <2>4, <2>5 DEF ClusterInv, Deleting
  <2>14. PoolInv' /\ AddonInv'
    BY <2>2, <2>6 DEF PoolInv, AddonInv, Making, Deleting
  <2>15. ClusterDone'
    BY <2>1 DEF ClusterDone
  <2>16. PoolDone' /\ AddonDone'
    BY <2>2, <2>6 DEF Inv, PoolDone, AddonDone
  <2> QED BY <2>7, <2>8, <2>9, <2>10, <2>11, <2>12, <2>13, <2>14, <2>15, <2>16 DEF Inv
<1> QED BY <1>5, <1>6, <1>7

LEMMA ClusterStepKeeps == ASSUME Inv, ClusterStep PROVE Inv'
BY PlanClusterKeeps, ObserveClusterKeeps, CreateClusterKeeps, AwaitKeeps, ModifyKeeps,
   SyncTagsKeeps, FinalClusterKeeps, StartDeleteClusterKeeps, DisableProtectionKeeps,
   AwaitUnguardedKeeps, DeleteClusterKeeps, ClusterAbsentKeeps DEF ClusterStep

-----------------------------------------------------------------------------
(* The handler of the pool. *)

LEMMA PoolMakes ==
    ASSUME Inv, Alone("pool"), Keeps, UNCHANGED <<cluster, addon, engine, history>>,
           ~destroying, pc.cluster = "done", pc'.pool \in Making \cup {"failed"}, PoolInv'
    PROVE  Inv'
<1>1. TypeOK'
  BY Names, TypeKept DEF Inv
<1>2. Stays("cluster") /\ Stays("addon")
  BY Names DEF Alone
<1>3. ClusterInv' /\ AddonInv'
  BY <1>2, ClusterStays, AddonStays DEF Inv
<1>4. UNCHANGED <<cluster, addon, saved, want, destroying, touched, released>>
      /\ pc'.cluster = pc.cluster /\ pc'.addon = pc.addon
  BY <1>2 DEF engine, history, Stays
<1>5. ClusterDone' /\ AddonDone'
  BY <1>4 DEF Inv, ClusterDone, AddonDone, Runs, Matches
<1>6. PhaseInv'
  BY <1>4, Names DEF Inv, PhaseInv, Making, Deleting
<1>7. PoolDone'
  BY DEF PoolDone, Making
<1> QED BY <1>1, <1>3, <1>5, <1>6, <1>7, BaseKept DEF Inv

LEMMA PoolDeletes ==
    ASSUME Inv, Alone("pool"), Keeps, UNCHANGED <<cluster, addon, engine, history>>,
           destroying, pc.pool # "gone",
           pc'.pool \in Deleting \cup {"gone", "failed"}, PoolInv'
    PROVE  Inv'
<1>1. TypeOK'
  BY Names, TypeKept DEF Inv
<1>2. Stays("cluster") /\ Stays("addon")
  BY Names DEF Alone
<1>3. ClusterInv' /\ AddonInv'
  BY <1>2, ClusterStays, AddonStays DEF Inv
<1>4. UNCHANGED <<cluster, addon, saved, want, destroying, touched, released>>
      /\ pc'.cluster = pc.cluster /\ pc'.addon = pc.addon
  BY <1>2 DEF engine, history, Stays
<1>5. ClusterDone' /\ AddonDone'
  BY <1>4 DEF Inv, ClusterDone, AddonDone, Runs, Matches
<1>6. PhaseInv'
  BY <1>4, Names DEF Inv, PhaseInv, Making, Deleting
<1>7. PoolDone'
  BY DEF PoolDone, Deleting
<1> QED BY <1>1, <1>3, <1>5, <1>6, <1>7, BaseKept DEF Inv

\* The handler that knows its pool goes on with it.
LEMMA PoolGoes ==
    ASSUME Inv, Keeps, UNCHANGED engine,
           \/ /\ pc.pool \in {"created", "act", "final"}
              /\ Moves("pool", "act") \/ Moves("pool", "final")
           \/ /\ pc.pool \in Deleting
              /\ \E step \in Deleting : Moves("pool", step)
    PROVE  PoolInv'
<1>1. UNCHANGED <<saved, destroying>> /\ (UNCHANGED cur \/ pc'.pool = "failed")
  BY DEF engine, Moves
<1>2. \A p \in Pid : /\ pool'[p].status = "unborn" <=> pool[p].status = "unborn"
                     /\ pool'[p].in = pool[p].in
  BY DEF Keeps, Wanes
<1>3. CASE pc.pool \in {"created", "act", "final"}
           /\ (Moves("pool", "act") \/ Moves("pool", "final"))
  <2>1. saved.pool \in Pid \cup {None}
    BY DEF Inv, TypeOK
  <2>2. saved.pool = None \/ pool'[saved.pool].in = saved.cluster
    BY <1>2, <1>3, <2>1 DEF PoolInv, Inv, Making
  <2>3. cur.pool \in Pid /\ pool[cur.pool].status # "unborn" /\ pool[cur.pool].in = saved.cluster
    BY <1>3 DEF PoolInv, Inv
  <2>4. pc'.pool = "failed" \/ (pc'.pool \in {"created", "act", "final"} /\ UNCHANGED cur)
    BY <1>1, <1>3 DEF Moves
  <2> QED BY <1>1, <1>2, <2>2, <2>3, <2>4 DEF PoolInv, Deleting, Making
<1>4. CASE pc.pool \in Deleting /\ \E step \in Deleting : Moves("pool", step)
  <2>1. pc'.pool = "failed" \/ (pc'.pool \in Deleting /\ UNCHANGED cur)
    BY <1>1, <1>4 DEF Moves
  <2> QED BY <1>1, <1>4, <2>1 DEF PoolInv, Inv, Deleting, Making
<1> QED BY <1>3, <1>4

LEMMA PoolWorks ==
    ASSUME Inv, Keeps, UNCHANGED <<cluster, addon, engine, history>>,
           pc.pool \in {"created", "act", "final"}, Moves("pool", "act") \/ Moves("pool", "final")
    PROVE  Inv'
<1>1. Alone("pool") /\ pc'.pool \in Making \cup {"failed"}
  BY DEF Moves, Making
<1>2. ~destroying /\ pc.cluster = "done"
  BY Names DEF Inv, PhaseInv, Deleting, Making
<1>3. PoolInv'
  BY PoolGoes
<1> QED BY <1>1, <1>2, <1>3, PoolMakes

LEMMA PoolGoing ==
    ASSUME Inv, Keeps, UNCHANGED <<cluster, addon, engine, history>>,
           pc.pool \in Deleting, NEW step \in Deleting, Moves("pool", step)
    PROVE  Inv'
<1>1. Alone("pool") /\ pc'.pool \in Deleting \cup {"gone", "failed"}
  BY DEF Moves
<1>2. destroying /\ pc.pool # "gone"
  BY Names DEF Inv, PhaseInv, Deleting
<1>3. PoolInv'
  BY PoolGoes
<1> QED BY <1>1, <1>2, <1>3, PoolDeletes

\* The plan of the pool begins a generation when the cluster is another one.
LEMMA PlanPoolKeeps == ASSUME Inv, PlanPool PROVE Inv'
<1>1. /\ pc.pool \in {"idle", "planned"} /\ pc.cluster = "done" /\ ~destroying /\ TypeOK
      /\ UNCHANGED <<cluster, pool, addon, want, dirty, destroying, cur, touched, released, upsets>>
  BY DEF PlanPool, Inv, cloud, history
<1> DEFINE moved == saved.pool # None /\ pool[saved.pool].in # saved.cluster
           same == pc.pool = "planned" /\ (saved.pool \in LivePool => pool[saved.pool].size = want.size)
<1>2. \/ /\ moved /\ saved' = [saved EXCEPT !.pool = None] /\ gen' = gen + 1 /\ Goto("pool", "observe")
      \/ /\ ~moved /\ UNCHANGED <<saved, gen>>
         /\ Goto("pool", "observe") \/ (same /\ Goto("pool", "done"))
  BY DEF PlanPool
<1>3. PICK step \in {"observe", "done"} : Goto("pool", step) /\ (step = "done" => same /\ ~moved)
  BY <1>2
<1>4. pc' \in [Res -> Step] /\ pc'.pool = step /\ pc'.cluster = pc.cluster /\ pc'.addon = pc.addon
  <2>1. step \in Step
    BY DEF Step, Rest
  <2> QED BY <1>1, <1>3, <2>1, Names, GotoType
<1>5. UNCHANGED <<LiveCluster, LivePool>> /\ \A d \in Cid : UNCHANGED PoolsIn(d)
  BY <1>1 DEF LiveCluster, LivePool, PoolsIn
<1>6. moved => LivePool = {} /\ gen < upsets
  BY <1>1 DEF Inv, SavedInv, GenInv
<1>7. /\ saved'.cluster = saved.cluster /\ saved'.addon = saved.addon
      /\ saved' \in [cluster : Cid \cup {None}, pool : Pid \cup {None}, addon : Cid \cup {None}]
      /\ saved'.pool = IF moved THEN None ELSE saved.pool
  BY <1>1, <1>2 DEF TypeOK
<1>8. gen \in Nat /\ upsets \in Nat /\ upsets <= MaxUpsets /\ gen' = IF moved THEN gen + 1 ELSE gen
  BY <1>1, <1>2, BoundAssumption DEF TypeOK
<1>9. TypeOK'
  <2> HIDE DEF moved
  <2>1. gen' \in 0..MaxUpsets
    <3>1. gen \in 0..MaxUpsets
      BY <1>1 DEF TypeOK
    <3> QED BY <1>6, <1>8, <3>1, BoundAssumption
  <2> QED BY <1>1, <1>4, <1>7, <2>1 DEF TypeOK
<1>10. PhaseInv'
  BY <1>1, <1>4, <1>3, Names DEF Inv, PhaseInv, Making, Deleting
<1>11. CloudInv' /\ SingleInv'
  BY <1>1, <1>5, <1>7, NoneNotAnId DEF Inv, CloudInv, SingleInv, PoolReleased
<1>12. SavedInv'
  BY <1>1, <1>5, <1>6, <1>7, <1>8 DEF Inv, SavedInv
<1>13. GenInv'
  BY <1>1, <1>5, <1>6, <1>7, <1>8 DEF Inv, GenInv
<1>14. ClusterInv' /\ AddonInv'
  BY <1>1, <1>4, <1>5, <1>7 DEF Inv, ClusterInv, AddonInv, Making, Deleting
<1>15. PoolInv'
  BY <1>1, <1>3, <1>4, <1>7 DEF PoolInv, Deleting
<1>16. ClusterDone' /\ AddonDone'
  BY <1>1, <1>4, <1>7 DEF Inv, ClusterDone, AddonDone, Runs, Matches
<1>17. PoolDone'
  <2> SUFFICES ASSUME step = "done"
               PROVE  PoolDone'
    BY <1>3, <1>4 DEF PoolDone
  <2>1. /\ saved.pool # None /\ saved'.pool = saved.pool
        /\ saved.pool \in released \/ pool[saved.pool].status = "running"
    BY <1>3, <1>7 DEF Inv, PoolDone
  <2>2. saved.pool \in released \/ pool[saved.pool].size = want.size
    BY <1>1, <1>3, <2>1 DEF LivePool, Live, TypeOK
  <2> QED BY <1>1, <2>1, <2>2 DEF PoolDone
<1> QED BY <1>9, <1>10, <1>11, <1>12, <1>13, <1>14, <1>15, <1>16, <1>17 DEF Inv

LEMMA ObservePoolKeeps == ASSUME Inv, ObservePool PROVE Inv'
<1>1. pc.pool = "observe" /\ UNCHANGED <<cloud, engine, history, upsets>>
  BY DEF ObservePool
<1>2. /\ TypeOK /\ ~destroying /\ pc.cluster = "done" /\ Calm
      /\ saved.pool = None \/ pool[saved.pool].in = saved.cluster
  BY <1>1, Names DEF Inv, PhaseInv, PoolInv, Making, Deleting, Calm
<1>3. UNCHANGED <<pool, saved, released>>
  BY <1>1 DEF cloud, engine, history
<1>4. CASE Fail("pool")
  <2>1. Alone("pool") /\ pc'.pool = "failed"
    BY <1>2, <1>4, Names, FailMoves DEF Moves
  <2>2. PoolInv'
    BY <2>1 DEF PoolInv, Making, Deleting
  <2> QED BY <1>1, <1>2, <2>1, <2>2, Quiet, PoolMakes, Names
<1>5. CASE FoundPool = {} /\ Goto("pool", "create") /\ UNCHANGED cur
  <2>1. pc' \in [Res -> Step] /\ pc'.pool = "create" /\ \A q \in Res : q # "pool" => pc'[q] = pc[q]
    BY <1>2, <1>5, Names, GotoType DEF Step
  <2>2. Alone("pool")
    BY <1>2, <1>5, <2>1, CurType, UpsetType DEF Alone, Stays
  <2>3. CASE saved.pool # None
    <3>1. saved.pool \in released \cap Pid /\ pool[saved.pool].in = saved.cluster
      BY <1>2, <1>5, <2>3 DEF Inv, SavedInv, FoundPool, TypeOK
    <3>2. PoolReleased(saved.cluster)'
      BY <1>3, <3>1 DEF PoolReleased
    <3> QED BY <1>1, <1>2, <1>3, <2>1, <2>2, <3>2, Quiet, PoolMakes, Names DEF PoolInv, Making, Deleting
  <2>4. CASE saved.pool = None
    <3>1. LivePool = {}
      BY <1>2, <1>5, <2>4 DEF Inv, SavedInv, FoundPool, PoolsIn
    <3>2. LivePool' = {}
      BY <1>3, <3>1 DEF LivePool
    <3> QED BY <1>1, <1>2, <1>3, <2>1, <2>2, <3>2, Quiet, PoolMakes, Names DEF PoolInv, Making, Deleting
  <2> QED BY <2>3, <2>4
<1>6. ASSUME NEW p \in FoundPool, cur' = [cur EXCEPT !.pool = p],
             NEW step \in {"act", "final"}, Goto("pool", step)
      PROVE  Inv'
  <2>1. p \in LivePool /\ p \in Pid
    BY DEF FoundPool, PoolsIn, LivePool
  <2>2. pc' \in [Res -> Step] /\ pc'.pool = step /\ \A q \in Res : q # "pool" => pc'[q] = pc[q]
    <3>1. step \in Step
      BY DEF Step
    <3> QED BY <1>2, <1>6, <3>1, Names, GotoType
  <2>3. cur' \in Held /\ cur'.pool = p /\ cur'.cluster = cur.cluster
    BY <1>2, <1>6, <2>1, CurType DEF Held
  <2>4. Alone("pool")
    BY <1>2, <2>2, <2>3, UpsetType, Names DEF Alone, Stays, Res
  <2>5. pool[p].in = saved.cluster /\ pool[p].status # "unborn"
    BY <1>2, <2>1 DEF Inv, SavedInv, LivePool, Live
  <2>6. PoolInv'
    BY <1>2, <1>3, <2>1, <2>2, <2>3, <2>5 DEF PoolInv, Deleting
  <2> QED BY <1>1, <1>2, <2>2, <2>4, <2>6, Quiet, PoolMakes, Names DEF Making
<1>7. ObservePool => \/ Fail("pool")
                     \/ FoundPool = {} /\ Goto("pool", "create") /\ UNCHANGED cur
                     \/ \E p \in FoundPool, step \in {"act", "final"} :
                          cur' = [cur EXCEPT !.pool = p] /\ Goto("pool", step)
  BY DEF ObservePool
<1> QED BY <1>4, <1>5, <1>6, <1>7

\* A pool is made only when no other is there, unless one was deleted by hand.
LEMMA CreateClusterNodePoolKeeps == ASSUME Inv, CreateClusterNodePool PROVE Inv'
<1> DEFINE p == CHOOSE q \in Pid : pool[q].status = "unborn"
           new == [status |-> "creating", in |-> saved.cluster, gen |-> gen, size |-> want.size,
                   goal |-> want.size, tagged |-> TRUE, broken |-> FALSE]
<1>1. pc.pool = "create" /\ UNCHANGED <<engine, history>>
  BY DEF CreateClusterNodePool
<1>2. p \in Pid /\ pool[p].status = "unborn"
  BY DEF CreateClusterNodePool
<1>3. /\ TypeOK /\ ~destroying /\ pc.cluster = "done"
      /\ saved.pool = None \/ pool[saved.pool].in = saved.cluster
      /\ LivePool = {} \/ PoolReleased(saved.cluster)
  BY <1>1, Names DEF Inv, PhaseInv, Deleting, Making, PoolInv
<1>4. /\ new \in Pools /\ new.status = "creating" /\ new.in = saved.cluster /\ new.gen = gen
  BY <1>3 DEF TypeOK, Pools, Status
<1>5. \/ /\ Runs(saved.cluster) /\ SetPool(p, new)
         /\ \/ cur' = [cur EXCEPT !.pool = p] /\ Goto("pool", "created") /\ Calm
            \/ Upset /\ Fail("pool")
      \/ Fail("pool") /\ (Upset \/ Calm) /\ UNCHANGED cloud
  BY DEF CreateClusterNodePool
<1> HIDE DEF p, new
<1>6. CASE Fail("pool") /\ (Upset \/ Calm) /\ UNCHANGED cloud
  <2>1. Alone("pool") /\ pc'.pool = "failed"
    BY <1>3, <1>6, Names, FailMoves DEF Moves
  <2>2. PoolInv'
    BY <2>1 DEF PoolInv, Making, Deleting
  <2> QED BY <1>1, <1>3, <1>6, <2>1, <2>2, Quiet, PoolMakes, Names
<1>7. CASE /\ Runs(saved.cluster) /\ SetPool(p, new)
           /\ \/ cur' = [cur EXCEPT !.pool = p] /\ Goto("pool", "created") /\ Calm
              \/ Upset /\ Fail("pool")
  <2>1. /\ Alone("pool")
        /\ pc'.pool = "failed" \/ (pc'.pool = "created" /\ cur'.pool = p)
    <3>1. CASE Upset /\ Fail("pool")
      BY <1>3, <3>1, Names, FailMoves DEF Moves
    <3>2. CASE cur' = [cur EXCEPT !.pool = p] /\ Goto("pool", "created") /\ Calm
      <4>1. pc' \in [Res -> Step] /\ pc'.pool = "created"
            /\ \A q \in Res : q # "pool" => pc'[q] = pc[q]
        BY <1>3, <3>2, Names, GotoType DEF Step
      <4>2. cur' \in Held /\ cur'.pool = p /\ cur'.cluster = cur.cluster
        BY <1>2, <1>3, <3>2, CurType DEF Held
      <4> QED BY <1>3, <3>2, <4>1, <4>2, UpsetType, Names DEF Alone, Stays, Res
    <3> QED BY <1>7, <3>1, <3>2
  <2>2. /\ UNCHANGED <<cluster, addon, want, dirty, gen, saved, destroying, touched, released>>
        /\ pc'.cluster = pc.cluster /\ pc'.addon = pc.addon /\ cur'.cluster = cur.cluster
        /\ upsets \in Nat /\ upsets' \in Nat /\ upsets <= upsets'
        /\ pool' = [pool EXCEPT ![p] = new]
    BY <1>1, <1>3, <1>7, <2>1, Names, BoundAssumption
       DEF SetPool, engine, history, Alone, Stays, TypeOK
  <2>3. pool' \in [Pid -> Pools] /\ \A q \in Pid : pool'[q] = IF q = p THEN new ELSE pool[q]
    BY <1>2, <1>3, <1>4, <2>2 DEF TypeOK
  <2>4. LivePool' = LivePool \cup {p} /\ UNCHANGED LiveCluster /\ p \notin LivePool
    BY <1>2, <1>4, <2>2, <2>3 DEF LiveCluster, LivePool, Live
  <2>5. p # saved.pool /\ p \notin released /\ saved.pool \in Pid \cup {None}
    BY <1>2, <1>3 DEF Inv, CloudInv, TypeOK
  <2>6. saved.cluster \in LiveCluster
    BY <1>7 DEF LiveCluster, Live, Runs
  <2>7. \A c : PoolReleased(c) => PoolReleased(c)'
    BY <2>2, <2>3, <2>5 DEF PoolReleased
  <2>8. TypeOK'
    BY <1>3, <2>1, <2>2, <2>3 DEF TypeOK, Alone, Held
  <2>9. PhaseInv'
    BY <1>3, <2>1, <2>2, Names DEF Inv, PhaseInv, Making, Deleting
  <2>10. CloudInv'
    <3>1. \A q \in LivePool' : pool'[q].in \in LiveCluster'
      BY <1>4, <2>3, <2>4, <2>6 DEF Inv, CloudInv, LivePool
    <3> QED BY <1>4, <2>2, <2>3, <3>1 DEF Inv, CloudInv
  <2>11. SingleInv'
    <3>1. ASSUME NEW c \in Cid, ~PoolReleased(c)', NEW q \in PoolsIn(c)', NEW r \in PoolsIn(c)'
          PROVE  q = r
      <4>1. ~PoolReleased(c) /\ q \in LivePool' /\ r \in LivePool' /\ pool'[q].in = c /\ pool'[r].in = c
        BY <2>7, <3>1 DEF PoolsIn
      <4>2. CASE c = saved.cluster
        <5>1. LivePool = {}
          BY <1>3, <4>1, <4>2
        <5> QED BY <2>4, <4>1, <5>1
      <4>3. CASE c # saved.cluster
        <5>1. q # p /\ r # p /\ q \in LivePool /\ r \in LivePool
          BY <1>2, <1>4, <2>3, <2>4, <4>1, <4>3
        <5>2. q \in PoolsIn(c) /\ r \in PoolsIn(c)
          BY <2>3, <4>1, <5>1 DEF PoolsIn, LivePool
        <5> QED BY <4>1, <5>2 DEF Inv, SingleInv
      <4> QED BY <4>2, <4>3
    <3>2. released' \cap Cid = {} => \A c, d \in LiveCluster' : c = d
      BY <2>2, <2>4 DEF Inv, SingleInv
    <3> QED BY <3>1, <3>2 DEF SingleInv
  <2>12. SavedInv'
    <3>1. \A q \in LivePool' : pool'[q].in = saved.cluster /\ pool'[q].gen = gen
      BY <1>3, <1>4, <2>3, <2>4 DEF Inv, SavedInv, LivePool
    <3>2. saved.pool = None \/ pool'[saved.pool].in = saved.cluster
      BY <1>3, <2>3, <2>5
    <3> QED BY <1>3, <2>2, <2>4, <3>1, <3>2 DEF Inv, SavedInv
  <2>13. GenInv'
    <3>1. saved.pool = None \/ pool'[saved.pool].in = saved.cluster
      BY <1>3, <2>3, <2>5
    <3> QED BY <1>3, <2>2, <2>4, <2>6, <3>1 DEF Inv, GenInv, TypeOK
  <2>14. ClusterInv' /\ AddonInv'
    BY <2>2, <2>4 DEF Inv, ClusterInv, AddonInv, Making, Deleting
  <2>15. PoolInv'
    <3>1. saved.pool = None \/ pool'[saved.pool].in = saved.cluster
      BY <1>3, <2>3, <2>5
    <3> QED BY <1>2, <1>4, <2>1, <2>2, <2>3, <3>1 DEF PoolInv, Deleting, Making
  <2>16. ClusterDone' /\ AddonDone'
    BY <2>2 DEF Inv, ClusterDone, AddonDone, Runs, Matches
  <2>17. PoolDone'
    BY <2>1 DEF PoolDone
  <2> QED BY <2>8, <2>9, <2>10, <2>11, <2>12, <2>13, <2>14, <2>15, <2>16, <2>17 DEF Inv
<1> QED BY <1>5, <1>6, <1>7

LEMMA AwaitPoolKeeps == ASSUME Inv, AwaitPool PROVE Inv'
<1>1. /\ pc.pool \in {"created", "act", "final"} /\ UNCHANGED <<cloud, engine, history>> /\ TypeOK
      /\ {"act", "final"} \subseteq Step
  BY DEF AwaitPool, Inv, Step
<1>2. ASSUME NEW step \in {"act", "final"}, Moves("pool", step)
      PROVE  Inv'
  <2>1. Keeps /\ UNCHANGED <<cluster, pool, addon, engine, history>>
    BY <1>1, <1>2, Quiet, Names DEF Moves
  <2> QED BY <1>1, <1>2, <2>1, PoolWorks
<1>3. ASSUME NEW step \in {"act", "final"}, Proceed("pool", step)
      PROVE  Inv'
  BY <1>1, <1>2, <1>3, ProceedMoves, Names
<1>4. ASSUME NEW ready, NEW thing, Late(ready, thing), Fail("pool")
      PROVE  Inv'
  BY <1>1, <1>2, <1>4, LateFails, Names
<1> QED BY <1>3, <1>4 DEF AwaitPool

LEMMA ModifyPoolKeeps == ASSUME Inv, ModifyClusterNodePool PROVE Inv'
<1> DEFINE p == cur.pool
           thing == [Begin(pool[p], "busy") EXCEPT !.goal = want.size]
           allowed == pool[p].status = "running" /\ Runs(pool[p].in)
           effect == SetPool(p, thing)
<1>1. pc.pool \in {"created", "act", "final"} /\ UNCHANGED <<engine, history>> /\ TypeOK
      /\ "final" \in Step
  BY DEF ModifyClusterNodePool, Inv, Step
<1>2. Moves("pool", "final") /\ ((allowed /\ effect) \/ UNCHANGED cloud)
  <2>1. Once("pool", allowed, effect, "final")
    BY DEF ModifyClusterNodePool
  <2> HIDE DEF allowed, effect
  <2> QED BY <1>1, <2>1, Names, OnceMoves
<1>3. CASE allowed /\ effect
  <2>1. p \in Pid => pool[p] \in Pools /\ want.size \in Choice
    BY <1>1 DEF TypeOK
  <2>2. p \in Pid => /\ thing \in Pools /\ thing.status = "busy" /\ Live(thing) /\ Live(pool[p])
                     /\ thing.in = pool[p].in /\ thing.gen = pool[p].gen
    BY <1>3, <2>1 DEF Begin, Pools, Status, Live
  <2>3. UNCHANGED released /\ upsets' \in 0..MaxUpsets /\ upsets <= upsets'
    BY <1>1, <1>2 DEF history, Moves, Alone
  <2>4. effect
    BY <1>3
  <2> HIDE DEF thing
  <2>5. Keeps /\ UNCHANGED <<cluster, addon>>
    BY <1>1, <2>2, <2>3, <2>4, WritePool
  <2> QED BY <1>1, <1>2, <2>5, PoolWorks
<1>4. CASE UNCHANGED cloud
  <2>1. Keeps /\ UNCHANGED <<cluster, addon>>
    BY <1>1, <1>2, <1>4, Quiet, Names DEF Moves
  <2> QED BY <1>1, <1>2, <2>1, PoolWorks
<1> QED BY <1>2, <1>3, <1>4

LEMMA FinalPoolKeeps == ASSUME Inv, FinalPool PROVE Inv'
<1> DEFINE p == cur.pool
           fits == pool[p].status = "running" /\ PoolFits(p)
<1>1. pc.pool = "final" /\ UNCHANGED <<cloud, want, gen, destroying, history>>
  BY DEF FinalPool
<1>2. /\ TypeOK /\ ~destroying /\ pc.cluster = "done"
      /\ p \in Pid /\ pool[p].in = saved.cluster
  BY <1>1, Names DEF Inv, PhaseInv, Deleting, Making, PoolInv
<1>3. CASE Late(fits, pool[p]) /\ Fail("pool") /\ UNCHANGED <<saved, dirty>>
  <2> HIDE DEF fits
  <2>1. Alone("pool") /\ pc'.pool = "failed"
    BY <1>2, <1>3, Names, LateFails DEF Moves
  <2>2. PoolInv'
    BY <2>1 DEF PoolInv, Making, Deleting
  <2> QED BY <1>1, <1>2, <1>3, <2>1, <2>2, Quiet, PoolMakes, Names DEF engine
<1>4. CASE /\ fits /\ Calm /\ End("pool", "done")
           /\ saved' = [saved EXCEPT !.pool = p]
           /\ dirty' = dirty \ {"size"}
  <2>1. Alone("pool") /\ pc'.pool = "done"
    BY <1>2, <1>4, Names, EndType DEF Step, Rest
  <2>2. /\ UNCHANGED <<cluster, pool, addon, want, gen, destroying, touched, released, upsets>>
        /\ pc'.cluster = pc.cluster /\ pc'.addon = pc.addon /\ cur'.cluster = cur.cluster
        /\ saved'.cluster = saved.cluster /\ saved'.pool = p /\ saved'.addon = saved.addon
    BY <1>1, <1>2, <1>4, <2>1, Names DEF cloud, history, Alone, Stays, TypeOK, Calm
  <2>3. UNCHANGED <<LiveCluster, LivePool>> /\ \A d \in Cid : UNCHANGED PoolsIn(d)
    BY <2>2 DEF LiveCluster, LivePool, PoolsIn
  <2>4. p \in LivePool /\ saved.cluster \in LiveCluster
    <3>1. p \in LivePool
      BY <1>2, <1>4 DEF LivePool, Live
    <3> QED BY <1>2, <3>1 DEF Inv, CloudInv
  <2>5. TypeOK'
    <3>1. saved' \in [cluster : Cid \cup {None}, pool : Pid \cup {None}, addon : Cid \cup {None}]
      BY <1>2, <1>4 DEF TypeOK
    <3>2. cur' \in [cluster : Cid \cup {None}, pool : Pid \cup {None}, todo : SUBSET (1..4)]
          /\ pc' \in [Res -> Step]
      BY <2>1 DEF Alone, Held
    <3> QED BY <1>2, <1>4, <2>2, <3>1, <3>2 DEF TypeOK
  <2>6. PhaseInv'
    BY <1>2, <2>1, <2>2, Names DEF Inv, PhaseInv, Making, Deleting
  <2>7. CloudInv' /\ SingleInv'
    BY <1>2, <2>2, <2>3, <2>4 DEF Inv, CloudInv, SingleInv, PoolReleased, LivePool, Live
  <2>8. SavedInv'
    BY <1>2, <2>2, <2>3, <2>4 DEF Inv, SavedInv
  <2>9. GenInv'
    BY <1>2, <2>2, <2>3, <2>4 DEF Inv, GenInv
  <2>10. ClusterInv' /\ AddonInv'
    BY <2>2, <2>3 DEF Inv, ClusterInv, AddonInv, Making, Deleting
  <2>11. PoolInv'
    BY <1>2, <2>1, <2>2 DEF PoolInv, Making, Deleting
  <2>12. ClusterDone' /\ AddonDone'
    BY <2>2 DEF Inv, ClusterDone, AddonDone, Runs, Matches
  <2>13. PoolDone'
    BY <1>2, <1>4, <2>2, NoneNotAnId DEF PoolDone, PoolFits
  <2> QED BY <2>5, <2>6, <2>7, <2>8, <2>9, <2>10, <2>11, <2>12, <2>13 DEF Inv
<1> QED BY <1>3, <1>4 DEF FinalPool

LEMMA StartDeletePoolKeeps == ASSUME Inv, StartDeletePool PROVE Inv'
<1>1. /\ destroying /\ pc.pool # "gone" /\ TypeOK
      /\ UNCHANGED <<cloud, engine, history, upsets>>
      /\ cur' = [cur EXCEPT !.pool = saved.pool] /\ Goto("pool", "dRead")
  BY DEF StartDeletePool, Inv
<1>2. pc' \in [Res -> Step] /\ pc'.pool = "dRead" /\ \A q \in Res : q # "pool" => pc'[q] = pc[q]
  BY <1>1, Names, GotoType DEF Step
<1>3. cur' \in Held /\ cur'.pool = saved.pool /\ cur'.cluster = cur.cluster
  BY <1>1, CurType DEF Held, TypeOK
<1>4. Alone("pool")
  BY <1>1, <1>2, <1>3, Names DEF Alone, Stays, TypeOK, Res
<1>5. PoolInv'
  BY <1>1, <1>2, <1>3 DEF PoolInv, Making, Deleting, engine
<1> QED BY <1>1, <1>2, <1>4, <1>5, Quiet, PoolDeletes, Names DEF Deleting

\* The deletion ends when what was saved is not there.
LEMMA PoolEnds ==
    ASSUME Inv, pc.pool \in Deleting, cur.pool \notin LivePool,
           Calm, End("pool", "gone"), UNCHANGED <<cloud, engine, history>>
    PROVE  Inv'
<1>1. destroying /\ pc.pool # "gone" /\ TypeOK /\ cur.pool = saved.pool
  BY Names DEF Inv, PhaseInv, PoolInv, Deleting
<1>2. Alone("pool") /\ pc'.pool = "gone"
  BY <1>1, Names, EndType DEF Step, Rest
<1>3. released = {} => LivePool = {}
  BY <1>1 DEF Inv, SavedInv
<1>4. PoolInv'
  BY <1>2, <1>3 DEF PoolInv, Making, Deleting, cloud, history, LivePool
<1> QED BY <1>1, <1>2, <1>4, Quiet, PoolDeletes, Names

LEMMA PoolGoesOn ==
    ASSUME Inv, pc.pool \in Deleting, NEW step \in Deleting, Moves("pool", step),
           UNCHANGED <<cloud, engine, history>>
    PROVE  Inv'
<1>1. Keeps /\ UNCHANGED <<cluster, pool, addon, engine, history>>
  BY Quiet, Names DEF Moves
<1> QED BY <1>1, PoolGoing

LEMMA DeletePoolKeeps == ASSUME Inv, DeleteClusterNodepool PROVE Inv'
<1> DEFINE p == cur.pool
           thing == Begin(pool[p], "deleting")
           allowed == pool[p].status \in {"running", "failed"} /\ Runs(pool[p].in)
           effect == SetPool(p, thing)
<1>1. /\ pc.pool \in Deleting /\ UNCHANGED <<engine, history>> /\ TypeOK
      /\ "dAbsent" \in Deleting /\ "dAbsent" \in Step
  BY DEF DeleteClusterNodepool, Inv, Deleting, Step
<1>2. CASE p \notin LivePool /\ End("pool", "gone") /\ Calm /\ UNCHANGED cloud
  BY <1>1, <1>2, PoolEnds
<1>3. CASE Proceed("pool", "dAbsent") /\ UNCHANGED cloud
  BY <1>1, <1>3, ProceedMoves, Names, PoolGoesOn
<1>4. CASE Continue("pool", allowed, FALSE, effect, "dAbsent")
  <2>1. Moves("pool", "dAbsent") /\ ((allowed /\ effect) \/ UNCHANGED cloud)
    <3> DEFINE over == FALSE
    <3>1. Continue("pool", allowed, over, effect, "dAbsent")
      BY <1>4
    <3> HIDE DEF allowed, over, effect
    <3>2. TypeOK /\ "pool" \in Res /\ "dAbsent" \in Step
      BY <1>1, Names
    <3> QED BY <3>1, <3>2, ContinueMoves
  <2>2. CASE UNCHANGED cloud
    BY <1>1, <2>1, <2>2, PoolGoesOn
  <2>3. CASE allowed /\ effect
    <3>1. p \in Pid => pool[p] \in Pools
      BY <1>1 DEF TypeOK
    <3>2. p \in Pid => /\ thing \in Pools /\ Live(thing) /\ Live(pool[p])
                       /\ thing.in = pool[p].in /\ thing.gen = pool[p].gen
      BY <2>3, <3>1 DEF Begin, Pools, Status, Live
    <3>3. /\ UNCHANGED released /\ upsets' \in 0..MaxUpsets /\ upsets <= upsets'
          /\ destroying /\ effect
      BY <1>1, <2>1, <2>3, Names DEF history, Moves, Alone, Inv, PhaseInv
    <3> HIDE DEF thing
    <3>4. Keeps /\ UNCHANGED <<cluster, addon>>
      BY <1>1, <3>2, <3>3, WritePool
    <3> QED BY <1>1, <2>1, <3>4, PoolGoing
  <2> QED BY <2>1, <2>2, <2>3
<1> QED BY <1>2, <1>3, <1>4 DEF DeleteClusterNodepool

LEMMA PoolAbsentKeeps == ASSUME Inv, PoolAbsent PROVE Inv'
<1>1. /\ pc.pool \in Deleting /\ UNCHANGED <<cloud, engine, history>> /\ TypeOK
      /\ "dAbsent" \in Deleting
  BY DEF PoolAbsent, Inv, Deleting
<1>2. ASSUME NEW ready, NEW thing, Late(ready, thing), Fail("pool")
      PROVE  Inv'
  BY <1>1, <1>2, LateFails, Names, PoolGoesOn
<1> QED BY <1>1, <1>2, PoolEnds DEF PoolAbsent

LEMMA PoolStepKeeps == ASSUME Inv, PoolStep PROVE Inv'
BY PlanPoolKeeps, ObservePoolKeeps, CreateClusterNodePoolKeeps, AwaitPoolKeeps, ModifyPoolKeeps,
   FinalPoolKeeps, StartDeletePoolKeeps, DeletePoolKeeps, PoolAbsentKeeps DEF PoolStep

-----------------------------------------------------------------------------
(* The handler of the addon. *)

LEMMA AddonMakes ==
    ASSUME Inv, Alone("addon"), Keeps, UNCHANGED <<cluster, pool, engine, history>>,
           ~destroying, pc.cluster = "done", pc'.addon \in Making \cup {"failed"}, AddonInv'
    PROVE  Inv'
<1>1. TypeOK'
  BY Names, TypeKept DEF Inv
<1>2. Stays("cluster") /\ Stays("pool")
  BY Names DEF Alone
<1>3. ClusterInv' /\ PoolInv'
  BY <1>2, ClusterStays, PoolStays DEF Inv
<1>4. UNCHANGED <<cluster, pool, saved, want, destroying, touched, released>>
      /\ pc'.cluster = pc.cluster /\ pc'.pool = pc.pool
  BY <1>2 DEF engine, history, Stays
<1>5. ClusterDone' /\ PoolDone'
  BY <1>4 DEF Inv, ClusterDone, PoolDone, Runs, Matches
<1>6. PhaseInv'
  BY <1>4, Names DEF Inv, PhaseInv, Making, Deleting
<1>7. AddonDone'
  BY DEF AddonDone, Making
<1> QED BY <1>1, <1>3, <1>5, <1>6, <1>7, BaseKept DEF Inv

LEMMA AddonDeletes ==
    ASSUME Inv, Alone("addon"), Keeps, UNCHANGED <<cluster, pool, engine, history>>,
           destroying, pc.addon # "gone",
           pc'.addon \in Deleting \cup {"gone", "failed"}, AddonInv'
    PROVE  Inv'
<1>1. TypeOK'
  BY Names, TypeKept DEF Inv
<1>2. Stays("cluster") /\ Stays("pool")
  BY Names DEF Alone
<1>3. ClusterInv' /\ PoolInv'
  BY <1>2, ClusterStays, PoolStays DEF Inv
<1>4. UNCHANGED <<cluster, pool, saved, want, destroying, touched, released>>
      /\ pc'.cluster = pc.cluster /\ pc'.pool = pc.pool
  BY <1>2 DEF engine, history, Stays
<1>5. ClusterDone' /\ PoolDone'
  BY <1>4 DEF Inv, ClusterDone, PoolDone, Runs, Matches
<1>6. PhaseInv'
  BY <1>4, Names DEF Inv, PhaseInv, Making, Deleting
<1>7. AddonDone'
  BY DEF AddonDone, Deleting
<1> QED BY <1>1, <1>3, <1>5, <1>6, <1>7, BaseKept DEF Inv

LEMMA GotoAlone ==
    ASSUME TypeOK, NEW r \in Res, NEW step \in Step, Goto(r, step), UNCHANGED cur, Upset \/ Calm
    PROVE  /\ Alone(r) /\ pc'[r] = step
BY GotoType, UpsetType, CurType DEF Alone, Stays

\* A step that only goes on.
LEMMA AddonGoesOn ==
    ASSUME Inv, Moves("addon", "final") \/ Moves("addon", "act"), Keeps,
           UNCHANGED <<cluster, pool, engine, history>>, pc.addon \in Making
    PROVE  Inv'
<1>1. ~destroying /\ pc.cluster = "done" /\ UNCHANGED saved
  BY Names DEF Inv, PhaseInv, Making, Deleting, engine
<1>2. Alone("addon") /\ pc'.addon \in Making \cup {"failed"}
  BY DEF Moves, Making
<1>3. AddonInv'
  BY <1>1, <1>2 DEF Inv, AddonInv, Making, Deleting
<1> QED BY <1>1, <1>2, <1>3, AddonMakes

LEMMA PlanAddonKeeps == ASSUME Inv, PlanAddon PROVE Inv'
<1>1. /\ pc.addon \in {"idle", "planned"} /\ pc.cluster = "done" /\ ~destroying /\ TypeOK
      /\ UNCHANGED <<cluster, pool, addon, want, dirty, gen, destroying, cur, touched, released, upsets>>
  BY DEF PlanAddon, Inv, cloud, history
<1>2. /\ saved'.cluster = saved.cluster /\ saved'.pool = saved.pool
      /\ saved'.addon = IF saved.addon = saved.cluster THEN saved.addon ELSE None
      /\ saved' \in [cluster : Cid \cup {None}, pool : Pid \cup {None}, addon : Cid \cup {None}]
  BY <1>1 DEF PlanAddon, TypeOK
<1>3. PICK step \in {"observe", "done"} :
        Goto("addon", step) /\ (step = "done" => pc.addon = "planned" /\ saved.addon = saved.cluster)
  BY DEF PlanAddon
<1>4. pc' \in [Res -> Step] /\ pc'.addon = step /\ pc'.cluster = pc.cluster /\ pc'.pool = pc.pool
  <2>1. step \in Step
    BY DEF Step, Rest
  <2> QED BY <1>1, <1>3, <2>1, Names, GotoType
<1>5. UNCHANGED <<LiveCluster, LivePool>> /\ \A d \in Cid : UNCHANGED PoolsIn(d)
  BY <1>1 DEF LiveCluster, LivePool, PoolsIn
<1>6. TypeOK'
  BY <1>1, <1>2, <1>4 DEF TypeOK
<1>7. PhaseInv'
  BY <1>1, <1>4, Names DEF Inv, PhaseInv, Making, Deleting
<1>8. CloudInv' /\ SingleInv'
  BY <1>1, <1>2, <1>5 DEF Inv, CloudInv, SingleInv, PoolReleased
<1>9. SavedInv' /\ GenInv'
  BY <1>1, <1>2, <1>5 DEF Inv, SavedInv, GenInv
<1>10. ClusterInv' /\ PoolInv'
  BY <1>1, <1>2, <1>4, <1>5 DEF Inv, ClusterInv, PoolInv, PoolReleased, Making, Deleting
<1>11. AddonInv'
  BY <1>2, <1>4 DEF AddonInv, Making, Deleting
<1>12. ClusterDone' /\ PoolDone'
  BY <1>1, <1>2, <1>4 DEF Inv, ClusterDone, PoolDone, Runs, Matches
<1>13. AddonDone'
  BY <1>1, <1>2, <1>3, <1>4 DEF Inv, AddonDone
<1> QED BY <1>6, <1>7, <1>8, <1>9, <1>10, <1>11, <1>12, <1>13 DEF Inv

LEMMA ObserveAddonKeeps == ASSUME Inv, ObserveAddon PROVE Inv'
<1>1. pc.addon = "observe" /\ UNCHANGED <<cloud, engine, cur, history, upsets>> /\ TypeOK /\ Calm
  BY DEF ObserveAddon, Inv, Calm
<1>2. ~destroying /\ pc.cluster = "done" /\ UNCHANGED saved
  BY <1>1, Names DEF Inv, PhaseInv, Making, Deleting, engine
<1>3. PICK step \in {"create", "final", "act"} : Goto("addon", step)
  BY DEF ObserveAddon
<1>4. Alone("addon") /\ pc'.addon = step /\ step \in Making
  <2>1. step \in Step /\ step \in Making
    BY DEF Step, Making
  <2> QED BY <1>1, <1>3, <2>1, Names, GotoAlone
<1>5. AddonInv'
  BY <1>1, <1>2, <1>4 DEF Inv, AddonInv, Making, Deleting
<1> QED BY <1>1, <1>2, <1>4, <1>5, Names, Quiet, AddonMakes

\* The addon comes up in the cluster that is saved, and nowhere else.
LEMMA InstallKeeps == ASSUME Inv, InstallClusterAddons PROVE Inv'
<1> DEFINE c == saved.cluster
           new == [status |-> "creating", version |-> want.addon, goal |-> want.addon,
                   tuned |-> TRUE, broken |-> FALSE]
           allowed == Runs(c) /\ ~Live(addon[c])
           effect == SetAddon(c, new)
<1>1. /\ pc.addon = "create" /\ UNCHANGED <<engine, history>> /\ TypeOK
      /\ "final" \in Step
  BY DEF InstallClusterAddons, Inv, Step
<1>2. /\ ~destroying /\ pc.cluster = "done" /\ saved.addon \in {None, c}
      /\ UNCHANGED <<saved, want, dirty, gen, destroying, touched, released>>
  BY <1>1, Names DEF Inv, PhaseInv, Making, Deleting, engine, history, AddonInv
<1>3. Moves("addon", "final") /\ ((allowed /\ effect) \/ UNCHANGED cloud)
  <2>1. Once("addon", allowed, effect, "final")
    BY DEF InstallClusterAddons
  <2> HIDE DEF allowed, effect
  <2> QED BY <1>1, <2>1, Names, OnceMoves
<1>4. CASE UNCHANGED cloud
  BY <1>1, <1>3, <1>4, Quiet, Names, AddonGoesOn DEF Moves, Making
<1>5. CASE allowed /\ effect
  <2>1. c \in Cid /\ Live(cluster[c])
    BY <1>5 DEF Runs, Live
  <2>2. new \in Addons
    BY <1>1 DEF TypeOK, Addons, Status
  <2> HIDE DEF new
  <2>3. UNCHANGED <<cluster, pool>> /\ addon' = [addon EXCEPT ![c] = new]
    BY <1>5 DEF SetAddon
  <2>4. addon' \in [Cid -> Addons] /\ \A d \in Cid : d # c => addon'[d] = addon[d]
    BY <1>1, <2>2, <2>3 DEF TypeOK
  <2>5. /\ pc'.addon \in Making \cup {"failed"} /\ pc'.cluster = pc.cluster /\ pc'.pool = pc.pool
        /\ cur'.cluster = cur.cluster /\ cur'.pool = cur.pool
        /\ pc' \in [Res -> Step] /\ cur' \in Held
        /\ upsets' \in 0..MaxUpsets /\ upsets \in 0..MaxUpsets /\ upsets <= upsets'
    BY <1>1, <1>3, Names DEF Moves, Alone, Stays, Making, TypeOK
  <2>6. UNCHANGED <<LiveCluster, LivePool>> /\ \A d \in Cid : UNCHANGED PoolsIn(d)
    BY <2>3 DEF LiveCluster, LivePool, PoolsIn
  <2>7. TypeOK'
    BY <1>1, <1>2, <2>3, <2>4, <2>5 DEF TypeOK, Held
  <2>8. PhaseInv'
    BY <1>2, <2>5, Names DEF Inv, PhaseInv, Making, Deleting
  <2>9. CloudInv' /\ SingleInv'
    BY <1>2, <2>1, <2>3, <2>4, <2>6 DEF Inv, CloudInv, SingleInv, PoolReleased
  <2>10. SavedInv'
    BY <1>2, <2>3, <2>4, <2>6 DEF Inv, SavedInv
  <2>11. GenInv'
    BY <1>1, <1>2, <2>3, <2>5, <2>6, BoundAssumption DEF Inv, GenInv, TypeOK
  <2>12. ClusterInv' /\ PoolInv'
    BY <1>2, <2>3, <2>5, <2>6 DEF Inv, ClusterInv, PoolInv, PoolReleased, Making, Deleting
  <2>13. AddonInv'
    BY <1>2, <2>5 DEF AddonInv, Making, Deleting
  <2>14. ClusterDone' /\ PoolDone' /\ AddonDone'
    BY <1>2, <2>3, <2>5 DEF Inv, ClusterDone, PoolDone, AddonDone, Runs, Matches, Making
  <2> QED BY <2>7, <2>8, <2>9, <2>10, <2>11, <2>12, <2>13, <2>14 DEF Inv
<1> QED BY <1>3, <1>4, <1>5

LEMMA UpgradeAddonKeeps == ASSUME Inv, UpgradeClusterAddons PROVE Inv'
<1> DEFINE c == saved.cluster
           upgraded == [Begin(addon[c], "busy") EXCEPT !.goal = want.addon]
           tuned == [addon[c] EXCEPT !.tuned = TRUE]
           allowed == Runs(c) /\ addon[c].status = "running"
<1>1. /\ pc.addon = "act" /\ UNCHANGED <<engine, history>> /\ TypeOK
      /\ "final" \in Step
  BY DEF UpgradeClusterAddons, Inv, Step
<1>2. PICK thing \in {upgraded, tuned} : Once("addon", allowed, SetAddon(c, thing), "final")
  BY DEF UpgradeClusterAddons
<1>3. c \in Cid /\ allowed => thing \in Addons /\ Live(addon[c])
  <2>1. c \in Cid => addon[c] \in Addons /\ want.addon \in Choice
    BY <1>1 DEF TypeOK
  <2>2. c \in Cid => upgraded \in Addons /\ tuned \in Addons
    BY <2>1 DEF Begin, Addons, Status
  <2> QED BY <2>2 DEF Live
<1> HIDE DEF upgraded, tuned
<1> DEFINE effect == SetAddon(c, thing)
<1>4. Moves("addon", "final") /\ ((allowed /\ effect) \/ UNCHANGED cloud)
  <2>1. Once("addon", allowed, effect, "final")
    BY <1>2
  <2> HIDE DEF allowed, effect
  <2> QED BY <1>1, <2>1, Names, OnceMoves
<1>5. CASE UNCHANGED cloud
  BY <1>1, <1>4, <1>5, Quiet, Names, AddonGoesOn DEF Moves, Making
<1>6. CASE allowed /\ effect
  <2>1. UNCHANGED released /\ upsets' \in 0..MaxUpsets /\ upsets <= upsets'
    BY <1>1, <1>4 DEF history, Moves, Alone
  <2>2. Keeps /\ UNCHANGED <<cluster, pool>>
    BY <1>1, <1>3, <1>6, <2>1, WriteAddon
  <2> QED BY <1>1, <1>4, <2>2, AddonGoesOn DEF Making
<1> QED BY <1>4, <1>5, <1>6

LEMMA FinalAddonKeeps == ASSUME Inv, FinalAddon PROVE Inv'
<1> DEFINE c == saved.cluster
           fits == addon[c].status = "running" /\ AddonFits(c)
<1>1. pc.addon = "final" /\ UNCHANGED <<cloud, want, dirty, gen, destroying, cur, history>> /\ TypeOK
  BY DEF FinalAddon, Inv
<1>2. ~destroying /\ pc.cluster = "done" /\ c # None /\ saved.addon \in {None, c}
  BY <1>1, Names DEF Inv, PhaseInv, Making, Deleting, ClusterDone, AddonInv
<1>3. CASE Late(fits, addon[c]) /\ Goto("addon", "failed") /\ UNCHANGED saved
  <2> HIDE DEF fits
  <2>1. (Upset \/ Calm) /\ "failed" \in Step
    BY <1>3 DEF Late, Step, Rest
  <2>2. Alone("addon") /\ pc'.addon = "failed"
    BY <1>1, <1>3, <2>1, Names, GotoAlone
  <2>3. AddonInv'
    BY <2>2 DEF AddonInv, Making, Deleting
  <2> QED BY <1>1, <1>2, <1>3, <2>2, <2>3, Quiet, AddonMakes, Names DEF engine
<1>4. CASE fits /\ Calm /\ Goto("addon", "done") /\ saved' = [saved EXCEPT !.addon = c]
  <2>1. Alone("addon") /\ pc'.addon = "done"
    BY <1>1, <1>4, Names, GotoAlone DEF Step, Rest
  <2>2. /\ UNCHANGED <<cluster, pool, addon, want, gen, destroying, touched, released, upsets>>
        /\ pc'.cluster = pc.cluster /\ pc'.pool = pc.pool /\ UNCHANGED cur
        /\ saved'.cluster = c /\ saved'.pool = saved.pool /\ saved'.addon = c
    BY <1>1, <1>4, <2>1, Names DEF cloud, history, Alone, Stays, TypeOK, Calm
  <2>3. UNCHANGED <<LiveCluster, LivePool>> /\ \A d \in Cid : UNCHANGED PoolsIn(d)
    BY <2>2 DEF LiveCluster, LivePool, PoolsIn
  <2>4. TypeOK'
    <3>1. saved' \in [cluster : Cid \cup {None}, pool : Pid \cup {None}, addon : Cid \cup {None}]
      BY <1>1, <1>4 DEF TypeOK
    <3>2. pc' \in [Res -> Step]
      BY <2>1 DEF Alone
    <3> QED BY <1>1, <2>2, <3>1, <3>2 DEF TypeOK
  <2>5. PhaseInv'
    BY <1>2, <2>1, <2>2, Names DEF Inv, PhaseInv, Making, Deleting
  <2>6. CloudInv' /\ SingleInv'
    BY <2>2, <2>3 DEF Inv, CloudInv, SingleInv, PoolReleased
  <2>7. SavedInv' /\ GenInv'
    BY <1>2, <2>2, <2>3 DEF Inv, SavedInv, GenInv
  <2>8. ClusterInv' /\ PoolInv'
    BY <2>2, <2>3 DEF Inv, ClusterInv, PoolInv, PoolReleased, Making, Deleting
  <2>9. AddonInv'
    BY <2>1, <2>2 DEF AddonInv, Making, Deleting
  <2>10. ClusterDone' /\ PoolDone'
    BY <2>2 DEF Inv, ClusterDone, PoolDone, Runs, Matches
  <2>11. AddonDone'
    BY <1>2, <1>4, <2>2 DEF AddonDone, AddonFits, Busy
  <2> QED BY <2>4, <2>5, <2>6, <2>7, <2>8, <2>9, <2>10, <2>11 DEF Inv
<1> QED BY <1>3, <1>4 DEF FinalAddon

LEMMA StartDeleteAddonKeeps == ASSUME Inv, StartDeleteAddon PROVE Inv'
<1>1. /\ destroying /\ pc.addon = "idle" /\ UNCHANGED <<cloud, engine, cur, history, upsets>>
      /\ TypeOK /\ Calm /\ UNCHANGED <<addon, saved>>
  BY DEF StartDeleteAddon, Inv, Calm, cloud, engine
<1>2. PICK step \in {"gone", "dRead"} :
        Goto("addon", step) /\ (step = "gone" <=> saved.addon = None)
  BY DEF StartDeleteAddon
<1>3. Alone("addon") /\ pc'.addon = step
  <2>1. step \in Step
    BY DEF Step, Rest
  <2> QED BY <1>1, <1>2, <2>1, Names, GotoAlone
<1>4. saved.addon = None => \A c \in Cid : ~Live(addon[c])
  BY <1>1, NoneNotAnId DEF Inv, SavedInv
<1>5. AddonInv'
  BY <1>1, <1>2, <1>3, <1>4 DEF AddonInv, Making, Deleting
<1> QED BY <1>1, <1>3, <1>5, Quiet, AddonDeletes, Names DEF Deleting

LEMMA AddonEnds ==
    ASSUME Inv, pc.addon \in Deleting, ~Live(addon[saved.addon]),
           Proceed("addon", "gone"), UNCHANGED <<cloud, engine, history>>
    PROVE  Inv'
<1>1. destroying /\ pc.addon # "gone" /\ TypeOK /\ UNCHANGED addon /\ "gone" \in Step
  BY Names DEF Inv, PhaseInv, Deleting, cloud, Step, Rest
<1>2. Alone("addon") /\ pc'.addon = "gone"
  BY <1>1, Names, ProceedMoves DEF Moves
<1>3. \A c \in Cid : ~Live(addon[c])
  BY <1>1 DEF Inv, SavedInv
<1>4. AddonInv'
  BY <1>1, <1>2, <1>3 DEF AddonInv, Making, Deleting
<1> QED BY <1>1, <1>2, <1>4, Quiet, AddonDeletes, Names

LEMMA AddonGoing ==
    ASSUME Inv, Keeps, UNCHANGED <<cluster, pool, engine, history>>,
           pc.addon \in Deleting, NEW step \in Deleting, Moves("addon", step)
    PROVE  Inv'
<1>1. Alone("addon") /\ pc'.addon \in Deleting \cup {"gone", "failed"}
      /\ pc'.addon \in Deleting \cup {"failed"}
  BY DEF Moves
<1>2. destroying /\ pc.addon # "gone" /\ UNCHANGED saved
  BY Names DEF Inv, PhaseInv, Deleting, engine
<1>3. AddonInv'
  BY <1>1, <1>2 DEF AddonInv, Inv, Making, Deleting
<1> QED BY <1>1, <1>2, <1>3, AddonDeletes

LEMMA AddonWaits ==
    ASSUME Inv, pc.addon \in Deleting, NEW step \in Deleting, Moves("addon", step),
           UNCHANGED <<cloud, engine, history>>
    PROVE  Inv'
<1>1. Keeps /\ UNCHANGED <<cluster, pool, addon, engine, history>>
  BY Quiet, Names DEF Moves
<1> QED BY <1>1, AddonGoing

LEMMA UnInstallKeeps == ASSUME Inv, UnInstallClusterAddons PROVE Inv'
<1> DEFINE c == saved.addon
           thing == Begin(addon[c], "deleting")
           allowed == addon[c].status = "running" /\ Runs(c)
           effect == SetAddon(c, thing)
<1>1. /\ pc.addon \in Deleting /\ UNCHANGED <<engine, history>> /\ TypeOK
      /\ "dAbsent" \in Deleting /\ "dAbsent" \in Step
  BY DEF UnInstallClusterAddons, Inv, Deleting, Step
<1>2. CASE ~Live(addon[c]) /\ Proceed("addon", "gone") /\ UNCHANGED cloud
  BY <1>1, <1>2, AddonEnds
<1>3. CASE Proceed("addon", "dAbsent") /\ UNCHANGED cloud
  BY <1>1, <1>3, ProceedMoves, Names, AddonWaits
<1>4. CASE Continue("addon", allowed, FALSE, effect, "dAbsent")
  <2>1. Moves("addon", "dAbsent") /\ ((allowed /\ effect) \/ UNCHANGED cloud)
    <3> DEFINE over == FALSE
    <3>1. Continue("addon", allowed, over, effect, "dAbsent")
      BY <1>4
    <3> HIDE DEF allowed, over, effect
    <3>2. TypeOK /\ "addon" \in Res /\ "dAbsent" \in Step
      BY <1>1, Names
    <3> QED BY <3>1, <3>2, ContinueMoves
  <2>2. CASE UNCHANGED cloud
    BY <1>1, <2>1, <2>2, AddonWaits
  <2>3. CASE allowed /\ effect
    <3>1. c \in Cid => addon[c] \in Addons
      BY <1>1 DEF TypeOK
    <3>2. c \in Cid => thing \in Addons /\ Live(addon[c])
      BY <2>3, <3>1 DEF Begin, Addons, Status, Live
    <3>3. UNCHANGED released /\ upsets' \in 0..MaxUpsets /\ upsets <= upsets' /\ effect
      BY <1>1, <2>1, <2>3 DEF history, Moves, Alone
    <3> HIDE DEF thing
    <3>4. Keeps /\ UNCHANGED <<cluster, pool>>
      BY <1>1, <3>2, <3>3, WriteAddon
    <3> QED BY <1>1, <2>1, <3>4, AddonGoing
  <2> QED BY <2>1, <2>2, <2>3
<1> QED BY <1>2, <1>3, <1>4 DEF UnInstallClusterAddons

LEMMA AddonAbsentKeeps == ASSUME Inv, AddonAbsent PROVE Inv'
<1>1. /\ pc.addon \in Deleting /\ UNCHANGED <<cloud, engine, history>> /\ TypeOK
      /\ "dAbsent" \in Deleting
  BY DEF AddonAbsent, Inv, Deleting
<1>2. ASSUME NEW ready, NEW thing, Late(ready, thing), Fail("addon")
      PROVE  Inv'
  BY <1>1, <1>2, LateFails, Names, AddonWaits
<1> QED BY <1>1, <1>2, AddonEnds DEF AddonAbsent

LEMMA AddonStepKeeps == ASSUME Inv, AddonStep PROVE Inv'
BY PlanAddonKeeps, ObserveAddonKeeps, InstallKeeps, UpgradeAddonKeeps, FinalAddonKeeps,
   StartDeleteAddonKeeps, UnInstallKeeps, AddonAbsentKeeps DEF AddonStep

-----------------------------------------------------------------------------
(* The cloud by itself, and the operator. *)

LEMMA WaneCluster ==
    ASSUME TypeOK, NEW c \in Cid, NEW thing \in Clusters, SetCluster(c, thing),
           Live(thing), Live(cluster[c]), thing.status = "deleting" => destroying
    PROVE  /\ CloudType' /\ Wanes /\ UNCHANGED <<pool, addon>>
           /\ \A d \in Cid : cluster'[d] = IF d = c THEN thing ELSE cluster[d]
<1>1. UNCHANGED <<pool, addon>> /\ cluster' = [cluster EXCEPT ![c] = thing]
  BY DEF SetCluster
<1>2. /\ \A d \in Cid : cluster'[d] = IF d = c THEN thing ELSE cluster[d]
      /\ CloudType'
  BY <1>1 DEF CloudType, TypeOK
<1>3. \A d \in Cid : /\ Live(cluster'[d]) <=> Live(cluster[d])
                     /\ cluster'[d].status = "unborn" <=> cluster[d].status = "unborn"
                     /\ cluster'[d].status = "deleting" => cluster[d].status = "deleting" \/ destroying
  BY <1>2 DEF Live
<1> QED BY <1>1, <1>2, <1>3 DEF Wanes, LiveCluster

LEMMA WanePool ==
    ASSUME TypeOK, NEW p \in Pid, NEW thing \in Pools, SetPool(p, thing),
           thing.status # "unborn", Live(pool[p]),
           thing.in = pool[p].in, thing.gen = pool[p].gen,
           thing.status = "deleting" => destroying
    PROVE  /\ CloudType' /\ Wanes /\ UNCHANGED <<cluster, addon>>
           /\ \A q \in Pid : pool'[q] = IF q = p THEN thing ELSE pool[q]
<1>1. UNCHANGED <<cluster, addon>> /\ pool' = [pool EXCEPT ![p] = thing]
  BY DEF SetPool
<1>2. /\ \A q \in Pid : pool'[q] = IF q = p THEN thing ELSE pool[q]
      /\ CloudType'
  BY <1>1 DEF CloudType, TypeOK
<1>3. \A q \in Pid : /\ Live(pool'[q]) => Live(pool[q])
                     /\ pool'[q].status = "unborn" <=> pool[q].status = "unborn"
                     /\ pool'[q].status = "deleting" => pool[q].status = "deleting" \/ destroying
                     /\ pool'[q].in = pool[q].in /\ pool'[q].gen = pool[q].gen
  BY <1>2 DEF Live
<1> QED BY <1>1, <1>2, <1>3 DEF Wanes, LiveCluster

LEMMA WaneAddon ==
    ASSUME TypeOK, NEW c \in Cid, NEW thing \in Addons, SetAddon(c, thing), Live(addon[c])
    PROVE  /\ CloudType' /\ Wanes /\ UNCHANGED <<cluster, pool>>
           /\ \A d \in Cid : addon'[d] = IF d = c THEN thing ELSE addon[d]
<1>1. UNCHANGED <<cluster, pool>> /\ addon' = [addon EXCEPT ![c] = thing]
  BY DEF SetAddon
<1>2. /\ \A d \in Cid : addon'[d] = IF d = c THEN thing ELSE addon[d]
      /\ CloudType'
  BY <1>1 DEF CloudType, TypeOK
<1>3. \A d \in Cid : Live(addon'[d]) => Live(addon[d])
  BY <1>2
<1> QED BY <1>1, <1>2, <1>3 DEF Wanes, LiveCluster

\* The pools and the addon of a cluster go with it.
LEMMA WaneTogether ==
    ASSUME TypeOK, NEW c \in LiveCluster, RemoveCluster(c)
    PROVE  /\ CloudType' /\ Wanes
           /\ \A d \in Cid : /\ cluster'[d] = IF d = c THEN [cluster[d] EXCEPT !.status = "gone"]
                                              ELSE cluster[d]
                             /\ addon'[d] = IF d = c THEN [addon[d] EXCEPT !.status = "gone"]
                                            ELSE addon[d]
           /\ \A p \in Pid : pool'[p] = IF p \in PoolsIn(c) THEN [pool[p] EXCEPT !.status = "gone"]
                                        ELSE pool[p]
<1>1. c \in Cid /\ Live(cluster[c])
  BY DEF LiveCluster
<1>2. /\ cluster \in [Cid -> Clusters] /\ pool \in [Pid -> Pools] /\ addon \in [Cid -> Addons]
      /\ "gone" \in Status
  BY DEF TypeOK, Status
<1>3. \A d \in Cid :
        /\ cluster'[d] = IF d = c THEN [cluster[d] EXCEPT !.status = "gone"] ELSE cluster[d]
        /\ addon'[d] = IF d = c THEN [addon[d] EXCEPT !.status = "gone"] ELSE addon[d]
  BY <1>2 DEF RemoveCluster
<1>4. \A p \in Pid : pool'[p] = IF p \in PoolsIn(c) THEN [pool[p] EXCEPT !.status = "gone"]
                                ELSE pool[p]
  BY DEF RemoveCluster
<1>5. cluster' \in [Cid -> Clusters]
  <2>1. [cluster[c] EXCEPT !.status = "gone"] \in Clusters
    BY <1>1, <1>2 DEF Clusters
  <2> QED BY <1>2, <2>1 DEF RemoveCluster
<1>6. addon' \in [Cid -> Addons]
  <2>1. [addon[c] EXCEPT !.status = "gone"] \in Addons
    BY <1>1, <1>2 DEF Addons
  <2> QED BY <1>2, <2>1 DEF RemoveCluster
<1>7. pool' \in [Pid -> Pools]
  <2>1. \A p \in Pid : [pool[p] EXCEPT !.status = "gone"] \in Pools
    BY <1>2 DEF Pools
  <2> QED BY <1>2, <2>1 DEF RemoveCluster
<1>8. \A d \in Cid :
        /\ cluster'[d].status = IF d = c THEN "gone" ELSE cluster[d].status
        /\ addon'[d].status = IF d = c THEN "gone" ELSE addon[d].status
  BY <1>2, <1>3 DEF Clusters, Addons
<1>9. \A p \in Pid : /\ pool'[p].status = IF p \in PoolsIn(c) THEN "gone" ELSE pool[p].status
                     /\ pool'[p].in = pool[p].in /\ pool'[p].gen = pool[p].gen
  BY <1>2, <1>4 DEF Pools
<1>10. Wanes
  <2>1. \A d \in Cid :
         /\ Live(cluster'[d]) => Live(cluster[d])
         /\ cluster'[d].status = "unborn" <=> cluster[d].status = "unborn"
         /\ cluster'[d].status = "deleting" => cluster[d].status = "deleting" \/ destroying
         /\ Live(addon'[d]) => Live(addon[d]) /\ (Live(cluster[d]) => Live(cluster'[d]))
    BY <1>1, <1>8 DEF Live
  <2>2. \A p \in Pid :
         /\ Live(pool'[p]) => Live(pool[p])
         /\ Live(pool'[p]) /\ pool[p].in \in LiveCluster => Live(cluster'[pool[p].in])
         /\ pool'[p].status = "unborn" <=> pool[p].status = "unborn"
         /\ pool'[p].status = "deleting" => pool[p].status = "deleting" \/ destroying
    BY <1>1, <1>8, <1>9 DEF Live, PoolsIn, LivePool, LiveCluster
  <2> QED BY <1>9, <2>1, <2>2 DEF Wanes
<1> QED BY <1>3, <1>4, <1>5, <1>6, <1>7, <1>10 DEF CloudType

\* The handlers and the outputs stay as they are.
LEMMA CloudMoves ==
    ASSUME Inv, Keeps, UNCHANGED <<engine, pc, cur>>, touched' \in BOOLEAN,
           released' \in SUBSET (Cid \cup Pid), upsets' \in 0..MaxUpsets,
           ClusterDone', PoolDone', AddonDone'
    PROVE  Inv'
<1>1. \A r \in Res : Stays(r)
  BY DEF Stays
<1>2. ClusterInv' /\ PoolInv' /\ AddonInv'
  BY <1>1, Names, ClusterStays, PoolStays, AddonStays DEF Inv
<1>3. TypeOK'
  BY DEF Inv, TypeOK, Keeps, CloudType, engine
<1>4. PhaseInv'
  BY DEF Inv, PhaseInv, engine
<1> QED BY <1>2, <1>3, <1>4, BaseKept DEF Inv

\* A task that ends touches nothing that rests; only a destroy's takes along
\* what is in the cluster.
LEMMA TasksMove ==
    ASSUME Inv, CloudType', Wanes, UNCHANGED <<engine, pc, cur, history>>,
           upsets' \in 0..MaxUpsets, upsets <= upsets',
           ~destroying =>
             /\ \A c \in Cid : /\ Live(cluster[c]) => Live(cluster'[c])
                               /\ ~Busy(cluster[c]) => cluster'[c] = cluster[c]
                               /\ ~Busy(addon[c]) => addon'[c] = addon[c]
             /\ \A p \in Pid : /\ Live(pool[p]) => Live(pool'[p])
                               /\ ~Busy(pool[p]) => pool'[p] = pool[p]
    PROVE  Inv'
<1>1. /\ TypeOK /\ UNCHANGED <<saved, want, destroying, touched, released>>
      /\ saved.cluster \in Cid \cup {None} /\ saved.pool \in Pid \cup {None}
      /\ saved.addon \in Cid \cup {None} /\ upsets \in Nat /\ upsets' \in Nat
  BY BoundAssumption DEF Inv, TypeOK, engine, history
<1>2. Keeps
  BY <1>1 DEF Keeps, Excused
<1>3. \A r \in Res : pc[r] \in {"done", "planned"} => ~destroying
  BY DEF Inv, PhaseInv, Deleting
<1>4. ClusterDone'
  <2>1. pc.cluster \in {"done", "planned"} /\ saved.cluster \notin released =>
          Runs(saved.cluster) /\ cluster'[saved.cluster] = cluster[saved.cluster]
    BY <1>3, Names DEF Inv, ClusterDone, Runs, Busy
  <2> QED BY <1>1, <2>1 DEF Inv, ClusterDone, Runs, Matches
<1>5. PoolDone'
  <2>1. pc.pool \in {"done", "planned"} /\ saved.pool \notin released =>
          saved.pool \in Pid /\ pool'[saved.pool] = pool[saved.pool]
    BY <1>1, <1>3, Names DEF Inv, PoolDone, Busy
  <2> QED BY <1>1, <2>1 DEF Inv, PoolDone
<1>6. AddonDone'
  <2>1. pc.addon \in {"done", "planned"} => addon'[saved.addon] = addon[saved.addon]
    BY <1>1, <1>3, Names DEF Inv, AddonDone
  <2> QED BY <1>1, <2>1 DEF Inv, AddonDone
<1> QED BY <1>1, <1>2, <1>4, <1>5, <1>6, CloudMoves DEF TypeOK

LEMMA TaskEndsKeeps == ASSUME Inv, TaskEnds PROVE Inv'
<1>1. /\ TypeOK /\ UNCHANGED <<engine, pc, cur, history, upsets>>
      /\ upsets' \in 0..MaxUpsets /\ upsets <= upsets'
  <2>1. TypeOK /\ UNCHANGED <<engine, pc, cur, history, upsets>>
    BY DEF Inv, TaskEnds
  <2>2. upsets \in 0..MaxUpsets
    BY <2>1 DEF TypeOK
  <2> QED BY <2>1, <2>2, BoundAssumption
<1>2. ASSUME NEW c \in Cid, Busy(cluster[c]), cluster[c].status = "deleting", RemoveCluster(c)
      PROVE  Inv'
  <2>1. destroying /\ c \in LiveCluster
    BY <1>2 DEF Inv, CloudInv, LiveCluster, Live
  <2> QED BY <1>1, <1>2, <2>1, WaneTogether, TasksMove
<1>3. ASSUME NEW c \in Cid, Busy(cluster[c]),
             SetCluster(c, [cluster[c] EXCEPT !.status = "running", !.is = cluster[c].goal])
      PROVE  Inv'
  <2> DEFINE thing == [cluster[c] EXCEPT !.status = "running", !.is = cluster[c].goal]
  <2>1. cluster[c] \in Clusters
    BY <1>1 DEF TypeOK
  <2>2. thing \in Clusters /\ thing.status = "running" /\ SetCluster(c, thing)
    BY <1>3, <2>1 DEF Clusters, Status
  <2> HIDE DEF thing
  <2>3. Live(thing) /\ Live(cluster[c])
    BY <1>3, <2>2 DEF Live, Busy
  <2>4. /\ CloudType' /\ Wanes /\ UNCHANGED <<pool, addon>>
        /\ \A d \in Cid : cluster'[d] = IF d = c THEN thing ELSE cluster[d]
    BY <1>1, <2>2, <2>3, WaneCluster
  <2> QED BY <1>1, <1>3, <2>3, <2>4, TasksMove
<1>4. ASSUME NEW p \in Pid, Busy(pool[p]),
             NEW thing \in Pools, SetPool(p, thing), thing.in = pool[p].in, thing.gen = pool[p].gen,
             thing.status = IF pool[p].status = "deleting" THEN "gone" ELSE "running"
      PROVE  Inv'
  <2>1. Live(pool[p])
    BY <1>4 DEF Live, Busy
  <2>2. /\ CloudType' /\ Wanes /\ UNCHANGED <<cluster, addon>>
        /\ \A q \in Pid : pool'[q] = IF q = p THEN thing ELSE pool[q]
    BY <1>1, <1>4, <2>1, WanePool
  <2>3. ~destroying => Live(thing)
    BY <1>4 DEF Inv, CloudInv, Live
  <2> QED BY <1>1, <1>4, <2>2, <2>3, TasksMove
<1>5. ASSUME NEW c \in Cid, Busy(addon[c]), NEW thing \in Addons, SetAddon(c, thing)
      PROVE  Inv'
  <2>1. Live(addon[c])
    BY <1>5 DEF Live, Busy
  <2>2. /\ CloudType' /\ Wanes /\ UNCHANGED <<cluster, pool>>
        /\ \A d \in Cid : addon'[d] = IF d = c THEN thing ELSE addon[d]
    BY <1>1, <1>5, <2>1, WaneAddon
  <2> QED BY <1>1, <1>5, <2>2, TasksMove
<1>6. ASSUME NEW p \in Pid, Busy(pool[p]),
             SetPool(p, IF pool[p].status = "deleting" THEN [pool[p] EXCEPT !.status = "gone"]
                        ELSE [pool[p] EXCEPT !.status = "running", !.size = pool[p].goal,
                                             !.tagged = TRUE])
      PROVE  Inv'
  <2>1. pool[p] \in Pools
    BY <1>1 DEF TypeOK
  <2>2. CASE pool[p].status = "deleting"
    BY <1>4, <1>6, <2>1, <2>2 DEF Pools, Status
  <2>3. CASE pool[p].status # "deleting"
    BY <1>4, <1>6, <2>1, <2>3 DEF Pools, Status
  <2> QED BY <2>2, <2>3
<1>7. ASSUME NEW c \in Cid, Busy(addon[c]),
             SetAddon(c, IF addon[c].status = "deleting" THEN [addon[c] EXCEPT !.status = "gone"]
                         ELSE [addon[c] EXCEPT !.status = "running", !.version = addon[c].goal,
                                               !.tuned = TRUE])
      PROVE  Inv'
  <2>1. addon[c] \in Addons
    BY <1>1 DEF TypeOK
  <2> QED BY <1>5, <1>7, <2>1 DEF Addons, Status
<1> QED BY <1>2, <1>3, <1>6, <1>7 DEF TaskEnds

LEMMA TaskFailsKeeps == ASSUME Inv, TaskFails PROVE Inv'
<1>1. /\ TypeOK /\ UNCHANGED <<engine, pc, cur, history>>
      /\ upsets' \in 0..MaxUpsets /\ upsets <= upsets'
  BY UpsetType DEF Inv, TaskFails
<1>2. ASSUME NEW c \in Cid, Busy(cluster[c]), NEW thing \in Clusters, SetCluster(c, thing),
             thing.status \in {"failed", "running"}
      PROVE  Inv'
  <2>1. Live(thing) /\ Live(cluster[c])
    BY <1>2 DEF Live, Busy
  <2>2. /\ CloudType' /\ Wanes /\ UNCHANGED <<pool, addon>>
        /\ \A d \in Cid : cluster'[d] = IF d = c THEN thing ELSE cluster[d]
    BY <1>1, <1>2, <2>1, WaneCluster
  <2> QED BY <1>1, <1>2, <2>1, <2>2, TasksMove
<1>3. ASSUME NEW p \in Pid, Busy(pool[p]), NEW thing \in Pools, SetPool(p, thing),
             thing.status \in {"failed", "running"},
             thing.in = pool[p].in, thing.gen = pool[p].gen
      PROVE  Inv'
  <2>1. Live(thing) /\ Live(pool[p]) /\ thing.status # "unborn"
    BY <1>3 DEF Live, Busy
  <2>2. /\ CloudType' /\ Wanes /\ UNCHANGED <<cluster, addon>>
        /\ \A q \in Pid : pool'[q] = IF q = p THEN thing ELSE pool[q]
    BY <1>1, <1>3, <2>1, WanePool
  <2> QED BY <1>1, <1>3, <2>1, <2>2, TasksMove
<1>4. ASSUME NEW c \in Cid, Busy(addon[c]), NEW thing \in Addons, SetAddon(c, thing)
      PROVE  Inv'
  <2>1. Live(addon[c])
    BY <1>4 DEF Live, Busy
  <2>2. /\ CloudType' /\ Wanes /\ UNCHANGED <<cluster, pool>>
        /\ \A d \in Cid : addon'[d] = IF d = c THEN thing ELSE addon[d]
    BY <1>1, <1>4, <2>1, WaneAddon
  <2> QED BY <1>1, <1>4, <2>2, TasksMove
<1>5. ASSUME NEW c \in Cid, Busy(cluster[c]),
             SetCluster(c, [cluster[c] EXCEPT
                    !.status = IF @ = "creating" THEN "failed" ELSE "running",
                    !.goal = cluster[c].is, !.broken = TRUE])
      PROVE  Inv'
  <2>1. cluster[c] \in Clusters
    BY <1>1 DEF TypeOK
  <2> QED BY <1>2, <1>5, <2>1 DEF Clusters, Status
<1>6. ASSUME NEW p \in Pid, Busy(pool[p]),
             SetPool(p, [pool[p] EXCEPT
                    !.status = IF @ = "creating" THEN "failed" ELSE "running",
                    !.goal = pool[p].size, !.broken = TRUE])
      PROVE  Inv'
  <2>1. pool[p] \in Pools
    BY <1>1 DEF TypeOK
  <2> QED BY <1>3, <1>6, <2>1 DEF Pools, Status
<1>7. ASSUME NEW c \in Cid, Busy(addon[c]),
             SetAddon(c, [addon[c] EXCEPT
                    !.status = IF @ = "creating" THEN "gone" ELSE "running",
                    !.goal = addon[c].version, !.broken = TRUE])
      PROVE  Inv'
  <2>1. addon[c] \in Addons
    BY <1>1 DEF TypeOK
  <2> QED BY <1>4, <1>7, <2>1 DEF Addons, Status
<1> QED BY <1>5, <1>6, <1>7 DEF TaskFails

\* What an operator does: what was done still runs, or was released.
LEMMA ConsoleMoves ==
    ASSUME Inv, CloudType', Wanes, UNCHANGED <<engine, pc, cur>>,
           touched' = TRUE, upsets' \in 0..MaxUpsets, upsets < upsets',
           released' = released \cup (LiveCluster \ LiveCluster') \cup (LivePool \ LivePool'),
           \A c \in Cid : /\ cluster'[c].status \in {cluster[c].status, "gone"}
                          /\ addon'[c].status \in {addon[c].status, "gone"}
                          /\ addon'[c].version = addon[c].version,
           \A p \in Pid : pool'[p].status \in {pool[p].status, "gone"}
    PROVE  Inv'
<1>1. /\ TypeOK /\ UNCHANGED <<saved, want, destroying>>
      /\ saved.cluster \in Cid \cup {None} /\ saved.pool \in Pid \cup {None}
      /\ saved.addon \in Cid \cup {None} /\ upsets \in Nat /\ upsets' \in Nat
  BY BoundAssumption DEF Inv, TypeOK, engine
<1>2. /\ \A c \in Cid : c \in released' <=> c \in released \/ (Live(cluster[c]) /\ ~Live(cluster'[c]))
      /\ \A p \in Pid : p \in released' <=> p \in released \/ (Live(pool[p]) /\ ~Live(pool'[p]))
  BY IdAssumption DEF LiveCluster, LivePool
<1>3. Keeps
  <2>1. /\ \A c \in Cid : c \in released' \ released => cluster[c].status # "unborn"
        /\ \A p \in Pid : p \in released' \ released => pool[p].status # "unborn"
    BY <1>2 DEF Live
  <2> QED BY <1>1, <1>2, <2>1 DEF Keeps, Excused
<1>4. ClusterDone'
  <2>1. pc.cluster \in {"done", "planned"} =>
          saved.cluster \in Cid /\ (saved.cluster \in released' \/ cluster'[saved.cluster].status = "running")
    BY <1>1, <1>2 DEF Inv, ClusterDone, Runs, Live
  <2> QED BY <1>1, <2>1, NoneNotAnId DEF ClusterDone, Runs
<1>5. PoolDone'
  <2>1. pc.pool \in {"done", "planned"} =>
          saved.pool \in Pid /\ (saved.pool \in released' \/ pool'[saved.pool].status = "running")
    BY <1>1, <1>2 DEF Inv, PoolDone, Live
  <2> QED BY <1>1, <2>1, NoneNotAnId DEF PoolDone
<1>6. AddonDone'
  <2>1. pc.addon \in {"done", "planned"} =>
          saved.addon \in Cid /\ ~Busy(addon'[saved.addon]) /\ addon'[saved.addon].version = want.addon
    BY <1>1 DEF Inv, AddonDone, Busy
  <2> QED BY <1>1, <2>1, NoneNotAnId DEF Inv, AddonDone
<1>7. touched' \in BOOLEAN /\ released' \in SUBSET (Cid \cup Pid)
  BY <1>1 DEF TypeOK, LiveCluster, LivePool
<1> QED BY <1>3, <1>4, <1>5, <1>6, <1>7, CloudMoves

LEMMA ConsoleKeeps == ASSUME Inv, Console PROVE Inv'
<1>1. /\ TypeOK /\ UNCHANGED <<engine, pc, cur>> /\ touched' = TRUE
      /\ released' = released \cup (LiveCluster \ LiveCluster') \cup (LivePool \ LivePool')
  BY DEF Inv, Console
<1>2. upsets' \in 0..MaxUpsets /\ upsets < upsets'
  <2>1. Upset /\ upsets \in 0..MaxUpsets
    BY <1>1 DEF TypeOK, Console
  <2> QED BY <2>1, BoundAssumption DEF Upset
<1>3. ASSUME NEW c \in LiveCluster, RemoveCluster(c)
      PROVE  Inv'
  <2>1. /\ CloudType' /\ Wanes
        /\ \A d \in Cid : /\ cluster'[d] = IF d = c THEN [cluster[d] EXCEPT !.status = "gone"]
                                           ELSE cluster[d]
                          /\ addon'[d] = IF d = c THEN [addon[d] EXCEPT !.status = "gone"]
                                         ELSE addon[d]
        /\ \A p \in Pid : pool'[p] = IF p \in PoolsIn(c) THEN [pool[p] EXCEPT !.status = "gone"]
                                     ELSE pool[p]
    BY <1>1, <1>3, WaneTogether
  <2>2. \A d \in Cid : cluster[d] \in Clusters /\ addon[d] \in Addons
    BY <1>1 DEF TypeOK
  <2>3. \A p \in Pid : pool[p] \in Pools
    BY <1>1 DEF TypeOK
  <2>4. \A d \in Cid : /\ cluster'[d].status \in {cluster[d].status, "gone"}
                       /\ addon'[d].status \in {addon[d].status, "gone"}
                       /\ addon'[d].version = addon[d].version
    BY <2>1, <2>2 DEF Clusters, Addons
  <2>5. \A p \in Pid : pool'[p].status \in {pool[p].status, "gone"}
    BY <2>1, <2>3 DEF Pools
  <2> QED BY <1>1, <1>2, <2>1, <2>4, <2>5, ConsoleMoves
<1>4. ASSUME NEW c \in LiveCluster, NEW thing \in Clusters, thing.status = cluster[c].status,
             Runs(c), SetCluster(c, thing)
      PROVE  Inv'
  <2>1. c \in Cid /\ Live(thing) /\ Live(cluster[c]) /\ thing.status # "deleting"
    BY <1>4 DEF Live, Runs
  <2>2. /\ CloudType' /\ Wanes /\ UNCHANGED <<pool, addon>>
        /\ \A d \in Cid : cluster'[d] = IF d = c THEN thing ELSE cluster[d]
    BY <1>1, <1>4, <2>1, WaneCluster
  <2> QED BY <1>1, <1>2, <1>4, <2>2, ConsoleMoves
<1>5. ASSUME NEW p \in LivePool, NEW thing \in Pools, thing.status \in {pool[p].status, "gone"},
             pool[p].status = "running", SetPool(p, thing),
             thing.in = pool[p].in, thing.gen = pool[p].gen
      PROVE  Inv'
  <2>1. p \in Pid /\ Live(pool[p]) /\ thing.status \notin {"deleting", "unborn"}
    BY <1>5 DEF Live, LivePool
  <2>2. /\ CloudType' /\ Wanes /\ UNCHANGED <<cluster, addon>>
        /\ \A q \in Pid : pool'[q] = IF q = p THEN thing ELSE pool[q]
    BY <1>1, <1>5, <2>1, WanePool
  <2> QED BY <1>1, <1>2, <1>5, <2>2, ConsoleMoves
<1>6. ASSUME NEW c \in Cid, NEW thing \in Addons, thing.status \in {addon[c].status, "gone"},
             thing.version = addon[c].version, addon[c].status = "running", SetAddon(c, thing)
      PROVE  Inv'
  <2>1. Live(addon[c])
    BY <1>6 DEF Live
  <2>2. /\ CloudType' /\ Wanes /\ UNCHANGED <<cluster, pool>>
        /\ \A d \in Cid : addon'[d] = IF d = c THEN thing ELSE addon[d]
    BY <1>1, <1>6, <2>1, WaneAddon
  <2> QED BY <1>1, <1>2, <1>6, <2>2, ConsoleMoves
<1>7. ASSUME NEW c \in LiveCluster, Runs(c),
             \/ SetCluster(c, [cluster[c] EXCEPT !.is.guard = ~@, !.goal.guard = ~@])
             \/ SetCluster(c, [cluster[c] EXCEPT !.tagged = FALSE])
      PROVE  Inv'
  <2>1. cluster[c] \in Clusters
    BY <1>1, <1>7 DEF TypeOK, Runs
  <2> DEFINE guarded == [cluster[c] EXCEPT !.is.guard = ~@, !.goal.guard = ~@]
             bare == [cluster[c] EXCEPT !.tagged = FALSE]
  <2>2. /\ guarded \in Clusters /\ guarded.status = cluster[c].status
        /\ bare \in Clusters /\ bare.status = cluster[c].status
    BY <2>1 DEF Clusters, Settings
  <2>3. SetCluster(c, guarded) \/ SetCluster(c, bare)
    BY <1>7
  <2> HIDE DEF guarded, bare
  <2> QED BY <1>4, <1>7, <2>2, <2>3
<1>8. ASSUME NEW p \in LivePool, pool[p].status = "running",
             \/ SetPool(p, [pool[p] EXCEPT !.status = "gone"])
             \/ SetPool(p, [pool[p] EXCEPT !.size = 3 - @, !.goal = 3 - @])
             \/ SetPool(p, [pool[p] EXCEPT !.tagged = FALSE])
      PROVE  Inv'
  <2>1. pool[p] \in Pools
    BY <1>1 DEF TypeOK, LivePool
  <2> DEFINE dead == [pool[p] EXCEPT !.status = "gone"]
             sized == [pool[p] EXCEPT !.size = 3 - @, !.goal = 3 - @]
             bare == [pool[p] EXCEPT !.tagged = FALSE]
  <2>2. \A thing \in {dead, sized, bare} :
          /\ thing \in Pools /\ thing.status \in {pool[p].status, "gone"}
          /\ thing.in = pool[p].in /\ thing.gen = pool[p].gen
    <3>1. dead \in Pools /\ dead.status = "gone" /\ dead.in = pool[p].in /\ dead.gen = pool[p].gen
      BY <2>1 DEF Pools, Status
    <3>2. /\ sized \in Pools /\ sized.status = pool[p].status
          /\ sized.in = pool[p].in /\ sized.gen = pool[p].gen
      <4>1. 3 - pool[p].size \in Choice /\ 3 - pool[p].goal \in Choice
        BY <2>1 DEF Pools, Choice
      <4> QED BY <2>1, <4>1 DEF Pools
    <3>3. /\ bare \in Pools /\ bare.status = pool[p].status
          /\ bare.in = pool[p].in /\ bare.gen = pool[p].gen
      BY <2>1 DEF Pools
    <3> HIDE DEF dead, sized, bare
    <3> QED BY <3>1, <3>2, <3>3
  <2>3. PICK thing \in {dead, sized, bare} : SetPool(p, thing)
    BY <1>8
  <2> HIDE DEF dead, sized, bare
  <2> QED BY <1>5, <1>8, <2>2, <2>3
<1>9. ASSUME NEW c \in Cid, addon[c].status = "running",
             \/ SetAddon(c, [addon[c] EXCEPT !.status = "gone"])
             \/ SetAddon(c, [addon[c] EXCEPT !.tuned = FALSE])
      PROVE  Inv'
  <2>1. addon[c] \in Addons
    BY <1>1 DEF TypeOK
  <2> DEFINE dead == [addon[c] EXCEPT !.status = "gone"]
             detuned == [addon[c] EXCEPT !.tuned = FALSE]
  <2>2. \A thing \in {dead, detuned} :
          /\ thing \in Addons /\ thing.status \in {addon[c].status, "gone"}
          /\ thing.version = addon[c].version
    BY <2>1 DEF Addons, Status
  <2>3. PICK thing \in {dead, detuned} : SetAddon(c, thing)
    BY <1>9
  <2> HIDE DEF dead, detuned
  <2> QED BY <1>6, <1>9, <2>2, <2>3
<1> QED BY <1>3, <1>7, <1>8, <1>9 DEF Console

-----------------------------------------------------------------------------
(* Plans, and the death of the process. *)

\* What `read` recovers: the saved identity, or what the name leads to.
LEMMA RecoveredFits ==
    ASSUME Inv, ~destroying
    PROVE  /\ Recovered \in [cluster : Cid \cup {None}, pool : Pid \cup {None}, addon : Cid \cup {None}]
           /\ saved.cluster # None => Recovered.cluster = saved.cluster
           /\ saved.cluster = None =>
                /\ Recovered.cluster \in LiveCluster \/ (Recovered.cluster = None /\ LiveCluster = {})
                /\ LivePool = {} /\ \A c \in Cid : ~Live(addon[c])
           /\ saved.pool # None => Recovered.pool = saved.pool
           /\ saved.pool = None =>
                \/ Recovered.pool \in LivePool /\ pool[Recovered.pool].in = Recovered.cluster
                \/ Recovered.pool = None /\ LivePool = {}
           /\ saved.addon # None => Recovered.addon = saved.addon
           /\ saved.addon = None =>
                \/ Recovered.addon = None /\ \A c \in Cid : ~Live(addon[c])
                \/ Recovered.addon = Recovered.cluster /\ Recovered.addon \in Cid
<1> DEFINE c == One(FoundCluster)
           known == [saved EXCEPT !.cluster = IF @ # None THEN @ ELSE c]
           fitting == { q \in LivePool : pool[q].in = known.cluster /\ pool[q].gen = gen }
           p == One(fitting)
<1>1. /\ saved \in [cluster : Cid \cup {None}, pool : Pid \cup {None}, addon : Cid \cup {None}]
      /\ LiveCluster \subseteq Cid /\ LivePool \subseteq Pid
  BY DEF Inv, TypeOK, LiveCluster, LivePool
<1>2. \A S : (One(S) = None /\ S = {}) \/ One(S) \in S
  BY DEF One
<1>3. FoundCluster \subseteq LiveCluster /\ (saved.cluster = None => FoundCluster = LiveCluster)
  BY DEF FoundCluster
<1>4. c \in LiveCluster \cup {None}
      /\ (saved.cluster = None => c \in LiveCluster \/ (c = None /\ LiveCluster = {}))
  BY <1>2, <1>3
<1>5. (p \in LivePool /\ pool[p].in = known.cluster) \/ (p = None /\ fitting = {})
  <2>1. \A q \in fitting : q \in LivePool /\ pool[q].in = known.cluster
    <3> HIDE DEF known
    <3> QED OBVIOUS
  <2> HIDE DEF fitting, known
  <2> QED BY <1>2, <2>1
<1>6. Recovered = [known EXCEPT !.pool = IF @ # None THEN @ ELSE p,
                                !.addon = IF @ # None THEN @
                                          ELSE IF known.cluster # None /\ Live(addon[known.cluster])
                                          THEN known.cluster ELSE None]
  BY DEF Recovered
<1>7. saved.cluster = None => LivePool = {} /\ \A d \in Cid : ~Live(addon[d])
  <2>1. \A q \in LivePool : pool[q].in \in Cid /\ pool[q].in = saved.cluster
    BY <1>1 DEF Inv, CloudInv, SavedInv
  <2>2. \A d \in Cid : Live(addon[d]) => d = saved.cluster
    BY DEF Inv, SavedInv
  <2> QED BY <2>1, <2>2, NoneNotAnId
<1>8. known.cluster # None => known.cluster \in Cid
  BY <1>1, <1>4
<1>9. fitting = {} => LivePool = {}
  <2>1. \A q \in LivePool : pool[q].in = saved.cluster /\ pool[q].gen = gen
    BY DEF Inv, SavedInv
  <2>2. saved.cluster # None => known.cluster = saved.cluster
    BY <1>1
  <2> QED BY <1>7, <2>1, <2>2
<1>10. /\ known \in [cluster : Cid \cup {None}, pool : Pid \cup {None}, addon : Cid \cup {None}]
       /\ known.cluster = IF saved.cluster # None THEN saved.cluster ELSE c
       /\ known.pool = saved.pool /\ known.addon = saved.addon
  BY <1>1, <1>4
<1>11. (\A d \in Cid : ~Live(addon[d])) \/ (known.cluster # None /\ Live(addon[known.cluster]))
  <2>1. \A d \in Cid : Live(addon[d]) => d = saved.cluster
    BY DEF Inv, SavedInv
  <2> QED BY <1>7, <1>10, <2>1
<1>12. p \in Pid \cup {None}
  BY <1>1, <1>5
<1> HIDE DEF known, p, c, fitting
<1>13. /\ Recovered \in [cluster : Cid \cup {None}, pool : Pid \cup {None}, addon : Cid \cup {None}]
       /\ Recovered.cluster = known.cluster
       /\ Recovered.pool = IF saved.pool # None THEN saved.pool ELSE p
       /\ Recovered.addon = IF saved.addon # None THEN saved.addon
                            ELSE IF known.cluster # None /\ Live(addon[known.cluster])
                            THEN known.cluster ELSE None
  BY <1>6, <1>8, <1>10, <1>12
<1> QED BY <1>4, <1>5, <1>7, <1>8, <1>9, <1>10, <1>11, <1>13

\* What is planned again was done.
LEMMA PlanKeeps ==
    ASSUME Inv, AtRest, ~destroying, NEW changes, Plan(changes),
           UNCHANGED <<cloud, gen, destroying, cur, released>>,
           want' \in [spec : Choice, guard : BOOLEAN, version : Choice, size : Choice, addon : Choice],
           dirty' \in SUBSET {"spec", "guard", "size"},
           "addon" \notin changes => want'.addon = want.addon,
           upsets' \in 0..MaxUpsets, upsets <= upsets'
    PROVE  Inv'
<1>1. /\ TypeOK /\ CloudInv /\ SingleInv /\ SavedInv /\ GenInv
      /\ UNCHANGED <<cluster, pool, addon, gen, destroying, cur, released>>
      /\ touched' = FALSE /\ saved' = Recovered
      /\ upsets \in Nat /\ upsets' \in Nat /\ gen \in Nat
  BY BoundAssumption DEF Inv, TypeOK, cloud, Plan
<1>2. /\ UNCHANGED <<LiveCluster, LivePool>> /\ \A c \in Cid : UNCHANGED PoolsIn(c)
      /\ \A c : UNCHANGED PoolReleased(c)
  BY <1>1 DEF LiveCluster, LivePool, PoolsIn, PoolReleased
<1>3. /\ saved' \in [cluster : Cid \cup {None}, pool : Pid \cup {None}, addon : Cid \cup {None}]
      /\ saved.cluster # None => saved'.cluster = saved.cluster
      /\ saved.cluster = None =>
           /\ saved'.cluster \in LiveCluster \/ (saved'.cluster = None /\ LiveCluster = {})
           /\ LivePool = {} /\ \A c \in Cid : ~Live(addon[c])
      /\ saved.pool # None => saved'.pool = saved.pool
      /\ saved.pool = None =>
           \/ saved'.pool \in LivePool /\ pool[saved'.pool].in = saved'.cluster
           \/ saved'.pool = None /\ LivePool = {}
      /\ saved.addon # None => saved'.addon = saved.addon
      /\ saved.addon = None =>
           \/ saved'.addon = None /\ \A c \in Cid : ~Live(addon[c])
           \/ saved'.addon = saved'.cluster /\ saved'.addon \in Cid
  BY <1>1, RecoveredFits
<1>4. \A r \in Res : pc[r] \in {"idle", "planned", "failed", "done"}
  BY DEF AtRest, Rest, Inv, PhaseInv
<1>5. /\ pc' \in [Res -> Step]
      /\ \A r \in Res : /\ pc'[r] \in {"idle", "planned"}
                        /\ pc'[r] = "planned" => pc[r] \in {"done", "planned"}
      /\ pc'.addon = "planned" => "addon" \notin changes
  <2> DEFINE updated == { r \in Res : \/ r = "cluster" /\ changes \cap {"spec", "guard", "version"} # {}
                                      \/ r = "pool" /\ "size" \in changes
                                      \/ r = "addon" /\ "addon" \in changes }
  <2>1. "addon" \in updated <=> "addon" \in changes
    BY DEF Res
  <2>2. pc' = [r \in Res |-> IF pc[r] = "failed" \/ r \in updated THEN "idle"
                             ELSE IF pc[r] = "done" THEN "planned" ELSE pc[r]]
    BY DEF Plan
  <2> HIDE DEF updated
  <2>3. \A r \in Res : pc'[r] \in {"idle", "planned"}
    BY <1>4, <2>2
  <2>4. pc' \in [Res -> Step]
    BY <2>2, <2>3 DEF Step, Rest
  <2> QED BY <1>4, <2>1, <2>2, <2>3, <2>4, Names
<1>6. TypeOK'
  <2>1. cluster' \in [Cid -> Clusters] /\ pool' \in [Pid -> Pools] /\ addon' \in [Cid -> Addons]
    BY <1>1 DEF TypeOK
  <2>2. /\ gen' \in 0..MaxUpsets /\ destroying' \in BOOLEAN /\ touched' \in BOOLEAN
        /\ cur' \in [cluster : Cid \cup {None}, pool : Pid \cup {None}, todo : SUBSET (1..4)]
        /\ released' \in SUBSET (Cid \cup Pid)
    BY <1>1 DEF TypeOK
  <2> QED BY <1>3, <1>5, <2>1, <2>2 DEF TypeOK
<1>7. PhaseInv'
  BY <1>1, <1>5, Names DEF PhaseInv, Making, Deleting
<1>8. CloudInv'
  <2>1. \A c \in Cid : c = saved'.cluster => cluster[c].status # "unborn"
    BY <1>1, <1>3, NoneNotAnId DEF CloudInv, LiveCluster, Live
  <2>2. \A p \in Pid : p = saved'.pool => pool[p].status # "unborn"
    BY <1>1, <1>3, NoneNotAnId DEF CloudInv, LivePool, Live
  <2> QED BY <1>1, <1>2, <2>1, <2>2 DEF CloudInv
<1>9. SingleInv'
  BY <1>1, <1>2 DEF SingleInv
<1>10. SavedInv'
  <2>1. /\ saved'.cluster # None => saved'.cluster \in LiveCluster \cup released
        /\ saved'.pool # None => saved'.pool \in LivePool \cup released
    BY <1>1, <1>3 DEF SavedInv
  <2>2. \A p \in LivePool : pool[p].in = saved'.cluster /\ pool[p].gen = gen
    BY <1>1, <1>3 DEF SavedInv
  <2>3. saved'.pool # None /\ pool[saved'.pool].in # saved'.cluster => LivePool = {}
    BY <1>1, <1>3 DEF SavedInv
  <2>4. \A c \in Cid : Live(addon[c]) => c = saved'.cluster /\ saved'.addon \in {None, c}
    BY <1>1, <1>3 DEF SavedInv
  <2> QED BY <1>1, <1>2, <2>1, <2>2, <2>3, <2>4 DEF SavedInv
<1>11. GenInv'
  <2>1. CASE saved.pool = None
    <3>1. saved'.pool # None => pool[saved'.pool].in = saved'.cluster /\ saved'.cluster \in LiveCluster
      BY <1>1, <1>3, <2>1 DEF CloudInv
    <3> QED BY <1>1, <1>2, <3>1 DEF GenInv
  <2>2. CASE saved.pool # None /\ saved.cluster = None
    <3>1. gen < upsets
      BY <1>1, <2>2, NoneNotAnId DEF GenInv, LiveCluster
    <3> QED BY <1>1, <3>1 DEF GenInv
  <2>3. CASE saved.pool # None /\ saved.cluster # None
    BY <1>1, <1>2, <1>3, <2>3 DEF GenInv
  <2> QED BY <2>1, <2>2, <2>3
<1>12. ClusterInv' /\ PoolInv' /\ AddonInv'
  BY <1>5, Names DEF ClusterInv, PoolInv, AddonInv, Making, Deleting
<1>13. ClusterDone'
  BY <1>1, <1>3, <1>5, Names DEF Inv, ClusterDone, Runs
<1>14. PoolDone'
  BY <1>1, <1>3, <1>5, Names DEF Inv, PoolDone
<1>15. AddonDone'
  BY <1>1, <1>3, <1>5, Names DEF Inv, AddonDone
<1> QED BY <1>6, <1>7, <1>8, <1>9, <1>10, <1>11, <1>12, <1>13, <1>14, <1>15 DEF Inv

LEMMA RerunKeeps == ASSUME Inv, Rerun PROVE Inv'
<1>1. AtRest /\ TypeOK /\ UNCHANGED <<cloud, want, dirty, gen, destroying, cur, released, upsets>>
  BY DEF Rerun, Inv
<1>2. upsets' \in 0..MaxUpsets /\ upsets <= upsets'
  BY <1>1, UpsetType DEF Calm
<1>3. CASE ~destroying
  <2>1. Plan({})
    BY <1>3 DEF Rerun
  <2>2. /\ want' \in [spec : Choice, guard : BOOLEAN, version : Choice, size : Choice, addon : Choice]
        /\ dirty' \in SUBSET {"spec", "guard", "size"}
    BY <1>1 DEF TypeOK
  <2> QED BY <1>1, <1>2, <1>3, <2>1, <2>2, PlanKeeps
<1>4. CASE destroying
  <2>1. /\ pc' = [r \in Res |-> IF pc[r] = "failed" THEN "idle" ELSE pc[r]]
        /\ UNCHANGED <<cluster, pool, addon, want, dirty, gen, destroying, saved, cur, touched,
                       released, upsets>>
    BY <1>1, <1>4 DEF Rerun, cloud
  <2>2. \A r \in Res : pc[r] \in {"idle", "failed", "gone"}
    BY <1>1, <1>4 DEF AtRest, Rest, Inv, PhaseInv, Deleting
  <2>3. /\ pc' \in [Res -> Step]
        /\ \A r \in Res : pc'[r] \in {"idle", "gone"} /\ (pc'[r] = "gone" <=> pc[r] = "gone")
    BY <2>1, <2>2 DEF Step, Rest
  <2>4. /\ UNCHANGED <<LiveCluster, LivePool>> /\ \A c \in Cid : UNCHANGED PoolsIn(c)
        /\ \A c : UNCHANGED PoolReleased(c)
    BY <2>1 DEF LiveCluster, LivePool, PoolsIn, PoolReleased
  <2>5. TypeOK' /\ CloudInv' /\ SingleInv' /\ SavedInv' /\ GenInv'
    BY <1>1, <2>1, <2>3, <2>4 DEF Inv, TypeOK, CloudInv, SingleInv, SavedInv, GenInv
  <2>6. PhaseInv'
    BY <1>4, <2>1, <2>3, Names DEF Inv, PhaseInv, Making, Deleting
  <2>7. ClusterInv' /\ PoolInv' /\ AddonInv'
    BY <2>1, <2>3, <2>4, Names DEF Inv, ClusterInv, PoolInv, AddonInv, Making, Deleting
  <2>8. ClusterDone' /\ PoolDone' /\ AddonDone'
    BY <2>3, Names DEF ClusterDone, PoolDone, AddonDone
  <2> QED BY <2>5, <2>6, <2>7, <2>8 DEF Inv
<1> QED BY <1>3, <1>4 DEF Inv, TypeOK

LEMMA EditKeeps == ASSUME Inv, NEW changes \in Edits, Edit(changes) PROVE Inv'
<1>1. /\ AtRest /\ TypeOK /\ ~destroying /\ Plan(changes) /\ Upset
      /\ UNCHANGED <<cloud, gen, destroying, cur, released>>
  BY DEF Edit, Inv
<1>2. upsets' \in 0..MaxUpsets /\ upsets <= upsets'
  BY <1>1, UpsetType
<1>3. /\ want' \in [spec : Choice, guard : BOOLEAN, version : Choice, size : Choice, addon : Choice]
      /\ "addon" \notin changes => want'.addon = want.addon
  <2>1. want \in [spec : Choice, guard : BOOLEAN, version : Choice, size : Choice, addon : Choice]
    BY <1>1 DEF TypeOK
  <2>2. 3 - want.spec \in Choice /\ 3 - want.size \in Choice /\ 3 - want.addon \in Choice /\ 2 \in Choice
    BY <2>1 DEF Choice
  <2> DEFINE spec == IF "spec" \in changes THEN 3 - want.spec ELSE want.spec
             guard == IF "guard" \in changes THEN ~want.guard ELSE want.guard
             version == IF "version" \in changes THEN 2 ELSE want.version
             size == IF "size" \in changes THEN 3 - want.size ELSE want.size
             next == IF "addon" \in changes THEN 3 - want.addon ELSE want.addon
  <2>3. /\ spec \in Choice /\ guard \in BOOLEAN /\ version \in Choice /\ size \in Choice
        /\ next \in Choice /\ ("addon" \notin changes => next = want.addon)
    BY <2>1, <2>2
  <2>4. want' = [want EXCEPT !.spec = spec, !.guard = guard, !.version = version,
                             !.size = size, !.addon = next]
    BY DEF Edit
  <2> HIDE DEF spec, guard, version, size, next
  <2> QED BY <2>1, <2>3, <2>4
<1>4. dirty' \in SUBSET {"spec", "guard", "size"}
  BY <1>1 DEF Edit, TypeOK
<1> QED BY <1>1, <1>2, <1>3, <1>4, PlanKeeps

LEMMA DestroyKeeps == ASSUME Inv, Destroy PROVE Inv'
<1>1. /\ TypeOK /\ CloudInv /\ SingleInv /\ SavedInv /\ GenInv /\ ~destroying
      /\ UNCHANGED <<cluster, pool, addon, want, dirty, gen, cur, touched, released, upsets>>
      /\ saved' = Recovered /\ destroying' = TRUE /\ pc' = [r \in Res |-> "idle"]
  BY DEF Inv, Destroy, cloud, history
<1>2. /\ UNCHANGED <<LiveCluster, LivePool>> /\ \A c \in Cid : UNCHANGED PoolsIn(c)
      /\ \A c : UNCHANGED PoolReleased(c)
  BY <1>1 DEF LiveCluster, LivePool, PoolsIn, PoolReleased
<1>3. /\ saved' \in [cluster : Cid \cup {None}, pool : Pid \cup {None}, addon : Cid \cup {None}]
      /\ saved.cluster # None => saved'.cluster = saved.cluster
      /\ saved.cluster = None =>
           /\ saved'.cluster \in LiveCluster \/ (saved'.cluster = None /\ LiveCluster = {})
           /\ LivePool = {} /\ \A c \in Cid : ~Live(addon[c])
      /\ saved.pool # None => saved'.pool = saved.pool
      /\ saved.pool = None =>
           \/ saved'.pool \in LivePool /\ pool[saved'.pool].in = saved'.cluster
           \/ saved'.pool = None /\ LivePool = {}
      /\ saved.addon # None => saved'.addon = saved.addon
      /\ saved.addon = None =>
           \/ saved'.addon = None /\ \A c \in Cid : ~Live(addon[c])
           \/ saved'.addon = saved'.cluster /\ saved'.addon \in Cid
  BY <1>1, RecoveredFits
<1>4. /\ pc' \in [Res -> Step] /\ \A r \in Res : pc'[r] = "idle"
  BY <1>1 DEF Step, Rest
<1>5. TypeOK'
  BY <1>1, <1>3, <1>4 DEF TypeOK
<1>6. PhaseInv' /\ ClusterInv' /\ PoolInv' /\ AddonInv' /\ ClusterDone' /\ PoolDone' /\ AddonDone'
  BY <1>1, <1>4, Names DEF PhaseInv, ClusterInv, PoolInv, AddonInv, ClusterDone, PoolDone, AddonDone,
                          Making, Deleting
<1>7. CloudInv'
  <2>1. \A c \in Cid : c = saved'.cluster => cluster[c].status # "unborn"
    BY <1>1, <1>3, NoneNotAnId DEF CloudInv, LiveCluster, Live
  <2>2. \A p \in Pid : p = saved'.pool => pool[p].status # "unborn"
    BY <1>1, <1>3, NoneNotAnId DEF CloudInv, LivePool, Live
  <2> QED BY <1>1, <1>2, <2>1, <2>2 DEF CloudInv
<1>8. SingleInv' /\ GenInv'
  BY <1>1, <1>2 DEF SingleInv, GenInv
<1>9. SavedInv'
  <2>1. saved.cluster \in Cid \cup {None} /\ saved.pool \in Pid \cup {None}
    BY <1>1 DEF TypeOK
  <2>2. released \cap Cid = {} => LiveCluster \subseteq {saved'.cluster}
    BY <1>1, <1>3, <2>1 DEF SavedInv, SingleInv
  <2>3. ASSUME released = {}, NEW p \in LivePool
        PROVE  p = saved'.pool
    <3>1. saved.cluster \in Cid /\ saved'.cluster = saved.cluster /\ pool[p].in = saved.cluster
      BY <1>1, <1>3, <2>1, <2>3 DEF SavedInv
    <3>2. saved'.pool \in LivePool /\ pool[saved'.pool].in = saved.cluster
      BY <1>1, <1>3, <2>3, <3>1 DEF SavedInv
    <3>3. ~PoolReleased(saved.cluster)
      BY <2>3 DEF PoolReleased
    <3> QED BY <1>1, <3>1, <3>2, <3>3 DEF SingleInv, PoolsIn
  <2>4. \A c \in Cid : Live(addon[c]) => c = saved'.addon
    BY <1>1, <1>3 DEF SavedInv
  <2> QED BY <1>1, <1>2, <2>2, <2>3, <2>4 DEF SavedInv
<1> QED BY <1>5, <1>6, <1>7, <1>8, <1>9 DEF Inv

LEMMA ProcessDiesKeeps == ASSUME Inv, ProcessDies PROVE Inv'
<1>1. /\ TypeOK /\ UNCHANGED <<cloud, engine, history>> /\ Upset
      /\ pc' = [r \in Res |-> IF pc[r] \in Rest THEN pc[r] ELSE "failed"]
      /\ cur' = [cluster |-> None, pool |-> None, todo |-> {}]
  BY DEF Inv, ProcessDies
<1>2. /\ UNCHANGED <<cluster, pool, addon, want, dirty, gen, saved, destroying, touched, released>>
      /\ upsets' \in 0..MaxUpsets /\ upsets <= upsets'
  BY <1>1, UpsetType DEF cloud, engine, history
<1>3. Keeps
  BY <1>1, <1>2, StillKeeps
<1>4. /\ pc' \in [Res -> Step]
      /\ \A r \in Res : pc'[r] \in Rest /\ (pc'[r] = pc[r] \/ pc'[r] = "failed")
      /\ \A r \in Res : pc[r] \in Rest => pc'[r] = pc[r]
  BY <1>1 DEF TypeOK, Step, Rest
<1>5. TypeOK'
  BY <1>1, <1>2, <1>4 DEF TypeOK
<1>6. PhaseInv'
  BY <1>2, <1>4, Names DEF Inv, PhaseInv, Making, Deleting, Rest
<1>7. UNCHANGED <<LiveCluster, LivePool>> /\ \A c : UNCHANGED PoolReleased(c)
  BY <1>2 DEF LiveCluster, LivePool, PoolReleased
<1>8. ClusterInv'
  BY <1>2, <1>4, <1>7, Names DEF Inv, ClusterInv, Deleting, Rest
<1>9. PoolInv'
  BY <1>2, <1>4, <1>7, Names DEF Inv, PoolInv, Making, Deleting, Rest
<1>10. AddonInv'
  BY <1>2, <1>4, Names DEF Inv, AddonInv, Making, Deleting, Rest
<1>11. ClusterDone' /\ PoolDone' /\ AddonDone'
  BY <1>2, <1>4, Names DEF Inv, ClusterDone, PoolDone, AddonDone, Runs, Matches
<1> QED BY <1>1, <1>3, <1>5, <1>6, <1>8, <1>9, <1>10, <1>11, BaseKept DEF Inv

-----------------------------------------------------------------------------
(* The invariant. *)

LEMMA InitInv == ASSUME Init PROVE Inv
<1>1. /\ \A c \in Cid : ~Live(cluster[c]) /\ ~Live(addon[c]) /\ cluster[c].status = "unborn"
      /\ \A p \in Pid : ~Live(pool[p]) /\ pool[p].status = "unborn"
      /\ released = {} /\ ~destroying
      /\ saved.cluster = None /\ saved.pool = None /\ saved.addon = None
      /\ pc = [r \in Res |-> "idle"] /\ gen = 0 /\ upsets = 0
  BY DEF Init, Live
<1>2. LiveCluster = {} /\ LivePool = {} /\ \A c \in Cid : PoolsIn(c) = {}
  BY <1>1 DEF LiveCluster, LivePool, PoolsIn
<1>3. TypeOK
  <2>1. Sound \in Settings
    BY DEF Sound, Settings, Choice
  <2>2. [status |-> "unborn", is |-> Sound, goal |-> Sound, tagged |-> TRUE, broken |-> FALSE] \in Clusters
    BY <2>1 DEF Clusters, Status
  <2>3. [status |-> "unborn", in |-> None, gen |-> 0, size |-> 1, goal |-> 1, tagged |-> TRUE,
         broken |-> FALSE] \in Pools
    BY BoundAssumption DEF Pools, Status, Choice
  <2>4. [status |-> "unborn", version |-> 1, goal |-> 1, tuned |-> TRUE, broken |-> FALSE] \in Addons
    BY DEF Addons, Status, Choice
  <2>5. cluster \in [Cid -> Clusters] /\ pool \in [Pid -> Pools] /\ addon \in [Cid -> Addons]
    BY <2>2, <2>3, <2>4 DEF Init
  <2>6. want \in [spec : Choice, guard : BOOLEAN, version : Choice, size : Choice, addon : Choice]
    BY DEF Init, Choice
  <2>7. /\ saved \in [cluster : Cid \cup {None}, pool : Pid \cup {None}, addon : Cid \cup {None}]
        /\ cur \in [cluster : Cid \cup {None}, pool : Pid \cup {None}, todo : SUBSET (1..4)]
        /\ dirty \in SUBSET {"spec", "guard", "size"}
    BY DEF Init
  <2>8. pc \in [Res -> Step]
    BY <1>1 DEF Step, Rest
  <2>9. gen \in 0..MaxUpsets /\ upsets \in 0..MaxUpsets
    BY <1>1, BoundAssumption
  <2>10. destroying \in BOOLEAN /\ touched \in BOOLEAN /\ released \in SUBSET (Cid \cup Pid)
    BY DEF Init
  <2> QED BY <2>5, <2>6, <2>7, <2>8, <2>9, <2>10 DEF TypeOK
<1>4. \A r \in Res : pc[r] = "idle"
  BY <1>1
<1>5. PhaseInv /\ ClusterInv /\ PoolInv /\ AddonInv /\ ClusterDone /\ PoolDone /\ AddonDone
  BY <1>1, <1>4, Names DEF PhaseInv, ClusterInv, PoolInv, AddonInv, ClusterDone, PoolDone, AddonDone,
                          Making, Deleting
<1>6. CloudInv
  BY <1>1, <1>2, NoneNotAnId DEF CloudInv
<1>7. SingleInv /\ SavedInv
  BY <1>1, <1>2 DEF SingleInv, SavedInv
<1>8. GenInv
  BY <1>1 DEF GenInv
<1> QED BY <1>3, <1>5, <1>6, <1>7, <1>8 DEF Inv

LEMMA Unmoved == ASSUME Inv, UNCHANGED vars PROVE Inv'
<1>1. UNCHANGED <<cluster, pool, addon, want, dirty, gen, saved, destroying, pc, cur, touched,
                  released, upsets>>
  BY DEF vars, cloud, engine, history
<1>2. /\ UNCHANGED <<LiveCluster, LivePool>> /\ \A c \in Cid : UNCHANGED PoolsIn(c)
      /\ \A c : UNCHANGED PoolReleased(c)
  BY <1>1 DEF LiveCluster, LivePool, PoolsIn, PoolReleased
<1>3. TypeOK' /\ PhaseInv' /\ CloudInv' /\ SingleInv'
  BY <1>1, <1>2 DEF Inv, TypeOK, PhaseInv, CloudInv, SingleInv
<1>4. SavedInv' /\ GenInv' /\ ClusterInv' /\ PoolInv' /\ AddonInv'
  <2>1. SavedInv' /\ GenInv'
    BY <1>1, <1>2 DEF Inv, SavedInv, GenInv
  <2>2. ClusterInv'
    BY <1>1, <1>2 DEF Inv, ClusterInv
  <2>3. PoolInv'
    BY <1>1, <1>2 DEF Inv, PoolInv, PoolReleased
  <2>4. AddonInv'
    BY <1>1 DEF Inv, AddonInv
  <2> QED BY <2>1, <2>2, <2>3, <2>4
<1>5. ClusterDone' /\ PoolDone' /\ AddonDone'
  BY <1>1 DEF Inv, ClusterDone, PoolDone, AddonDone, Runs, Matches
<1> QED BY <1>3, <1>4, <1>5 DEF Inv

LEMMA NextInv == ASSUME Inv, Next PROVE Inv'
<1>1. CASE ClusterStep \/ PoolStep \/ AddonStep
  BY <1>1, ClusterStepKeeps, PoolStepKeeps, AddonStepKeeps
<1>2. CASE Rerun \/ TaskEnds \/ TaskFails \/ Console
  BY <1>2, RerunKeeps, TaskEndsKeeps, TaskFailsKeeps, ConsoleKeeps
<1>3. CASE Destroy \/ ProcessDies
  BY <1>3, DestroyKeeps, ProcessDiesKeeps
<1>4. CASE \E changes \in Edits : Edit(changes)
  BY <1>4, EditKeeps
<1> QED BY <1>1, <1>2, <1>3, <1>4 DEF Next, Disturbance

\* Whatever the three handlers, the tasks of the cloud, the operator and the
\* death of the process do, in any order.
THEOREM Invariance == Spec => []Inv
<1>1. Inv /\ [Next]_vars => Inv'
  BY NextInv, Unmoved
<1> QED BY <1>1, InitInv, PTL DEF Spec

-----------------------------------------------------------------------------
(* What follows from it. *)

\* The state is well typed whatever is deployed, lost, failed, deleted by hand
\* and destroyed: what a handler goes on with is an identity or nothing, and a
\* pool has no more generations than there were disturbances.
THEOREM TypeCorrect == Spec => []TypeOK
<1>1. Inv => TypeOK
  BY DEF Inv
<1> QED BY <1>1, Invariance, PTL

\* A set without two different members.
LEMMA AtMostOne ==
    ASSUME NEW S, \A x, y \in S : x = y
    PROVE  ~(Cardinality(S) > 1)
<1>1. CASE S = {}
  BY <1>1, FS_EmptySet
<1>2. CASE S # {}
  <2>1. PICK x \in S : TRUE
    BY <1>2
  <2>2. S = {x}
    BY <2>1
  <2>3. Cardinality(S) = 1
    BY <2>2, FS_Singleton
  <2> QED BY <2>3
<1> QED BY <1>1, <1>2

\* A creation whose answer was lost, or whose run died, leads to no second
\* cluster, and none to a second pool in it: before anything is created the
\* identity or the name was looked for, and between the look and the request
\* nothing else creates one.  The exception is what was deleted by hand.
THEOREM OnePurchase == Spec => []OneCluster
<1>1. Inv => OneCluster
  <2> SUFFICES ASSUME Inv PROVE OneCluster
    OBVIOUS
  <2>1. Cardinality(LiveCluster) > 1 => released \cap Cid # {}
    BY AtMostOne DEF Inv, SingleInv
  <2>2. \A c \in Cid : Cardinality(PoolsIn(c)) > 1 => PoolReleased(c)
    BY AtMostOne DEF Inv, SingleInv
  <2> QED BY <2>1, <2>2 DEF OneCluster, PoolReleased
<1> QED BY <1>1, Invariance, PTL

\* A deployment that reports success has the cluster, the pool in it and the
\* addon as desired, though each was made by a handler of its own and compared
\* by the saved inputs; a destroy that reports it has left no cluster.
THEOREM SuccessIsReal == Spec => []SuccessMeansDone
<1>1. Inv => DeployedMeansConfigured
  <2> SUFFICES ASSUME Inv, AllDone, ~touched, saved.cluster \notin released
               PROVE  /\ Runs(saved.cluster) /\ Matches(saved.cluster)
                      /\ addon[saved.cluster].version = want.addon
                      /\ \/ saved.pool \in released
                         \/ pool[saved.pool].in = saved.cluster /\ pool[saved.pool].size = want.size
    BY DEF DeployedMeansConfigured
  <2>1. pc.cluster = "done" /\ pc.pool = "done" /\ pc.addon = "done"
    BY Names DEF AllDone
  <2>2. Runs(saved.cluster) /\ Matches(saved.cluster)
    BY <2>1 DEF Inv, ClusterDone
  <2>3. addon[saved.cluster].version = want.addon
    BY <2>1 DEF Inv, AddonDone
  <2>4. saved.pool \notin released =>
          pool[saved.pool].in = saved.cluster /\ pool[saved.pool].size = want.size
    BY <2>1 DEF Inv, PoolDone, PoolInv
  <2> QED BY <2>2, <2>3, <2>4
<1>2. Inv => DestroyLeavesNothing
  BY Names DEF Inv, ClusterInv, DestroyLeavesNothing, AllGone
<1> QED BY <1>1, <1>2, Invariance, PTL DEF SuccessMeansDone

-----------------------------------------------------------------------------
(* The order of a destroy. *)

\* No cluster is asked to go.
Spared == \A c \in Cid : cluster'[c].status = "deleting" => cluster[c].status = "deleting"

LEMMA SetSpares ==
    ASSUME TypeOK, NEW c, NEW thing, SetCluster(c, thing),
           c \in Cid => (thing.status = "deleting" => cluster[c].status = "deleting")
    PROVE  Spared
<1>1. cluster' = [cluster EXCEPT ![c] = thing]
  BY DEF SetCluster
<1> QED BY <1>1 DEF Spared, TypeOK

LEMMA OthersSpare ==
    ASSUME PoolStep \/ AddonStep \/ Rerun \/ Destroy \/ ProcessDies
           \/ (\E changes \in Edits : Edit(changes))
    PROVE  UNCHANGED cluster
<1>1. CASE PlanPool \/ ObservePool \/ AwaitPool \/ FinalPool \/ StartDeletePool \/ PoolAbsent
  BY <1>1 DEF PlanPool, ObservePool, AwaitPool, FinalPool, StartDeletePool, PoolAbsent, cloud
<1>2. CASE CreateClusterNodePool \/ ModifyClusterNodePool \/ DeleteClusterNodepool
  BY <1>2 DEF CreateClusterNodePool, ModifyClusterNodePool, DeleteClusterNodepool, Once, Continue,
              SetPool, cloud
<1>3. CASE PlanAddon \/ ObserveAddon \/ FinalAddon \/ StartDeleteAddon \/ AddonAbsent
  BY <1>3 DEF PlanAddon, ObserveAddon, FinalAddon, StartDeleteAddon, AddonAbsent, cloud
<1>4. CASE InstallClusterAddons \/ UpgradeClusterAddons \/ UnInstallClusterAddons
  BY <1>4 DEF InstallClusterAddons, UpgradeClusterAddons, UnInstallClusterAddons, Once, Continue,
              SetAddon, cloud
<1>5. CASE Rerun \/ Destroy \/ ProcessDies \/ \E changes \in Edits : Edit(changes)
  BY <1>5 DEF Rerun, Destroy, ProcessDies, Edit, cloud
<1> QED BY <1>1, <1>2, <1>3, <1>4, <1>5 DEF PoolStep, AddonStep

LEMMA RemoveSpares == ASSUME TypeOK, NEW c, RemoveCluster(c) PROVE Spared
<1>1. cluster' = [cluster EXCEPT ![c].status = "gone"]
  BY DEF RemoveCluster
<1>2. cluster \in [Cid -> Clusters]
  BY DEF TypeOK
<1> QED BY <1>1, <1>2 DEF Spared, Clusters

LEMMA CloudSpares == ASSUME TypeOK, TaskEnds \/ TaskFails \/ Console PROVE Spared
<1>1. \A c \in Cid : cluster[c] \in Clusters
  BY DEF TypeOK
<1>2. CASE UNCHANGED cluster
  BY <1>2 DEF Spared
<1>3. ASSUME NEW c, RemoveCluster(c)
      PROVE  Spared
  BY <1>3, RemoveSpares
<1>4. ASSUME NEW c \in Cid,
             SetCluster(c, [cluster[c] EXCEPT !.status = "running", !.is = cluster[c].goal])
      PROVE  Spared
  <2>1. [cluster[c] EXCEPT !.status = "running", !.is = cluster[c].goal].status = "running"
    BY <1>1 DEF Clusters
  <2> QED BY <1>4, <2>1, SetSpares
<1>5. ASSUME NEW c \in Cid,
             SetCluster(c, [cluster[c] EXCEPT
                    !.status = IF @ = "creating" THEN "failed" ELSE "running",
                    !.goal = cluster[c].is, !.broken = TRUE])
      PROVE  Spared
  <2>1. [cluster[c] EXCEPT !.status = IF @ = "creating" THEN "failed" ELSE "running",
                           !.goal = cluster[c].is, !.broken = TRUE].status \in {"failed", "running"}
    BY <1>1 DEF Clusters
  <2> QED BY <1>5, <2>1, SetSpares
<1>6. ASSUME NEW c \in Cid,
             \/ SetCluster(c, [cluster[c] EXCEPT !.is.guard = ~@, !.goal.guard = ~@])
             \/ SetCluster(c, [cluster[c] EXCEPT !.tagged = FALSE])
      PROVE  Spared
  <2>1. /\ [cluster[c] EXCEPT !.is.guard = ~@, !.goal.guard = ~@].status = cluster[c].status
        /\ [cluster[c] EXCEPT !.tagged = FALSE].status = cluster[c].status
    BY <1>1 DEF Clusters
  <2> QED BY <1>6, <2>1, SetSpares
<1>7. CASE TaskEnds
  BY <1>2, <1>3, <1>4, <1>7 DEF TaskEnds, SetPool, SetAddon
<1>8. CASE TaskFails
  BY <1>2, <1>5, <1>8 DEF TaskFails, SetPool, SetAddon
<1>9. CASE Console
  BY <1>2, <1>3, <1>6, <1>9 DEF Console, SetPool, SetAddon, LiveCluster
<1> QED BY <1>7, <1>8, <1>9

LEMMA ClusterSpares == ASSUME TypeOK, ClusterStep PROVE Spared \/ pc.cluster = "dDelete"
<1> DEFINE c == cur.cluster
<1>1. c \in Cid => cluster[c] \in Clusters
  BY DEF TypeOK
<1>2. CASE UNCHANGED cluster
  BY <1>2 DEF Spared
<1>3. CASE \/ PlanCluster \/ ObserveCluster \/ AwaitCreated \/ AwaitModified \/ AwaitUpgrade
           \/ FinalCluster \/ StartDeleteCluster \/ AwaitUnguarded \/ ClusterAbsent
  BY <1>2, <1>3 DEF PlanCluster, ObserveCluster, AwaitCreated, AwaitModified, AwaitUpgrade,
                    FinalCluster, StartDeleteCluster, AwaitUnguarded, ClusterAbsent, cloud
<1>4. CASE CreateCluster
  <2> DEFINE bought == [spec |-> want.spec, guard |-> want.guard, version |-> want.version]
             new == [status |-> "creating", is |-> bought, goal |-> bought,
                     tagged |-> TRUE, broken |-> FALSE]
  <2>1. UNCHANGED cluster \/ \E d : SetCluster(d, new)
    BY <1>4 DEF CreateCluster, cloud
  <2>2. new.status = "creating"
    OBVIOUS
  <2> HIDE DEF new
  <2> QED BY <1>2, <2>1, <2>2, SetSpares
<1>5. CASE ModifyCluster \/ UpgradeCluster
  <2> DEFINE edition == [Begin(cluster[c], "busy") EXCEPT !.goal.spec = want.spec]
             guard == [Begin(cluster[c], "busy") EXCEPT !.goal.guard = want.guard]
             version == [Begin(cluster[c], "busy") EXCEPT !.goal.version = want.version]
  <2>1. c \in Cid => \A thing \in {edition, guard, version} : thing.status = "busy"
    BY <1>1 DEF Begin, Clusters
  <2>2. UNCHANGED cluster \/ \E thing \in {edition, guard, version} : SetCluster(c, thing)
    BY <1>5 DEF ModifyCluster, UpgradeCluster, Once, cloud
  <2> HIDE DEF edition, guard, version
  <2> QED BY <1>2, <2>1, <2>2, SetSpares
<1>6. CASE SyncTags
  <2>1. UNCHANGED cluster \/ SetCluster(c, [cluster[c] EXCEPT !.tagged = TRUE])
    BY <1>6 DEF SyncTags, cloud
  <2>2. c \in Cid => [cluster[c] EXCEPT !.tagged = TRUE].status = cluster[c].status
    BY <1>1 DEF Clusters
  <2> QED BY <1>2, <2>1, <2>2, SetSpares
<1>7. CASE DisableProtection
  <2>1. UNCHANGED cluster \/ SetCluster(c, Unguarded(cluster[c]))
    BY <1>7 DEF DisableProtection, Continue, cloud
  <2>2. c \in Cid => Unguarded(cluster[c]).status \in {cluster[c].status, "busy"}
    BY <1>1 DEF Unguarded, Begin, Clusters
  <2> QED BY <1>2, <2>1, <2>2, SetSpares
<1>8. CASE DeleteCluster
  BY <1>8 DEF DeleteCluster
<1> QED BY <1>3, <1>4, <1>5, <1>6, <1>7, <1>8 DEF ClusterStep

\* The request that deletes the cluster is the handler's, and it makes it when
\* the handlers of the pool and of the addon have seen theirs gone: neither a
\* lost answer nor a failed deletion lets it be made before.
THEOREM ChildrenFirst == Spec => ClusterOutlivesChildren
<1> DEFINE outlives == \A c \in Cid :
              cluster[c].status # "deleting" /\ cluster'[c].status = "deleting" =>
                 /\ \A p \in PoolsIn(c) : released # {}
                 /\ ~Live(addon[c])
<1>1. ASSUME Inv, Next PROVE Spared \/ pc.cluster = "dDelete"
  <2>1. CASE ClusterStep
    BY <1>1, <2>1, ClusterSpares DEF Inv
  <2>2. CASE TaskEnds \/ TaskFails \/ Console
    BY <1>1, <2>2, CloudSpares DEF Inv
  <2>3. CASE PoolStep \/ AddonStep \/ Rerun \/ Destroy \/ ProcessDies
             \/ \E changes \in Edits : Edit(changes)
    BY <2>3, OthersSpare DEF Spared
  <2> QED BY <1>1, <2>1, <2>2, <2>3 DEF Next, Disturbance
<1>2. ASSUME Inv, Next PROVE outlives
  <2>1. CASE Spared
    BY <2>1 DEF Spared
  <2>2. CASE pc.cluster = "dDelete"
    <3>1. pc.pool = "gone" /\ pc.addon = "gone"
      BY <1>2, <2>2 DEF Inv, PhaseInv, Deleting
    <3>2. (released = {} => LivePool = {}) /\ \A c \in Cid : ~Live(addon[c])
      BY <1>2, <3>1 DEF Inv, PoolInv, AddonInv
    <3> QED BY <3>2 DEF PoolsIn
  <2> QED BY <1>1, <1>2, <2>1, <2>2
<1>3. Inv /\ [Next]_vars => [outlives]_vars
  <2> HIDE DEF outlives
  <2> QED BY <1>2
<1> QED BY <1>3, Invariance, PTL DEF Spec, ClusterOutlivesChildren

=============================================================================
