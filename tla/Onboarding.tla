----------------------------- MODULE Onboarding -----------------------------
(***************************************************************************)
(* Onboarding a database behind the gateway (packages/rds-access/src/      *)
(* gateway): `apply` makes sure there is a password file, reads the state  *)
(* of six services, plans once, and carries the plan out: VPC peering,     *)
(* routes in both tables, allowlist group, account, read-only grants.      *)
(* Nothing is saved, nothing locks, every request is sent once; what a run *)
(* that failed left undone is found by the next one.  Several operators    *)
(* run it on one machine (they share the file) while others use the        *)
(* console.                                                                *)
(*                                                                         *)
(* Abstractions.  A run that dies, and a request that fails or whose       *)
(* answer is lost, is Dies: before the step, or after it, which is before  *)
(* the next.  Of a routing table there remain the host route /32 and the   *)
(* longest network route that covers the host; a default route counts as   *)
(* none (connectivity.ts:118).  Grants are a sequence of two statements.   *)
(* Regions, owners and CIDRs are those of a supported topology.            *)
(***************************************************************************)
EXTENDS Naturals, FiniteSets

CONSTANTS
    Op,           \* operators, each with the process he runs
    Full,         \* those who pass --create-peering and an admin account
    Peer,         \* identities of VPC peerings
    None,         \* undefined
    Foreign,      \* a next hop, or a password, that is nobody's of these
    MaxUpsets     \* bound on deaths and console changes

ASSUME FullAssumption == Full \in SUBSET Op
ASSUME NoneAssumption == None \notin Op \cup Peer /\ Foreign \notin Op \cup Peer \cup {None}
ASSUME SecretAssumption == "empty" \notin Op \cup {None}
ASSUME BoundAssumption == MaxUpsets \in Nat

VARIABLES
    file,         \* the password file: None, "empty", or whose password
    peering,      \* status of every peering
    routes,       \* next hops of the two routing tables
    ip,           \* address of the gateway appliance
    group,        \* address in the allowlist group, 0: no such group
    account,      \* password of the database account, None: no account
    grants,       \* statements in force
    op,           \* the process of every operator
    stale,        \* history: what others changed since the operator read it
    raced,        \* history: a peering was created on a stale reading
    upsets

cloud == <<peering, routes, ip, group, account, grants>>
history == <<stale, raced>>
vars == <<file, cloud, op, history, upsets>>

Table == {"gateway", "database"}
Address == {1, 2}
Hop == Peer \cup {None, Foreign}
Status == {"unborn", "Creating", "Accepting", "Activated", "Deleted"}
Fact == Table \cup {"ip", "peerings", "group", "grants"}
Statements == {1, 2}

\* A peering that planPeering does not ignore (TERMINAL_FAILURE).
Live == { p \in Peer : peering[p] \in {"Creating", "Accepting", "Activated"} }

\* The most specific route that covers the host.
Best(route) == IF route.host # None THEN route.host ELSE route.net

Rest == {"idle", "failed", "done"}
Step == Rest \cup
    {"file", "open", "write", "reread",
     "instance", "peerings", "routes", "groups", "verify",
     "peer", "activated", "relist", "route", "routed", "group", "covered",
     "account", "grant", "granted"}

\* What a process holds: password, and the plan.  hop is the peering it found,
\* made or accepted; todo the tables that lack a route; added those it is to
\* wait for; ran the statements it has run.  A field is blank again when no
\* later step reads it.
Process == [pc : Step, pw : Op \cup {None}, ip : Address,
            act : {"create", "accept", "reuse", "refuse"}, hop : Peer \cup {None},
            todo : SUBSET Table, added : SUBSET Table, cover : BOOLEAN,
            exists : BOOLEAN, ok : BOOLEAN, ran : SUBSET Statements]
Blank == [pc |-> "idle", pw |-> None, ip |-> 1, act |-> "reuse", hop |-> None,
          todo |-> {}, added |-> {}, cover |-> FALSE, exists |-> FALSE, ok |-> FALSE,
          ran |-> {}]

Init ==
    /\ file = None
    /\ \E s \in {"unborn", "Accepting"} :
          peering = [p \in Peer |-> IF p = (CHOOSE q \in Peer : TRUE) THEN s ELSE "unborn"]
    /\ routes \in { [t \in Table |-> [host |-> None, net |-> hop]] :
                      hop \in {None} \cup {p \in Peer : peering[p] = "Accepting"} }
    /\ ip = 1 /\ group = 0 /\ account = None /\ grants = {}
    /\ op = [o \in Op |-> Blank]
    /\ stale = [o \in Op |-> {}]
    /\ raced = FALSE
    /\ upsets = 0

Upset == upsets < MaxUpsets /\ upsets' = upsets + 1
Calm == UNCHANGED upsets

-----------------------------------------------------------------------------
At(o, step) == op[o].pc = step
Goto(o, step) == op' = [op EXCEPT ![o].pc = step]
Hold(o, fields) == op' = [op EXCEPT ![o] = fields]
ConnectedThen(o) == [op[o] EXCEPT !.pc = "group", !.act = Blank.act, !.hop = None, !.added = {}]
AllowedThen(o) == [op[o] EXCEPT !.pc = "account", !.ip = Blank.ip, !.cover = FALSE]
GrantThen(o) == [op[o] EXCEPT !.pc = "grant", !.exists = FALSE]
Fails(o) == Hold(o, [Blank EXCEPT !.pc = "failed"])

\* Whoever is under way no longer knows the facts that someone changed.
Outdate(who, facts) ==
    stale' = [o \in Op |-> IF o \in who /\ op[o].pc \notin {"idle", "failed"}
                           THEN stale[o] \cup facts ELSE stale[o]]
Refresh(o, facts) == stale' = [stale EXCEPT ![o] = @ \ facts]
Others(o) == Op \ {o}

Reads == UNCHANGED <<file, cloud, raced>> /\ Calm
LeavesHistory == UNCHANGED history /\ Calm

-----------------------------------------------------------------------------
(* ensurePasswordFile. *)

EnsurePasswordFile(o) ==
    /\ At(o, "file")
    /\ IF file \in {None, "empty"} THEN Goto(o, "open")
       ELSE Hold(o, [op[o] EXCEPT !.pc = "instance", !.pw = file])
    /\ UNCHANGED <<file, cloud>> /\ LeavesHistory

\* Faulty: without the flag "wx".
OpenOverwrites(o) ==
    /\ At(o, "open")
    /\ file' = "empty" /\ Goto(o, "write")
    /\ UNCHANGED cloud /\ LeavesHistory

\* Flag "wx": opening creates the file, and fails if there is one.
OpenPasswordFile(o) ==
    /\ At(o, "open")
    /\ IF file = None THEN file' = "empty" /\ Goto(o, "write")
       ELSE UNCHANGED file /\ Goto(o, "reread")
    /\ UNCHANGED cloud /\ LeavesHistory

WritePasswordFile(o) ==
    /\ At(o, "write")
    /\ file' = o
    /\ Hold(o, [op[o] EXCEPT !.pc = "instance", !.pw = o])
    /\ UNCHANGED cloud /\ LeavesHistory

\* The other process may not have written yet.
ReadAfterRace(o) ==
    /\ At(o, "reread")
    /\ IF file = "empty" THEN Fails(o)
       ELSE Hold(o, [op[o] EXCEPT !.pc = "instance", !.pw = file])
    /\ UNCHANGED <<file, cloud>> /\ LeavesHistory

SecretStep(o) ==
    EnsurePasswordFile(o) \/ OpenPasswordFile(o) \/ WritePasswordFile(o) \/ ReadAfterRace(o)

-----------------------------------------------------------------------------
(* discover: one reading after the other, every part of the plan from the  *)
(* reading it needs.                                                       *)

\* The accounts of the instance (planAccount) and the topology: no step needs
\* both, so that the two readings are one.
ReadInstance(o) ==
    /\ At(o, "instance")
    /\ Hold(o, [op[o] EXCEPT !.pc = "peerings", !.exists = account # None, !.ip = ip])
    /\ Refresh(o, {"ip"}) /\ Reads

\* planPeering; that it refuses is told after the routes are read.
PlanPeering(o) ==
    LET p == CHOOSE q \in Live : TRUE IN
    IF Cardinality(Live) > 1 \/ (Live = {} /\ o \notin Full)
    THEN [act |-> "refuse", hop |-> None]
    ELSE IF Live = {} THEN [act |-> "create", hop |-> None]
    ELSE IF peering[p] = "Activated" THEN [act |-> "reuse", hop |-> p]
    ELSE [act |-> "accept", hop |-> p]

ReadPeerings(o) ==
    /\ At(o, "peerings")
    /\ Hold(o, [op[o] EXCEPT !.pc = "routes", !.act = PlanPeering(o).act,
                             !.hop = PlanPeering(o).hop])
    /\ Refresh(o, {"peerings"}) /\ Reads

\* Faulty: looks at routes to the host only.
PlanRouteOverNetworks(route, hop) ==
    IF route.host = None THEN "create" ELSE IF route.host = hop THEN "exists" ELSE "refuse"

\* planRoute: is there a way to the host, may one be added?
PlanRoute(route, hop) ==
    IF Best(route) = None THEN "create"
    ELSE IF hop # None /\ Best(route) = hop THEN "exists" ELSE "refuse"

ReadRoutes(o) ==
    LET plan == [t \in Table |-> PlanRoute(routes[t], op[o].hop)]
        missing == { t \in Table : plan[t] = "create" }
    IN
    /\ At(o, "routes")
    /\ IF op[o].act = "refuse" \/ \E t \in Table : plan[t] = "refuse"
       THEN Fails(o)
       ELSE Hold(o, [op[o] EXCEPT !.pc = "groups", !.todo = missing, !.added = missing])
    /\ Refresh(o, Table) /\ Reads

\* planWhitelist
ReadGroups(o) ==
    /\ At(o, "groups")
    /\ Hold(o, [op[o] EXCEPT !.pc = IF op[o].exists THEN "verify" ELSE "peer",
                             !.cover = group # op[o].ip])
    /\ Refresh(o, {"group"}) /\ Reads

\* verifyGrants as the account itself.
GrantsHold(o) == account = op[o].pw /\ grants = Statements

\* Both hosts reach each other through one peering, and the database lets the
\* gateway in.
Connected ==
    /\ \E p \in Peer : peering[p] = "Activated" /\ \A t \in Table : Best(routes[t]) = p
    /\ group = ip

\* What fails here is left to the plan.
VerifyBefore(o) ==
    /\ At(o, "verify")
    /\ \/ Hold(o, [op[o] EXCEPT !.pc = "peer", !.ok = GrantsHold(o)]) /\ Calm
       \/ Goto(o, "peer") /\ IF Connected THEN Upset ELSE Calm
    /\ Refresh(o, {"grants"}) /\ UNCHANGED <<file, cloud, raced>>

Discover(o) ==
    \/ ReadInstance(o) \/ ReadPeerings(o)
    \/ ReadRoutes(o) \/ ReadGroups(o) \/ VerifyBefore(o)

-----------------------------------------------------------------------------
(* applyConnectivity: what was planned, whatever has happened since. *)

CreatePeering(o) ==
    LET unborn == { p \in Peer : peering[p] = "unborn" }
        p == CHOOSE q \in unborn : TRUE
    IN
    /\ At(o, "peer") /\ op[o].act = "create"
    /\ IF unborn = {} THEN Fails(o) /\ UNCHANGED <<peering, raced>>
       ELSE /\ peering' = [peering EXCEPT ![p] = "Creating"]
            /\ raced' = (raced \/ "peerings" \in stale[o])
            /\ Hold(o, [op[o] EXCEPT !.pc = "activated", !.hop = p])
    /\ Outdate(Others(o), {"peerings"})
    /\ UNCHANGED <<file, routes, ip, group, account, grants>> /\ Calm

\* Faulty: does not wait until the peering is active.
AcceptHastily(o) ==
    LET p == op[o].hop IN
    /\ At(o, "peer") /\ op[o].act = "accept"
    /\ peering' = IF peering[p] = "Accepting" THEN [peering EXCEPT ![p] = "Activated"] ELSE peering
    /\ Goto(o, "relist")
    /\ UNCHANGED <<file, routes, ip, group, account, grants>> /\ LeavesHistory

\* The cloud takes an acceptance only from a peering that waits for one.
AcceptPeering(o) ==
    LET p == op[o].hop IN
    /\ At(o, "peer") /\ op[o].act = "accept"
    /\ IF peering[p] # "Accepting" THEN Fails(o) /\ UNCHANGED peering
       ELSE /\ peering' = [peering EXCEPT ![p] = "Activated"]
            /\ Goto(o, "activated")
    /\ UNCHANGED <<file, routes, ip, group, account, grants>> /\ LeavesHistory

ReusePeering(o) ==
    /\ At(o, "peer") /\ op[o].act = "reuse"
    /\ Goto(o, "relist")
    /\ UNCHANGED <<file, cloud>> /\ LeavesHistory

\* waitFor the peering, 60 readings.
PeeringActivated(o) ==
    /\ At(o, "activated")
    /\ IF peering[op[o].hop] = "Activated" THEN Goto(o, "relist") ELSE Fails(o)
    /\ UNCHANGED <<file, cloud>> /\ LeavesHistory

\* The identity of a created peering is taken from a new reading: any that is
\* activated between the two.
ListAgain(o) ==
    LET activated == { p \in Peer : peering[p] = "Activated" }
    IN
    /\ At(o, "relist")
    /\ IF op[o].act = "create" /\ activated = {} THEN Fails(o)
       ELSE IF op[o].todo = {} THEN Hold(o, ConnectedThen(o))
       ELSE \E p \in IF op[o].act = "create" THEN activated ELSE {op[o].hop} :
               Hold(o, [op[o] EXCEPT !.pc = "route", !.hop = p])
    /\ UNCHANGED <<file, cloud>> /\ LeavesHistory

\* First the table of the gateway.  The cloud refuses a second route to one
\* destination, and a next hop that is gone.
CreateRoute(o) ==
    LET t == IF "gateway" \in op[o].todo THEN "gateway" ELSE "database"
        rest == op[o].todo \ {t}
    IN
    /\ At(o, "route")
    /\ IF routes[t].host # None \/ peering[op[o].hop] = "Deleted"
       THEN Fails(o) /\ UNCHANGED routes
       ELSE /\ routes' = [routes EXCEPT ![t].host = op[o].hop]
            /\ Hold(o, [op[o] EXCEPT !.pc = IF rest = {} THEN "routed" ELSE "route",
                                     !.todo = rest])
    /\ UNCHANGED <<file, peering, ip, group, account, grants>> /\ LeavesHistory

\* waitFor every route, 30 readings each.
RoutesSeen(o) ==
    /\ At(o, "routed")
    /\ IF \A t \in op[o].added : routes[t].host = op[o].hop THEN Hold(o, ConnectedThen(o))
       ELSE Fails(o)
    /\ UNCHANGED <<file, cloud>> /\ LeavesHistory

ApplyConnectivity(o) ==
    \/ CreatePeering(o) \/ AcceptPeering(o) \/ ReusePeering(o) \/ PeeringActivated(o)
    \/ ListAgain(o) \/ CreateRoute(o) \/ RoutesSeen(o)

-----------------------------------------------------------------------------
(* applyWhitelist, applyAccount, applyGrants. *)

\* Mode Cover: the group is replaced.
SetWhitelistGroup(o) ==
    /\ At(o, "group")
    /\ IF op[o].cover
       THEN group' = op[o].ip /\ Goto(o, "covered") /\ Outdate(Others(o), {"group"})
       ELSE Hold(o, AllowedThen(o)) /\ UNCHANGED <<group, stale>>
    /\ UNCHANGED <<file, peering, routes, ip, account, grants, raced>> /\ Calm

GroupSeen(o) ==
    /\ At(o, "covered")
    /\ IF group = op[o].ip THEN Hold(o, AllowedThen(o)) ELSE Fails(o)
    /\ UNCHANGED <<file, cloud>> /\ LeavesHistory

\* The cloud refuses a second account of the name.
CreateAccount(o) ==
    /\ At(o, "account")
    /\ \/ op[o].exists /\ Hold(o, GrantThen(o)) /\ UNCHANGED account
       \/ ~op[o].exists /\ account = None /\ Hold(o, GrantThen(o)) /\ account' = op[o].pw
       \/ ~op[o].exists /\ account # None /\ Fails(o) /\ UNCHANGED account
    /\ UNCHANGED <<file, peering, routes, ip, group, grants>> /\ LeavesHistory

\* Verified before: nothing to do.  Otherwise the administrator runs the
\* statements one by one, in no transaction; each may be run again.
RunStatements(o) ==
    LET next == CHOOSE i \in Statements \ op[o].ran : \A j \in Statements \ op[o].ran : i <= j
        ran == op[o].ran \cup {next}
    IN
    /\ At(o, "grant")
    /\ IF op[o].ok THEN Hold(o, [Blank EXCEPT !.pc = "done"]) /\ UNCHANGED grants
       ELSE IF o \notin Full THEN Fails(o) /\ UNCHANGED grants
       ELSE /\ grants' = grants \cup {next}
            /\ Hold(o, [op[o] EXCEPT !.pc = IF ran = Statements THEN "granted" ELSE "grant",
                                     !.ran = ran])
    /\ UNCHANGED <<file, peering, routes, ip, group, account>> /\ LeavesHistory

\* waitFor the verification, whose errors end the wait.
VerifyGrants(o) ==
    /\ At(o, "granted")
    /\ IF GrantsHold(o) THEN Hold(o, [Blank EXCEPT !.pc = "done"]) ELSE Fails(o)
    /\ Refresh(o, {"grants"}) /\ Reads

ApplyRest(o) ==
    SetWhitelistGroup(o) \/ GroupSeen(o) \/ CreateAccount(o) \/ RunStatements(o) \/ VerifyGrants(o)

\* applyGatewayOnboarding
Apply(o) == SecretStep(o) \/ Discover(o) \/ ApplyConnectivity(o) \/ ApplyRest(o)

\* A run, or a run again.
Start(o) ==
    /\ op[o].pc \in Rest
    /\ Hold(o, [Blank EXCEPT !.pc = "file"])
    /\ stale' = [stale EXCEPT ![o] = {}]
    /\ UNCHANGED <<file, cloud, raced>> /\ Calm

Dies(o) ==
    /\ Upset /\ op[o].pc \notin Rest
    /\ Fails(o)
    /\ UNCHANGED <<file, cloud, history>>

-----------------------------------------------------------------------------
(* The cloud and the console (external). *)

\* A peering becomes active by itself, or waits for an acceptance.
Provision ==
    /\ \E p \in Peer, s \in {"Accepting", "Activated"} :
          peering[p] = "Creating" /\ peering' = [peering EXCEPT ![p] = s]
    /\ UNCHANGED <<file, routes, ip, group, account, grants, op>> /\ LeavesHistory

DeletePeering ==
    /\ Upset
    /\ \E p \in Live : peering' = [peering EXCEPT ![p] = "Deleted"]
    /\ Outdate(Op, {"peerings"})
    /\ UNCHANGED <<file, routes, ip, group, account, grants, op, raced>>

ChangeRoutes ==
    /\ Upset
    /\ \E t \in Table :
          /\ \/ routes[t].net = None /\ routes' = [routes EXCEPT ![t].net = Foreign]
             \/ routes[t].host # None /\ routes' = [routes EXCEPT ![t].host = None]
          /\ Outdate(Op, {t})
    /\ UNCHANGED <<file, peering, ip, group, account, grants, op, raced>>

\* The appliance is replaced by one with another address.
ReplaceAppliance ==
    /\ Upset
    /\ ip' = 3 - ip
    /\ Outdate(Op, {"ip"})
    /\ UNCHANGED <<file, peering, routes, group, account, grants, op, raced>>

ChangeAccount ==
    /\ Upset /\ account # None
    /\ \/ account' = Foreign /\ UNCHANGED grants
       \/ grants # {} /\ grants' = {} /\ UNCHANGED account
    /\ Outdate(Op, {"grants"})
    /\ UNCHANGED <<file, peering, routes, ip, group, op, raced>>

Console == DeletePeering \/ ChangeRoutes \/ ReplaceAppliance \/ ChangeAccount

-----------------------------------------------------------------------------
Next ==
    \/ \E o \in Op : Apply(o) \/ Start(o) \/ Dies(o)
    \/ Provision \/ Console

Spec == Init /\ [][Next]_vars

\* A process keeps running, the operators with full options run it again.
FairSpec ==
    /\ Spec
    /\ \A o \in Op : WF_vars(Apply(o))
    /\ \A o \in Full : WF_vars(Start(o))
    /\ WF_vars(Provision)

-----------------------------------------------------------------------------
TypeOK ==
    /\ file \in Op \cup {None, "empty"}
    /\ peering \in [Peer -> Status]
    /\ routes \in [Table -> [host : Hop, net : Hop]]
    /\ ip \in Address /\ group \in Address \cup {0}
    /\ account \in Op \cup {None, Foreign}
    /\ grants \in SUBSET Statements
    /\ op \in [Op -> Process]
    /\ stale \in [Op -> SUBSET Fact]
    /\ raced \in BOOLEAN
    /\ upsets \in 0..MaxUpsets

\* "Refusing to shadow an existing path": the way a host is reached is changed
\* only where someone made it after the operator had read the table.
NothingShadowed ==
    [][\A o \in Op, t \in Table :
         At(o, "route") /\ op'[o] # op[o] /\ Best(routes[t]) # None
            /\ Best(routes'[t]) # Best(routes[t])
         => t \in stale[o]]_vars

Onboarded == Connected /\ account = file /\ grants = Statements

\* An operator who is told that it was applied, and whose readings nobody
\* outdated, has a database the gateway reaches and reads with the password of
\* the file, although everything was done from one plan and most of it is not
\* verified.
AppliedMeansOnboarded ==
    \A o \in Op : At(o, "done") /\ stale[o] = {} => Onboarded

\* Two operators each made a peering, on readings that did not show the other.
Ambiguous == raced /\ Cardinality(Live) > 1

\* Someone's route, or one whose peering is gone, leads to the host.
Obstructed == \E t \in Table : Best(routes[t]) \notin Live \cup {None}

\* The file was created, and its writer died before he wrote.
EmptySecret == file = "empty" /\ \A o \in Op : ~At(o, "write")

NeedsPerson == Ambiguous \/ Obstructed \/ EmptySecret \/ account = Foreign

\* "Apply is idempotent and safe to rerun after a partial failure": wherever
\* runs died and whoever else runs it, running it again succeeds in the end,
\* but for what is named above.
EventuallyOnboarded ==
    /\ <>[](Onboarded \/ NeedsPerson)
    /\ \A o \in Full : []<>(At(o, "done") \/ NeedsPerson)
=============================================================================
