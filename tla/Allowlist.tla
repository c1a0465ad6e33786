------------------------------ MODULE Allowlist ------------------------------
(***************************************************************************)
(* A developer's allowlist entry (packages/rds-access/src/access.ts and    *)
(* alibaba.ts): `refresh` replaces the address in the developer's group by *)
(* the laptop's, `revoke` by the loopback address, `plan` only looks.      *)
(* Laptops of one developer share the group and know nothing of each       *)
(* other; the last write wins.  A write is sent once, and RDS puts it in   *)
(* force when it gets to it, possibly long after its sender gave up.       *)
(*                                                                         *)
(* Abstractions.  The up to 30 observations that confirm a write are the   *)
(* one that ends the loop.  A call that fails or runs out of its 25        *)
(* seconds, and the 90 seconds of the whole, are CommandFails.             *)
(***************************************************************************)
EXTENDS Naturals

CONSTANTS
    Laptop,          \* laptops of one developer; each is its own address
    Loopback,        \* 127.0.0.1
    NoGroup,         \* the developer has no group
    MaxCommands      \* bound on commands, and on changes at the console

ASSUME LoopbackAssumption == Loopback \notin Laptop /\ NoGroup \notin Laptop \cup {Loopback}
ASSUME CommandsAssumption == MaxCommands \in Nat

VARIABLES
    entry,           \* address in the group of the requested network type
    elsewhere,       \* another network type has a group of this name
    accepted,        \* writes RDS accepted, not yet in force: how many of each
    command,         \* what each laptop is doing
    overtaken,       \* history: laptops that another write may interfere with
    started          \* commands and console changes so far

accessVars == <<entry, elsewhere, accepted, command, overtaken, started>>

Ip == Laptop \cup {Loopback}
Ended == {"none", "done", "failed"}
CommandStep == Ended \cup {"verify", "groups", "network", "set", "confirm", "confirmNetwork"}

AccessInit ==
    /\ entry \in {NoGroup, Loopback}
    /\ elsewhere = FALSE
    /\ accepted = [a \in Ip |-> 0]
    /\ command = [l \in Laptop |-> [step |-> "none", ip |-> Loopback, writes |-> FALSE]]
    /\ overtaken = {}
    /\ started = 0

Under(l, step) == command[l].step = step
Become(l, step) == command' = [command EXCEPT ![l].step = step]
OnlyReads == UNCHANGED <<entry, elsewhere, accepted, overtaken, started>>

\* refresh, revoke, or plan of either.
StartCommand(l) ==
    /\ command[l].step \in Ended /\ started < MaxCommands
    /\ \E a \in {l, Loopback}, w \in BOOLEAN :
          command' = [command EXCEPT ![l] = [step |-> "verify", ip |-> a, writes |-> w]]
    /\ started' = started + 1
    /\ overtaken' = IF \A a \in Ip : accepted[a] = 0 THEN overtaken \ {l} ELSE overtaken \cup {l}
    /\ UNCHANGED <<entry, elsewhere, accepted>>

VerifyInstance(l) == Under(l, "verify") /\ Become(l, "groups") /\ OnlyReads

\* A group that is not there need not be created to be closed.
Current(l, found) ==
    found = command[l].ip \/ (found = NoGroup /\ command[l].ip = Loopback)

Plan(l, found) ==
    Become(l, IF Current(l, found) \/ ~command[l].writes THEN "done" ELSE "set")

\* currentGroup reads all network types first: a name must be unique.
ListGroups(l) ==
    /\ Under(l, "groups")
    /\ IF entry = NoGroup /\ ~elsewhere THEN Plan(l, NoGroup)
       ELSE Become(l, IF entry # NoGroup /\ elsewhere THEN "failed" ELSE "network")
    /\ OnlyReads

\* Then the requested one: what it shows is what counts.
ListNetworkGroups(l) ==
    /\ Under(l, "network")
    /\ IF entry = NoGroup THEN Become(l, "failed") ELSE Plan(l, entry)
    /\ OnlyReads

\* Faulty: the acceptance of the write is taken for success.
SetGroupUnconfirmed(l) ==
    /\ Under(l, "set")
    /\ accepted' = [accepted EXCEPT ![command[l].ip] = @ + 1]
    /\ Become(l, "done")
    /\ overtaken' = overtaken \cup (Laptop \ {l})
    /\ UNCHANGED <<entry, elsewhere, started>>

\* ModifySecurityIps covers the whole group, whatever it holds by now.  The
\* sender may see it time out all the same.
SetGroup(l) ==
    /\ Under(l, "set")
    /\ accepted' = [accepted EXCEPT ![command[l].ip] = @ + 1]
    /\ \E step \in {"confirm", "failed"} : Become(l, step)
    /\ overtaken' = overtaken \cup (Laptop \ {l})
    /\ UNCHANGED <<entry, elsewhere, started>>

ConfirmGroups(l) ==
    /\ Under(l, "confirm")
    /\ entry # NoGroup \/ elsewhere
    /\ Become(l, IF entry # NoGroup /\ elsewhere THEN "failed" ELSE "confirmNetwork")
    /\ OnlyReads

\* Another address than the one written is looked at again.
ConfirmNetworkGroups(l) ==
    /\ Under(l, "confirmNetwork")
    /\ Become(l, IF entry = NoGroup THEN "failed"
                 ELSE IF entry = command[l].ip THEN "done" ELSE "confirm")
    /\ OnlyReads

CommandFails(l) == command[l].step \notin Ended /\ Become(l, "failed") /\ OnlyReads

\* RDS puts a write in force; the group is created if there is none.
PutInForce(a) ==
    /\ accepted[a] > 0
    /\ entry' = a
    /\ accepted' = [accepted EXCEPT ![a] = @ - 1]
    /\ UNCHANGED <<elsewhere, command, overtaken, started>>

\* Somebody makes or removes a group of this name in another network type, or
\* moves the group there.
ConsoleGroup ==
    /\ started < MaxCommands /\ started' = started + 1
    /\ \/ elsewhere' = ~elsewhere /\ UNCHANGED <<entry, overtaken>>
       \/ entry # NoGroup /\ entry' = NoGroup /\ elsewhere' = TRUE /\ overtaken' = Laptop
    /\ UNCHANGED <<accepted, command>>

Command(l) ==
    \/ StartCommand(l) \/ VerifyInstance(l) \/ ListGroups(l) \/ ListNetworkGroups(l)
    \/ SetGroup(l) \/ ConfirmGroups(l) \/ ConfirmNetworkGroups(l) \/ CommandFails(l)

AccessNext ==
    \/ \E l \in Laptop : Command(l)
    \/ \E a \in Ip : PutInForce(a)
    \/ ConsoleGroup

AccessSpec == AccessInit /\ [][AccessNext]_accessVars

-----------------------------------------------------------------------------
AccessTypeOK ==
    /\ entry \in Ip \cup {NoGroup} /\ elsewhere \in BOOLEAN
    /\ accepted \in [Ip -> Nat]
    /\ command \in [Laptop -> [step : CommandStep, ip : Ip, writes : BOOLEAN]]
    /\ overtaken \in SUBSET Laptop
    /\ started \in 0..MaxCommands

\* A refresh that reported success has its address in force, and a revoke has
\* closed the group, for as long as no other command writes: only a write that
\* was sent after the command began, or was still on its way when it began,
\* makes a report untrue.
ReportHolds ==
    \A l \in Laptop :
       (Under(l, "done") /\ command[l].writes /\ l \notin overtaken) => Current(l, entry)
=============================================================================
