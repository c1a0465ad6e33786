---------------------------- MODULE MCLifecycle ----------------------------
(* What the providers share, for TLC: the two loops of lifecycle.ts and    *)
(* the replacement of a resource, one of them in each behaviour.           *)
(* A wait: a resource that is being created, runs or is being deleted,     *)
(* three observations of at most two calls each.  A listing: five items,   *)
(* pages of two, three pages.  A replacement: MCReplacement says of what.  *)
EXTENDS ObserveLoop, Paginate, MCReplacement

CONSTANTS Creating, Running, c, d, e

MCValue == {Creating, Running}
MCItem == {a, b, c, d, e}

VARIABLE helper      \* what this behaviour is about

NoWait ==
    /\ wrapper = "waitFor" /\ accepts = {} /\ answer = Absent
    /\ pc = "call" /\ attempt = 1 /\ tries = 0
    /\ obs = NoObservation /\ outcome = Pending /\ calls = 0

NoListing ==
    /\ listing = <<>> /\ reports = TRUE /\ served = 1
    /\ pageNumber = 1 /\ items = <<>> /\ reportedTotal = {}
    /\ verdict = "reading" /\ lasting = {} /\ changes = 0 /\ removals = 0

\* A resource that settled once and is never edited.
NoReplacement ==
    /\ kind = DeletedFirst /\ gen = 1
    /\ props = [name |-> NoName, setting |-> CHOOSE s \in Setting : TRUE]
    /\ output = (CHOOSE i \in Id : TRUE) /\ outgoing = NoId /\ phase = "settled"
    /\ inst = [i \in Id |-> [name |-> generated[1], setting |-> props.setting,
                            status |-> IF i = output THEN "live" ELSE "unused"]]
    /\ target = NoId /\ pinned = FALSE

LifecycleInit ==
    \/ helper = "wait" /\ ObserveInit /\ NoListing /\ NoReplacement
    \/ helper = "list" /\ NoWait /\ ReadInit /\ NoReplacement
    \/ helper = "replace" /\ NoWait /\ NoListing /\ ReplaceInit

vars == <<observeVars, readVars, replaceVars, helper>>

Waits(step) == helper = "wait" /\ step /\ UNCHANGED <<readVars, replaceVars, helper>>
Lists(step) == helper = "list" /\ step /\ UNCHANGED <<observeVars, replaceVars, helper>>
Replaced(step) == helper = "replace" /\ step /\ UNCHANGED <<observeVars, readVars, helper>>

LifecycleNext == Waits(ObserveNext) \/ Lists(ReadNext) \/ Replaced(ReplaceNext)

\* The runtime keeps scheduling the fiber of the loop, and pages keep being
\* answered; a failing page ends the read, but need not come.
LifecycleSpec ==
    /\ LifecycleInit /\ [][LifecycleNext]_vars
    /\ WF_vars(Waits(LoopStep))
    /\ WF_vars(Lists(ReadPage))

\* Neither loop can be held for ever: not by a resource that never gets ready,
\* failing calls or an expiring budget, and not by full pages without end.
LoopsEnd ==
    <>/\ helper = "wait" => pc = "done"
      /\ helper = "list" => verdict # "reading"
=============================================================================
