---------------------------- MODULE MCRdsAccess ----------------------------
(* The commands of rds-access for TLC: each behaviour is one of operators  *)
(* who onboard a database, or one of the laptops of a developer.           *)
EXTENDS Onboarding, Allowlist

VARIABLE tool      \* which of the two

NoOnboarding ==
    /\ file = None
    /\ peering = [p \in Peer |-> "unborn"]
    /\ routes = [t \in Table |-> [host |-> None, net |-> None]]
    /\ ip = 1 /\ group = 0 /\ account = None /\ grants = {}
    /\ op = [o \in Op |-> Blank]
    /\ stale = [o \in Op |-> {}] /\ raced = FALSE /\ upsets = 0

NoCommands ==
    /\ entry = NoGroup /\ elsewhere = FALSE
    /\ accepted = [a \in Ip |-> 0]
    /\ command = [l \in Laptop |-> [step |-> "none", ip |-> Loopback, writes |-> FALSE]]
    /\ overtaken = {} /\ started = 0

RdsAccessInit ==
    \/ tool = "gateway" /\ Init /\ NoCommands
    \/ tool = "developer" /\ AccessInit /\ NoOnboarding

all == <<vars, accessVars, tool>>
Gateway(step) == tool = "gateway" /\ step /\ UNCHANGED <<accessVars, tool>>
Developer(step) == tool = "developer" /\ step /\ UNCHANGED <<vars, tool>>

RdsAccessNext == Gateway(Next) \/ Developer(AccessNext)

\* The fairness of Onboarding: a process keeps running, the operators with full
\* options run it again, and the cloud gets on.
RdsAccessSpec ==
    /\ RdsAccessInit /\ [][RdsAccessNext]_all
    /\ \A o \in Op : WF_all(Gateway(Apply(o)))
    /\ \A o \in Full : WF_all(Gateway(Start(o)))
    /\ WF_all(Gateway(Provision))

\* "Apply is idempotent and safe to rerun after a partial failure"
\* (EventuallyOnboarded), where it is run at all.
EventuallySettled == tool = "gateway" => EventuallyOnboarded
=============================================================================
