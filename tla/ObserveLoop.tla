---------------------------- MODULE ObserveLoop ----------------------------
(***************************************************************************)
(* One bounded observation: observeUntil and the wrappers waitFor,         *)
(* waitForPresent and waitForAbsent (src/src/internal/lifecycle.ts), whose *)
(* every read is a retryingSdkCall (src/src/error.ts).  Two loops nest:    *)
(* inside a read, transient SDK failures are tried again until a count or  *)
(* a wall-clock budget runs out; around it, the observation is repeated    *)
(* until its predicate holds, a read fails for good, or no attempt is      *)
(* left.                                                                   *)
(*                                                                         *)
(* Time is abstracted: a sleep ends at any moment, a call may be answered  *)
(* at any moment and the budget of a read may expire at any moment.        *)
(***************************************************************************)
EXTENDS Integers, CloudErrors

CONSTANTS Value,      \* states of a resource that exists
          Absent,     \* undefined: the read found no resource
          Attempts,   \* options.wait.attempts, any integer
          Retries,    \* the 6 of Effect.retry({times: 6})
          Pending     \* the outcome of a wait that has not ended

ASSUME AbsentAssumption == Absent \notin Value
ASSUME AttemptsAssumption == Attempts \in Int
ASSUME RetriesAssumption == Retries \in Nat

VARIABLES wrapper,    \* which function the caller used
          accepts,    \* the caller's ready predicate, as a set
          answer,      \* what the control plane would answer now
          pc,         \* "call", "sleep" or "done"
          attempt,    \* the observation under way, from 1
          tries,      \* retries used up inside it
          obs,        \* the most recent observation
          outcome,    \* Pending, or the verdict
          calls       \* history: SDK calls answered so far

observeVars == <<wrapper, accepts, answer, pc, attempt, tries, obs, outcome, calls>>

Observed == Value \cup {Absent}
Wrapper == {"observeUntil", "waitFor", "waitForPresent", "waitForAbsent"}

\* attempts = Math.max(1, Math.trunc(wait.attempts))
MaxAttempts == IF Attempts > 1 THEN Attempts ELSE 1

\* The predicate the loop runs with, given the wrapper and the caller's own.
Ready(w, acc) ==
    IF w = "waitForAbsent" THEN {Absent}
    ELSE IF w = "waitForPresent" THEN acc \ {Absent} ELSE acc

Seen(tag, v) == [tag |-> tag, value |-> v]
Failed(e)    == [tag |-> "Failed", error |-> e]
Observation  == [tag : {"Pending", "Ready"}, value : Observed]
                  \cup [tag : {"Failed"}, error : Error]

Verdict(tag, v) == [tag |-> tag, value |-> v]
Surfaced(e)     == [tag |-> "Error", error |-> e]
Outcome == [tag : {"Completed", "Exhausted", "WaitTimeout"}, value : Observed]
             \cup [tag : {"Error"}, error : Error]

\* A pending wait is told apart from every verdict.
ASSUME PendingAssumption == Pending \notin Outcome

NoObservation == Seen("Pending", Absent)

ObserveInit ==
    /\ wrapper \in Wrapper
    /\ accepts \in SUBSET Observed
    /\ answer \in Observed
    /\ pc = "call"
    /\ attempt = 1
    /\ tries = 0
    /\ obs = NoObservation
    /\ outcome = Pending
    /\ calls = 0

-----------------------------------------------------------------------------
\* The observation under way ends the loop, or leaves an attempt to sleep for.
Finish(o, verdict) ==
    /\ obs' = o
    /\ pc' = "done"
    /\ outcome' = verdict
    /\ UNCHANGED <<wrapper, accepts, answer, attempt, tries>>

Repeat(o) ==
    /\ attempt < MaxAttempts
    /\ obs' = o
    /\ pc' = "sleep"
    /\ UNCHANGED <<wrapper, accepts, answer, attempt, tries, outcome>>

\* The wrappers turn an exhausted observation into AlibabaWaitTimeoutError.
ExhaustedTag(w) == IF w = "observeUntil" THEN "Exhausted" ELSE "WaitTimeout"

\* The read returned v: Effect.repeat stops on Ready or on the last attempt.
ReadReturns(v) ==
    \/ /\ v \in Ready(wrapper, accepts)
       /\ Finish(Seen("Ready", v), Verdict("Completed", v))
    \/ /\ v \notin Ready(wrapper, accepts)
       /\ Repeat(Seen("Pending", v))
    \/ /\ v \notin Ready(wrapper, accepts)
       /\ attempt = MaxAttempts
       /\ Finish(Seen("Pending", v), Verdict(ExhaustedTag(wrapper), v))

\* Faulty: any failure aborts the wait, as it did before retryRead.
ReadFailsAtOnce(e) ==
    \/ isNotFound(e) /\ ReadReturns(Absent)
    \/ ~isNotFound(e) /\ Finish(Failed(e), Surfaced(e))

\* Faulty: a failed read is taken for absence.
ReadFailsAsAbsence(e) ==
    \/ ReadReturns(Absent)
    \/ ~isNotFound(e) /\ isRetryableObservation(e) /\ Repeat(Failed(e))

\* The read failed: the providers' reads turn an explicit missing code into
\* "undefined", a retryable failure is an unusable observation that surfaces
\* on the last attempt, and any other failure aborts the loop.
ReadFails(e) ==
    \/ isNotFound(e) /\ ReadReturns(Absent)
    \/ /\ ~isNotFound(e) /\ isRetryableObservation(e)
       /\ Repeat(Failed(e))
    \/ /\ ~isNotFound(e)
       /\ isRetryableObservation(e) => attempt = MaxAttempts
       /\ Finish(Failed(e), Surfaced(e))

Answered == pc = "call" /\ calls' = calls + 1

\* The SDK call returns the state of the resource.
CallSucceeds == Answered /\ ReadReturns(answer)

\* The SDK call fails and Effect.retry repeats it.
CallRetried ==
    /\ Answered
    /\ \E e \in CloudError : isTransient(e) /\ (isNotFound(e) => answer = Absent)
    /\ tries < Retries
    /\ tries' = tries + 1
    /\ UNCHANGED <<wrapper, accepts, answer, pc, attempt, obs, outcome>>

\* The SDK call fails and is not repeated.
CallFails ==
    /\ Answered
    /\ \E e \in CloudError :
         /\ isNotFound(e) => answer = Absent
         /\ isTransient(e) => tries = Retries
         /\ ReadFails(e)

\* The wall-clock budget of the read expires; the call is abandoned.
BudgetExpires ==
    /\ pc = "call"
    /\ ReadFails(safeRetryBudgetError)
    /\ UNCHANGED calls

\* Faulty: the last interval is slept without end.
WakeButLast ==
    /\ pc = "sleep" /\ attempt + 1 < MaxAttempts
    /\ pc' = "call"
    /\ attempt' = attempt + 1
    /\ tries' = 0
    /\ UNCHANGED <<wrapper, accepts, answer, obs, outcome, calls>>

\* The interval of Schedule.spaced has passed.
Wake ==
    /\ pc = "sleep"
    /\ pc' = "call"
    /\ attempt' = attempt + 1
    /\ tries' = 0
    /\ UNCHANGED <<wrapper, accepts, answer, obs, outcome, calls>>

\* The resource changes in the cloud while the loop is running.
Drift ==
    /\ pc # "done"
    /\ answer' \in Observed
    /\ UNCHANGED <<wrapper, accepts, pc, attempt, tries, obs, outcome, calls>>

LoopStep == CallSucceeds \/ CallRetried \/ CallFails \/ BudgetExpires \/ Wake

ObserveNext == LoopStep \/ Drift

ObserveSpec == ObserveInit /\ [][ObserveNext]_observeVars

-----------------------------------------------------------------------------
ObserveTypeOK ==
    /\ wrapper \in Wrapper
    /\ accepts \in SUBSET Observed
    /\ answer \in Observed
    /\ pc \in {"call", "sleep", "done"}
    /\ attempt \in 1..MaxAttempts
    /\ tries \in 0..Retries
    /\ obs \in Observation
    /\ outcome \in Outcome \cup {Pending}
    /\ calls \in Nat

\* A wait ends before its last attempt only for a ready observation or for a
\* failure that repeating cannot change: neither an outage of the control
\* plane nor an expired call budget strands it, as the comment of
\* isRetryableObservation promises.
EndsEarlyOnlyForCause ==
    (pc = "done" /\ attempt < MaxAttempts) =>
        \/ outcome.tag = "Completed"
        \/ outcome.tag = "Error" /\ ~isRetryableObservation(outcome.error)

\* The most recent observation decides a wait that ran out of attempts: an
\* error surfaces only when the last read failed, and a timeout is reported
\* only when the last read succeeded and was not ready.
VerdictIsLastObservation ==
    pc = "done" =>
        \/ outcome.tag = "Error" /\ obs = Failed(outcome.error)
        \/ /\ outcome.tag \in {"Completed", "Exhausted", "WaitTimeout"}
           /\ obs.tag \in {"Pending", "Ready"}
           /\ obs.value = outcome.value
           /\ (outcome.tag = "Completed") =
                (outcome.value \in Ready(wrapper, accepts))

\* Nesting the two retry loops multiplies their budgets and never more: a
\* wait sends at most MaxAttempts * (Retries + 1) requests.
CallBudget == calls <= MaxAttempts * (Retries + 1)

\* The loop implements the contract its callers rely on: the verdict is about
\* the cloud as it is at the step that ends the wait, absence included.
Contract == INSTANCE BoundedWait WITH
    cloud <- answer,
    ready <- Ready(wrapper, accepts),
    outcome <- IF outcome # Pending /\ outcome.tag = "WaitTimeout"
                 THEN Verdict("Exhausted", outcome.value) ELSE outcome

ImplementsContract == Contract!Spec
=============================================================================
