---------------------------- MODULE CloudErrors ----------------------------
(***************************************************************************)
(* The classification of Alibaba Cloud failures (src/src/error.ts).        *)
(*                                                                         *)
(* An SDK failure carries an optional code and an optional HTTP status;    *)
(* every retry, recovery and absence decision of the providers is a        *)
(* predicate over the two.  Codes are abstracted to the classes those      *)
(* predicates tell apart, statuses to "retry" (408, 409, 429 or 5xx) and   *)
(* "other".  The two are independent: a 409 may carry any code.            *)
(***************************************************************************)

Code == { "absent",                     \* a code of absentResourceCodes
          "throttled",                  \* transientCodes, or its pattern
          "CanNotAcquireLock",
          "InvalidConcurrentOperate",
          "IncorrectDBInstanceState",
          "SafeRetryBudgetExceeded",    \* raised by withinSafeRetryBudget
          "DependencyViolation",        \* DependencyViolation.*, ditto bare
          "rejected" }                  \* every other code, or none

HttpStatus == {"retry", "other"}

Error == [code : Code, status : HttpStatus]

isTransient(e) == e.status = "retry" \/ e.code = "throttled"

isRetryableObservation(e) ==
    isTransient(e) \/ e.code = "SafeRetryBudgetExceeded"

isNotFound(e) == e.code = "absent"

isAmbiguousCreate(e) ==
    \/ e.code \in { "CanNotAcquireLock", "InvalidConcurrentOperate",
                    "SafeRetryBudgetExceeded" }
    \/ isTransient(e)

isIncorrectInstanceState(e) == e.code = "IncorrectDBInstanceState"

isDependencyViolation(e) == e.code = "DependencyViolation"

\* The error withinSafeRetryBudget raises when the wall clock runs out.
safeRetryBudgetError == [code |-> "SafeRetryBudgetExceeded", status |-> "other"]

\* Errors the cloud itself can answer: the budget error is made locally.
CloudError == { e \in Error : e.code # "SafeRetryBudgetExceeded" }
=============================================================================
