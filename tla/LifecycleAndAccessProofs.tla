---------------------- MODULE LifecycleAndAccessProofs ----------------------
(***************************************************************************)
(* Proofs about what all the providers share, and about rds-access.        *)
(* ObserveLoop, for every set of states, every number of attempts (zero    *)
(* and negative ones included) and every number of retries.                *)
(* Paginate, for every finite set of items, every size and number of pages *)
(* and any changes of the account during the read: what a drained read     *)
(* lacks of what was there all the while is at most one item for each item *)
(* that was removed.                                                       *)
(* Replacement, for any number of generations, names and settings.         *)
(* ReplacementSurvives is not inductive: whether the new generation adopts *)
(* the outgoing one rests on what the outgoing one is called.  `ClashInv`  *)
(* says that it bears the new name only where the provider has no guard or *)
(* the plan got past it, and is then all there is; `CurrentInv` says that  *)
(* whatever else exists was bought for the current generation.             *)
(* Onboarding, for any set of operators and peerings and any number of     *)
(* disturbances: the state is well typed; no run takes away a path to a    *)
(* host that was there when it read the routing tables; and what was       *)
(* reported as applied is in force, unless somebody changed it after the   *)
(* run had read it.                                                        *)
(* Allowlist, for any number of laptops, commands and console changes: the *)
(* state is well typed, and what a command reports holds until another     *)
(* write is involved.                                                      *)
(***************************************************************************)
EXTENDS ObserveLoop, Paginate, Replacement, Onboarding, Allowlist,
        SequenceTheorems, FiniteSetTheorems, TLAPS

\* The bound on attempts is a positive integer whatever the caller asks for.
LEMMA MaxAttemptsIsPositive == MaxAttempts \in Nat /\ MaxAttempts >= 1
BY AttemptsAssumption DEF MaxAttempts

LEMMA ReadyIsObserved ==
    ASSUME NEW w, NEW acc \in SUBSET Observed
    PROVE  Ready(w, acc) \in SUBSET Observed
BY DEF Ready, Observed

\* The inductive invariant.  A sleeping loop has an attempt left; a finished
\* one has the verdict its last observation calls for; and the calls of the
\* earlier attempts are accounted for apart from those of the current one.
LoopInv ==
    /\ ObserveTypeOK
    /\ pc = "sleep" => attempt < MaxAttempts
    /\ (outcome = Pending) = (pc # "done")
    /\ EndsEarlyOnlyForCause
    /\ VerdictIsLastObservation

\* The calls the current attempt accounts for.
CurrentTries == IF pc = "call" THEN tries ELSE Retries + 1

CallInv == calls <= (attempt - 1) * (Retries + 1) + CurrentTries

-----------------------------------------------------------------------------
LEMMA SeenIsObservation ==
    ASSUME NEW v \in Observed, NEW t \in {"Pending", "Ready"}
    PROVE  Seen(t, v) \in Observation
BY DEF Seen, Observation

LEMMA FailedIsObservation ==
    ASSUME NEW e \in Error
    PROVE  Failed(e) \in Observation
BY DEF Failed, Observation

LEMMA BudgetErrorIsError == safeRetryBudgetError \in Error
BY DEF safeRetryBudgetError, Error, Code, HttpStatus

LEMMA VerdictIsOutcome ==
    /\ \A t \in {"Completed", "Exhausted", "WaitTimeout"}, v \in Observed :
          Verdict(t, v) \in Outcome
    /\ \A e \in Error : Surfaced(e) \in Outcome
BY DEF Verdict, Surfaced, Outcome

\* What the end of a read leaves true of the next state; the three ways a
\* read can end all establish it.
ReadEnded ==
    /\ obs' \in Observation
    /\ pc' \in {"sleep", "done"}
    /\ outcome' \in Outcome \cup {Pending}
    /\ (pc' = "sleep") => attempt < MaxAttempts /\ outcome' = Pending
    /\ (pc' = "done") => outcome' # Pending
    /\ EndsEarlyOnlyForCause'
    /\ VerdictIsLastObservation'
    /\ UNCHANGED <<wrapper, accepts, answer, attempt, tries>>

LEMMA FinishEndsRead ==
    ASSUME LoopInv, NEW o \in Observation, NEW result \in Outcome,
           Finish(o, result),
           attempt < MaxAttempts =>
             \/ result.tag = "Completed"
             \/ result.tag = "Error" /\ ~isRetryableObservation(result.error),
           \/ result.tag = "Error" /\ o = Failed(result.error)
           \/ /\ result.tag \in {"Completed", "Exhausted", "WaitTimeout"}
              /\ o.tag \in {"Pending", "Ready"}
              /\ o.value = result.value
              /\ (result.tag = "Completed") =
                   (result.value \in Ready(wrapper, accepts))
    PROVE  ReadEnded
BY PendingAssumption, MaxAttemptsIsPositive
   DEF Finish, ReadEnded, EndsEarlyOnlyForCause, VerdictIsLastObservation,
       MaxAttempts

LEMMA RepeatEndsRead ==
    ASSUME LoopInv, pc = "call", NEW o \in Observation, Repeat(o)
    PROVE  ReadEnded
BY DEF Repeat, ReadEnded, LoopInv, ObserveTypeOK, EndsEarlyOnlyForCause,
       VerdictIsLastObservation

LEMMA ReadReturnsEndsRead ==
    ASSUME LoopInv, pc = "call", NEW v \in Observed, ReadReturns(v)
    PROVE  ReadEnded
<1>1. /\ Seen("Ready", v) \in Observation
      /\ Seen("Pending", v) \in Observation
      /\ Verdict("Completed", v) \in Outcome
      /\ Verdict(ExhaustedTag(wrapper), v) \in Outcome
      /\ ExhaustedTag(wrapper) \in {"Exhausted", "WaitTimeout"}
  BY DEF Seen, Observation, Verdict, Outcome, ExhaustedTag
<1>2. CASE /\ v \in Ready(wrapper, accepts)
           /\ Finish(Seen("Ready", v), Verdict("Completed", v))
  <2>1. /\ Verdict("Completed", v).tag = "Completed"
        /\ Verdict("Completed", v).value = v
        /\ Seen("Ready", v).tag = "Ready"
        /\ Seen("Ready", v).value = v
    BY DEF Verdict, Seen
  <2>. QED
    BY <1>1, <1>2, <2>1, FinishEndsRead
<1>3. CASE Repeat(Seen("Pending", v))
  BY <1>1, <1>3, RepeatEndsRead
<1>4. CASE /\ v \notin Ready(wrapper, accepts)
           /\ attempt = MaxAttempts
           /\ Finish(Seen("Pending", v), Verdict(ExhaustedTag(wrapper), v))
  <2>1. /\ Verdict(ExhaustedTag(wrapper), v).tag = ExhaustedTag(wrapper)
        /\ Verdict(ExhaustedTag(wrapper), v).value = v
        /\ Seen("Pending", v).tag = "Pending"
        /\ Seen("Pending", v).value = v
    BY DEF Verdict, Seen
  <2>2. ~(attempt < MaxAttempts)
    BY <1>4, MaxAttemptsIsPositive
  <2>. QED
    BY <1>1, <1>4, <2>1, <2>2, FinishEndsRead
<1>. QED
  BY <1>2, <1>3, <1>4 DEF ReadReturns

LEMMA ReadFailsEndsRead ==
    ASSUME LoopInv, pc = "call", NEW e \in Error, ReadFails(e)
    PROVE  ReadEnded
<1>1. /\ Failed(e) \in Observation
      /\ Surfaced(e) \in Outcome
      /\ Surfaced(e).tag = "Error"
      /\ Surfaced(e).error = e
  BY DEF Failed, Observation, Surfaced, Outcome
<1>2. CASE ReadReturns(Absent)
  BY <1>2, ReadReturnsEndsRead DEF Observed
<1>3. CASE Repeat(Failed(e))
  BY <1>1, <1>3, RepeatEndsRead
<1>4. CASE /\ isRetryableObservation(e) => attempt = MaxAttempts
           /\ Finish(Failed(e), Surfaced(e))
  <2>1. attempt < MaxAttempts => ~isRetryableObservation(e)
    BY <1>4, MaxAttemptsIsPositive
  <2>. QED
    BY <1>1, <1>4, <2>1, FinishEndsRead
<1>. QED
  BY <1>2, <1>3, <1>4 DEF ReadFails

-----------------------------------------------------------------------------
LEMMA LoopInit == ObserveInit => LoopInv
<1>1. NoObservation \in Observation
  BY DEF NoObservation, Seen, Observation, Observed
<1>. QED
  BY <1>1, MaxAttemptsIsPositive, RetriesAssumption
     DEF ObserveInit, LoopInv, ObserveTypeOK, EndsEarlyOnlyForCause, VerdictIsLastObservation

LEMMA LoopStepInv == LoopInv /\ [ObserveNext]_observeVars => LoopInv'
<1> SUFFICES ASSUME LoopInv, [ObserveNext]_observeVars PROVE LoopInv'
  OBVIOUS
<1>. USE DEF LoopInv
<1>1. ASSUME ReadEnded, calls' \in Nat PROVE LoopInv'
  BY <1>1 DEF ReadEnded, ObserveTypeOK
<1>2. CASE CallSucceeds
  <2>1. answer \in Observed /\ pc = "call" /\ calls' \in Nat
    BY <1>2 DEF ObserveTypeOK, CallSucceeds, Answered
  <2>. QED
    BY <1>1, <1>2, <2>1, ReadReturnsEndsRead DEF CallSucceeds
<1>3. CASE CallRetried
  BY <1>3, RetriesAssumption
     DEF ObserveTypeOK, CallRetried, Answered, EndsEarlyOnlyForCause,
         VerdictIsLastObservation
<1>4. CASE CallFails
  <2>1. PICK e \in CloudError : ReadFails(e)
    BY <1>4 DEF CallFails
  <2>2. pc = "call" /\ calls' \in Nat
    BY <1>4 DEF ObserveTypeOK, CallFails, Answered
  <2>. QED
    BY <1>1, <2>1, <2>2, ReadFailsEndsRead DEF CloudError
<1>5. CASE BudgetExpires
  <2>1. pc = "call" /\ calls' \in Nat
    BY <1>5 DEF ObserveTypeOK, BudgetExpires
  <2>. QED
    BY <1>1, <1>5, <2>1, BudgetErrorIsError, ReadFailsEndsRead DEF BudgetExpires
<1>6. CASE Wake
  BY <1>6, MaxAttemptsIsPositive, RetriesAssumption
     DEF Wake, ObserveTypeOK, EndsEarlyOnlyForCause, VerdictIsLastObservation
<1>7. CASE Drift
  BY <1>7 DEF Drift, ObserveTypeOK, EndsEarlyOnlyForCause, VerdictIsLastObservation
<1>8. CASE UNCHANGED observeVars
  BY <1>8 DEF ObserveTypeOK, observeVars, EndsEarlyOnlyForCause, VerdictIsLastObservation
<1>. QED
  BY <1>2, <1>3, <1>4, <1>5, <1>6, <1>7, <1>8 DEF ObserveNext, LoopStep

\* Every reachable state of the loop is well typed, for every caller's
\* predicate, every number of attempts and every number of retries.
THEOREM ObserveTypeCorrect == ObserveSpec => []ObserveTypeOK
<1>1. LoopInv => ObserveTypeOK
  BY DEF LoopInv
<1>. QED
  BY <1>1, LoopInit, LoopStepInv, PTL DEF ObserveSpec

\* No bounded wait of any length is stranded by an outage: it ends before its
\* last attempt only when ready or for a failure no repetition can change.
THEOREM NeverStrandedByOutage == ObserveSpec => []EndsEarlyOnlyForCause
<1>1. LoopInv => EndsEarlyOnlyForCause
  BY DEF LoopInv
<1>. QED
  BY <1>1, LoopInit, LoopStepInv, PTL DEF ObserveSpec

\* The verdict of every wait is the one its last observation calls for.
THEOREM VerdictJustified == ObserveSpec => []VerdictIsLastObservation
<1>1. LoopInv => VerdictIsLastObservation
  BY DEF LoopInv
<1>. QED
  BY <1>1, LoopInit, LoopStepInv, PTL DEF ObserveSpec


-----------------------------------------------------------------------------
\* The attempts multiply the calls of one attempt.
LEMMA BudgetArithmetic ==
    ASSUME NEW a \in Nat, NEW m \in Nat, NEW r \in Nat, a + 1 <= m
    PROVE  /\ a * (r + 1) \in Nat
           /\ (a + 1) * (r + 1) = a * (r + 1) + (r + 1)
           /\ (a + 1) * (r + 1) <= m * (r + 1)
<1>1. /\ a * (r + 1) \in Nat
      /\ (a + 1) * (r + 1) = a * (r + 1) + (r + 1)
  OBVIOUS
<1>2. PICK d \in Nat : m = (a + 1) + d
  <2>1. m - (a + 1) \in Nat /\ m = (a + 1) + (m - (a + 1))
    OBVIOUS
  <2>. QED
    BY <2>1
<1>3. m * (r + 1) = (a + 1) * (r + 1) + d * (r + 1)
  BY <1>2
<1>4. d * (r + 1) \in Nat
  OBVIOUS
<1>. QED
  BY <1>1, <1>3, <1>4

LEMMA CallInit == ObserveInit => CallInv
BY RetriesAssumption DEF ObserveInit, CallInv, CurrentTries

LEMMA CallStep == LoopInv /\ CallInv /\ [ObserveNext]_observeVars => CallInv'
<1> SUFFICES ASSUME LoopInv, CallInv, [ObserveNext]_observeVars PROVE CallInv'
  OBVIOUS
<1>. DEFINE spent == (attempt - 1) * (Retries + 1)
<1>1. /\ attempt \in Nat /\ attempt >= 1 /\ attempt <= MaxAttempts
      /\ tries \in Nat /\ tries <= Retries
      /\ calls \in Nat
  BY MaxAttemptsIsPositive, RetriesAssumption DEF LoopInv, ObserveTypeOK
<1>2. spent \in Nat
  BY <1>1, RetriesAssumption
<1>3. ASSUME ReadEnded, pc = "call", calls' \in {calls, calls + 1} PROVE CallInv'
  <2>1. attempt' = attempt /\ pc' # "call"
    BY <1>3 DEF ReadEnded
  <2>2. calls <= spent + tries
    BY <1>3 DEF CallInv, CurrentTries
  <2>3. calls' <= spent + (Retries + 1)
    BY <1>1, <1>2, <1>3, <2>2, RetriesAssumption
  <2>. QED
    BY <2>1, <2>3 DEF CallInv, CurrentTries
<1>4. CASE CallSucceeds
  BY <1>3, <1>4, ReadReturnsEndsRead DEF CallSucceeds, Answered, LoopInv, ObserveTypeOK
<1>5. CASE CallRetried
  <2>1. /\ attempt' = attempt /\ pc = "call" /\ pc' = "call"
        /\ tries' = tries + 1 /\ calls' = calls + 1
    BY <1>5 DEF CallRetried, Answered
  <2>2. calls <= spent + tries
    BY <2>1 DEF CallInv, CurrentTries
  <2>3. calls' <= spent + tries'
    BY <1>1, <1>2, <2>1, <2>2
  <2>. QED
    BY <2>1, <2>3 DEF CallInv, CurrentTries
<1>6. CASE CallFails
  BY <1>3, <1>6, ReadFailsEndsRead DEF CallFails, Answered, CloudError
<1>7. CASE BudgetExpires
  BY <1>3, <1>7, BudgetErrorIsError, ReadFailsEndsRead DEF BudgetExpires
<1>8. CASE Wake
  <2>1. /\ attempt' = attempt + 1 /\ tries' = 0 /\ calls' = calls
        /\ pc = "sleep" /\ pc' = "call"
    BY <1>8 DEF Wake
  <2>2. calls <= spent + (Retries + 1)
    BY <2>1 DEF CallInv, CurrentTries
  <2>3. /\ attempt - 1 \in Nat
        /\ (attempt - 1) + 1 = attempt
    BY <1>1
  <2>4. attempt * (Retries + 1) = spent + (Retries + 1)
    BY <1>1, <2>3, MaxAttemptsIsPositive, RetriesAssumption, BudgetArithmetic
  <2>5. calls' <= (attempt' - 1) * (Retries + 1) + tries'
    BY <1>1, <2>1, <2>2, <2>4, RetriesAssumption
  <2>. QED
    BY <2>1, <2>5 DEF CallInv, CurrentTries
<1>9. CASE Drift
  BY <1>9 DEF Drift, CallInv, CurrentTries
<1>10. CASE UNCHANGED observeVars
  BY <1>10 DEF observeVars, CallInv, CurrentTries
<1>. QED
  BY <1>4, <1>5, <1>6, <1>7, <1>8, <1>9, <1>10 DEF ObserveNext, LoopStep

\* The two nested retry loops never send more requests than the product of
\* their budgets.
THEOREM CallsBounded == ObserveSpec => []CallBudget
<1>1. LoopInv /\ CallInv => CallBudget
  <2> SUFFICES ASSUME LoopInv, CallInv PROVE CallBudget
    OBVIOUS
  <2>1. /\ attempt - 1 \in Nat /\ (attempt - 1) + 1 <= MaxAttempts
        /\ tries \in Nat /\ tries <= Retries
        /\ calls \in Nat
    BY MaxAttemptsIsPositive, RetriesAssumption DEF LoopInv, ObserveTypeOK
  <2>2. /\ (attempt - 1) * (Retries + 1) \in Nat
        /\ (attempt - 1) * (Retries + 1) + (Retries + 1)
             <= MaxAttempts * (Retries + 1)
    BY <2>1, MaxAttemptsIsPositive, RetriesAssumption, BudgetArithmetic
  <2>3. calls <= (attempt - 1) * (Retries + 1) + (Retries + 1)
    BY <2>1, <2>2, RetriesAssumption DEF CallInv, CurrentTries
  <2>4. MaxAttempts * (Retries + 1) \in Nat
    BY MaxAttemptsIsPositive, RetriesAssumption
  <2>. QED
    BY <2>1, <2>2, <2>3, <2>4, RetriesAssumption DEF CallBudget
<1>. QED
  BY <1>1, LoopInit, LoopStepInv, CallInit, CallStep, PTL DEF ObserveSpec

-----------------------------------------------------------------------------
\* Ending a read is one step of the contract, or none.
LEMMA ReadReturnsRefines ==
    ASSUME LoopInv, pc = "call", ReadReturns(answer)
    PROVE  [Contract!Next]_Contract!vars
<1>1. outcome = Pending
  BY DEF LoopInv
<1>2. CASE /\ answer \in Ready(wrapper, accepts)
           /\ Finish(Seen("Ready", answer), Verdict("Completed", answer))
  <2>1. outcome' = Verdict("Completed", answer) /\ outcome' # Pending
    BY <1>2, PendingAssumption DEF Finish, Verdict, Outcome, LoopInv, ObserveTypeOK
  <2>2. outcome'.tag # "WaitTimeout"
    BY <2>1 DEF Verdict
  <2>. QED
    BY <1>1, <1>2, <2>1, <2>2
       DEF Contract!Next, Contract!Succeed, Contract!Completed, Finish, Verdict
<1>3. CASE Repeat(Seen("Pending", answer))
  BY <1>3 DEF Repeat, Contract!vars
<1>4. CASE /\ answer \notin Ready(wrapper, accepts)
           /\ Finish(Seen("Pending", answer),
                     Verdict(ExhaustedTag(wrapper), answer))
  <2>1. /\ outcome' = Verdict(ExhaustedTag(wrapper), answer)
        /\ outcome' # Pending
    BY <1>4, PendingAssumption
       DEF Finish, Verdict, ExhaustedTag, Outcome, LoopInv, ObserveTypeOK
  <2>2. (IF outcome' # Pending /\ outcome'.tag = "WaitTimeout"
           THEN Verdict("Exhausted", outcome'.value) ELSE outcome')
          = Verdict("Exhausted", answer)
    BY <2>1 DEF Verdict, ExhaustedTag
  <2>. QED
    BY <1>1, <1>4, <2>2
       DEF Contract!Next, Contract!Exhaust, Contract!Exhausted, Finish, Verdict
<1>. QED
  BY <1>2, <1>3, <1>4 DEF ReadReturns

LEMMA ReadFailsRefines ==
    ASSUME LoopInv, pc = "call", NEW e \in Error, ReadFails(e),
           isNotFound(e) => answer = Absent
    PROVE  [Contract!Next]_Contract!vars
<1>1. outcome = Pending
  BY DEF LoopInv
<1>2. CASE isNotFound(e) /\ ReadReturns(Absent)
  BY <1>2, ReadReturnsRefines
<1>3. CASE Repeat(Failed(e))
  BY <1>3 DEF Repeat, Contract!vars
<1>4. CASE ~isNotFound(e) /\ Finish(Failed(e), Surfaced(e))
  <2>1. outcome' = Surfaced(e) /\ outcome'.tag # "WaitTimeout"
    BY <1>4 DEF Finish, Surfaced
  <2>. QED
    BY <1>1, <1>4, <2>1
       DEF Contract!Next, Contract!GiveUp, Contract!Surfaced, Finish, Surfaced,
           Error, Contract!Error, Code, Contract!Code, HttpStatus, Contract!HttpStatus,
           isNotFound, Contract!isNotFound
<1>. QED
  BY <1>2, <1>3, <1>4 DEF ReadFails

\* A bounded wait of any length implements the contract BoundedWait states:
\* whatever failed or changed meanwhile, its verdict is about the cloud as it
\* is at the step that ends the wait.
THEOREM LoopImplementsContract == ObserveSpec => ImplementsContract
<1>1. ObserveInit => Contract!Init
  BY ReadyIsObserved DEF ObserveInit, Contract!Init
<1>2. LoopInv /\ [ObserveNext]_observeVars => [Contract!Next]_Contract!vars
  <2> SUFFICES ASSUME LoopInv, [ObserveNext]_observeVars PROVE [Contract!Next]_Contract!vars
    OBVIOUS
  <2>1. CASE CallSucceeds
    BY <2>1, ReadReturnsRefines DEF CallSucceeds, Answered
  <2>2. CASE CallRetried
    BY <2>2 DEF CallRetried, Contract!vars
  <2>3. CASE CallFails
    BY <2>3, ReadFailsRefines DEF CallFails, Answered, CloudError
  <2>4. CASE BudgetExpires
    BY <2>4, BudgetErrorIsError, ReadFailsRefines
       DEF BudgetExpires, safeRetryBudgetError, isNotFound
  <2>5. CASE Wake
    BY <2>5 DEF Wake, Contract!vars
  <2>6. CASE Drift
    BY <2>6 DEF Drift, Contract!Next, Contract!Drift
  <2>7. CASE UNCHANGED observeVars
    BY <2>7 DEF observeVars, Contract!vars
  <2>. QED
    BY <2>1, <2>2, <2>3, <2>4, <2>5, <2>6, <2>7 DEF ObserveNext, LoopStep
<1>. QED
  BY <1>1, <1>2, LoopInit, LoopStepInv, PTL
     DEF ObserveSpec, ImplementsContract, Contract!Spec

-----------------------------------------------------------------------------
(* The read of a listing. *)

\* What the read has passed by: items at the places it has read from that it
\* did not read there.
Missed(k) ==
    { x \in lasting \ ToSet(items) :
        \E n \in 1 .. Len(listing) : n <= k /\ listing[n] = x }

\* A read that goes on had full pages only, so that it knows the place it has
\* come to by what it has read; and a removal makes it pass by one item.
ReadInv ==
    /\ ReadTypeOK
    /\ \A m, n \in 1 .. Len(listing) : listing[m] = listing[n] => m = n
    /\ lasting \subseteq ToSet(listing)
    /\ ~reports => reportedTotal = {} /\ served = PageSize
    /\ verdict = "reading" =>
         /\ pageNumber <= MaxPages
         /\ Len(items) = (pageNumber - 1) * served
         /\ Cardinality(Missed(Len(items))) <= removals
    /\ LossIsBounded

\* What a listing contains.
LEMMA Elements ==
    ASSUME NEW S, NEW s \in Seq(S)
    PROVE  /\ Len(s) \in Nat /\ \A i \in 1 .. Len(s) : s[i] \in S
           /\ \A x : x \in ToSet(s) <=> \E i \in 1 .. Len(s) : s[i] = x
BY DEF ToSet

\* What two pages contain.
LEMMA Joined ==
    ASSUME NEW S, NEW s \in Seq(S), NEW t \in Seq(S)
    PROVE  /\ s \o t \in Seq(S) /\ Len(s \o t) = Len(s) + Len(t)
           /\ ToSet(s) \subseteq ToSet(s \o t) /\ ToSet(t) \subseteq ToSet(s \o t)
<1> DEFINE u == s \o t
<1>1. /\ u \in Seq(S) /\ Len(u) = Len(s) + Len(t)
      /\ \A i \in 1 .. Len(s) + Len(t) : u[i] = IF i <= Len(s) THEN s[i] ELSE t[i - Len(s)]
  BY ConcatProperties
<1>2. Len(s) \in Nat /\ Len(t) \in Nat
  BY Elements
<1> HIDE DEF u
<1>3. ASSUME NEW x \in ToSet(s) PROVE x \in ToSet(u)
  <2>1. PICK i \in 1 .. Len(s) : s[i] = x
    BY Elements
  <2>2. i \in 1 .. Len(u) /\ u[i] = x
    BY <1>1, <1>2, <2>1
  <2> QED BY <1>1, <2>2, Elements
<1>4. ASSUME NEW x \in ToSet(t) PROVE x \in ToSet(u)
  <2>1. PICK i \in 1 .. Len(t) : t[i] = x
    BY Elements
  <2>2. /\ i + Len(s) \in 1 .. Len(s) + Len(t) /\ ~(i + Len(s) <= Len(s))
        /\ (i + Len(s)) - Len(s) = i
    BY <1>2
  <2>3. i + Len(s) \in 1 .. Len(u) /\ u[i + Len(s)] = x
    BY <1>1, <2>1, <2>2
  <2> QED BY <1>1, <2>3, Elements
<1> QED BY <1>1, <1>3, <1>4 DEF u

\* What a page contains.
LEMMA Cut ==
    ASSUME NEW S, NEW s \in Seq(S), NEW k \in Nat, NEW n \in 0 .. Len(s)
    PROVE  /\ SubSeq(s, k + 1, n) \in Seq(S)
           /\ Len(SubSeq(s, k + 1, n)) = IF k < n THEN n - k ELSE 0
           /\ \A i \in 1 .. Len(s) : k < i /\ i <= n => s[i] \in ToSet(SubSeq(s, k + 1, n))
<1> DEFINE u == SubSeq(s, k + 1, n)
<1>1. Len(s) \in Nat /\ \A i \in 1 .. Len(s) : s[i] \in S
  BY Elements
<1>2. \A i \in k + 1 .. n : s[i] \in S
  BY <1>1
<1>3. k + 1 \in Int /\ n \in Int /\ n \in Nat
  BY <1>1
<1>4. /\ u \in Seq(S) /\ Len(u) = IF k + 1 <= n THEN n - (k + 1) + 1 ELSE 0
      /\ \A i \in 1 .. n - (k + 1) + 1 : u[i] = s[(k + 1) + i - 1]
  BY <1>2, <1>3, SubSeqProperties
<1> HIDE DEF u
<1>5. Len(u) = IF k < n THEN n - k ELSE 0
  BY <1>3, <1>4
<1>6. ASSUME NEW i \in 1 .. Len(s), k < i, i <= n
      PROVE  s[i] \in ToSet(u)
  <2>1. /\ i - k \in 1 .. Len(u) /\ i - k \in 1 .. n - (k + 1) + 1
        /\ (k + 1) + (i - k) - 1 = i
    BY <1>1, <1>3, <1>5, <1>6
  <2>2. u[i - k] = s[i]
    BY <1>4, <2>1
  <2> QED BY <1>4, <2>1, <2>2, Elements
<1> QED BY <1>4, <1>5, <1>6 DEF u

\* Where an item that appears leaves the others.
Shifted(t, s, n, x) ==
    \A i \in 1 .. Len(s) + 1 :
      t[i] = IF i < n THEN s[i] ELSE IF i = n THEN x ELSE s[i - 1]

LEMMA Inserted ==
    ASSUME NEW S, NEW s \in Seq(S), NEW n \in 1 .. Len(s) + 1, NEW x \in S
    PROVE  /\ InsertAt(s, n, x) \in Seq(S) /\ Len(InsertAt(s, n, x)) = Len(s) + 1
           /\ Shifted(InsertAt(s, n, x), s, n, x)
<1> DEFINE before == SubSeq(s, 1, n - 1)
           after == SubSeq(s, n, Len(s))
           one == <<x>>
           middle == before \o one
<1>1. Len(s) \in Nat /\ \A i \in 1 .. Len(s) : s[i] \in S
  BY Elements
<1>2. /\ before \in Seq(S) /\ Len(before) = n - 1
      /\ \A i \in 1 .. n - 1 : before[i] = s[i]
  <2>1. \A i \in 1 .. n - 1 : s[i] \in S
    BY <1>1
  <2> QED BY <1>1, <2>1, SubSeqProperties
<1>3. /\ after \in Seq(S) /\ Len(after) = Len(s) - n + 1
      /\ \A i \in 1 .. Len(s) - n + 1 : after[i] = s[n + i - 1]
  <2>1. \A i \in n .. Len(s) : s[i] \in S
    BY <1>1
  <2> QED BY <1>1, <2>1, SubSeqProperties
<1>4. one \in Seq(S) /\ Len(one) = 1 /\ one[1] = x
  OBVIOUS
<1>5. InsertAt(s, n, x) = middle \o after
  BY DEF InsertAt
<1> HIDE DEF before, after, one
<1>6. /\ middle \in Seq(S) /\ Len(middle) = n
      /\ \A i \in 1 .. n : middle[i] = IF i <= n - 1 THEN before[i] ELSE one[i - (n - 1)]
  <2>1. /\ middle \in Seq(S) /\ Len(middle) = Len(before) + Len(one)
        /\ \A i \in 1 .. Len(before) + Len(one) :
             middle[i] = IF i <= Len(before) THEN before[i] ELSE one[i - Len(before)]
    BY <1>2, <1>4, ConcatProperties
  <2>2. Len(before) + Len(one) = n
    BY <1>1, <1>2, <1>4
  <2> HIDE DEF middle
  <2> QED BY <1>2, <2>1, <2>2
<1> HIDE DEF middle
<1>7. /\ middle \o after \in Seq(S) /\ Len(middle \o after) = Len(s) + 1
      /\ \A i \in 1 .. Len(s) + 1 : (middle \o after)[i] = IF i <= n THEN middle[i] ELSE after[i - n]
  <2>1. /\ middle \o after \in Seq(S) /\ Len(middle \o after) = Len(middle) + Len(after)
        /\ \A i \in 1 .. Len(middle) + Len(after) :
             (middle \o after)[i] = IF i <= Len(middle) THEN middle[i] ELSE after[i - Len(middle)]
    <3>1. middle \in Seq(S) /\ after \in Seq(S)
      BY <1>3, <1>6
    <3> QED BY ONLY <3>1, ConcatProperties
  <2>2. Len(middle) + Len(after) = Len(s) + 1
    BY <1>1, <1>3, <1>6
  <2> QED BY <1>6, <2>1, <2>2
<1>8. ASSUME NEW i \in 1 .. Len(s) + 1
      PROVE  (middle \o after)[i] = IF i < n THEN s[i] ELSE IF i = n THEN x ELSE s[i - 1]
  <2>1. CASE i < n
    <3>1. i \in 1 .. n /\ i \in 1 .. n - 1 /\ i <= n - 1 /\ i <= n
      BY <1>1, <2>1
    <3>2. (middle \o after)[i] = middle[i]
      BY <1>7, <3>1
    <3>3. middle[i] = before[i] /\ before[i] = s[i]
      BY <1>2, <1>6, <3>1
    <3> QED BY <2>1, <3>2, <3>3
  <2>2. CASE i = n
    <3>1. (middle \o after)[i] = middle[n] /\ n \in 1 .. n /\ n - (n - 1) = 1 /\ ~(n <= n - 1)
      BY <1>1, <1>7, <2>2
    <3>2. middle[n] = one[1]
      BY <1>6, <3>1
    <3> QED BY <1>1, <1>4, <2>2, <3>1, <3>2
  <2>3. CASE i > n
    <3>1. i - n \in 1 .. Len(s) - n + 1 /\ n + (i - n) - 1 = i - 1
      BY <1>1, <2>3
    <3>2. (middle \o after)[i] = after[i - n]
      BY <1>1, <1>7, <2>3
    <3>3. after[i - n] = s[n + (i - n) - 1]
      BY <1>3, <3>1
    <3> QED BY <1>1, <2>3, <3>1, <3>2, <3>3
  <2>4. i < n \/ i = n \/ i > n
    BY <1>1
  <2> QED BY <2>1, <2>2, <2>3, <2>4
<1> QED BY <1>5, <1>7, <1>8 DEF Shifted

\* Where an item that disappears leaves the others.
LEMMA WithoutOne ==
    ASSUME NEW S, NEW s \in Seq(S), NEW n \in 1 .. Len(s)
    PROVE  /\ RemoveAt(s, n) \in Seq(S) /\ Len(RemoveAt(s, n)) = Len(s) - 1
           /\ \A i \in 1 .. Len(s) - 1 :
                RemoveAt(s, n)[i] = IF i < n THEN s[i] ELSE s[i + 1]
<1> DEFINE before == SubSeq(s, 1, n - 1)
           after == SubSeq(s, n + 1, Len(s))
<1>1. Len(s) \in Nat /\ \A i \in 1 .. Len(s) : s[i] \in S
  BY Elements
<1>2. /\ before \in Seq(S) /\ Len(before) = n - 1
      /\ \A i \in 1 .. n - 1 : before[i] = s[i]
  <2>1. \A i \in 1 .. n - 1 : s[i] \in S
    BY <1>1
  <2> QED BY <1>1, <2>1, SubSeqProperties
<1>3. /\ after \in Seq(S) /\ Len(after) = Len(s) - n
      /\ \A i \in 1 .. Len(s) - n : after[i] = s[n + i]
  <2>1. \A i \in n + 1 .. Len(s) : s[i] \in S
    BY <1>1
  <2>2. /\ after \in Seq(S) /\ Len(after) = IF n + 1 <= Len(s) THEN Len(s) - (n + 1) + 1 ELSE 0
        /\ \A i \in 1 .. Len(s) - (n + 1) + 1 : after[i] = s[(n + 1) + i - 1]
    BY <1>1, <2>1, SubSeqProperties
  <2> HIDE DEF after
  <2>3. Len(after) = Len(s) - n
    BY <1>1, <2>2
  <2>4. ASSUME NEW i \in 1 .. Len(s) - n  PROVE  after[i] = s[n + i]
    <3>1. i \in 1 .. Len(s) - (n + 1) + 1 /\ (n + 1) + i - 1 = n + i
      BY <1>1
    <3> QED BY <2>2, <3>1
  <2> QED BY <2>2, <2>3, <2>4
<1>4. RemoveAt(s, n) = before \o after
  BY DEF RemoveAt
<1> HIDE DEF before, after
<1>5. /\ before \o after \in Seq(S) /\ Len(before \o after) = Len(s) - 1
      /\ \A i \in 1 .. Len(s) - 1 : (before \o after)[i] = IF i <= n - 1 THEN before[i] ELSE after[i - (n - 1)]
  <2>1. Len(before) + Len(after) = Len(s) - 1
    BY <1>1, <1>2, <1>3
  <2>2. /\ before \o after \in Seq(S) /\ Len(before \o after) = Len(before) + Len(after)
        /\ \A i \in 1 .. Len(before) + Len(after) :
             (before \o after)[i] = IF i <= Len(before) THEN before[i] ELSE after[i - Len(before)]
    BY <1>2, <1>3, ConcatProperties
  <2> QED BY <1>2, <2>1, <2>2
<1>6. ASSUME NEW i \in 1 .. Len(s) - 1
      PROVE  (before \o after)[i] = IF i < n THEN s[i] ELSE s[i + 1]
  <2>1. CASE i < n
    BY <1>1, <1>2, <1>5, <2>1
  <2>2. CASE i >= n
    <3>1. i - (n - 1) \in 1 .. Len(s) - n /\ n + (i - (n - 1)) = i + 1 /\ ~(i <= n - 1)
      BY <1>1, <2>2
    <3>2. (before \o after)[i] = after[i - (n - 1)]
      BY <1>5, <3>1
    <3>3. after[i - (n - 1)] = s[n + (i - (n - 1))]
      BY <1>3, <3>1
    <3>4. (before \o after)[i] = s[i + 1] /\ ~(i < n)
      BY <2>2, <3>1, <3>2, <3>3, <1>1
    <3> QED BY <3>4
  <2>3. i < n \/ i >= n
    BY <1>1
  <2> QED BY <2>1, <2>2, <2>3
<1> QED BY <1>4, <1>5, <1>6

\* A set of items is finite, and no longer than all items are many.
LEMMA FewItems ==
    ASSUME NEW S \in SUBSET Item
    PROVE  IsFiniteSet(S) /\ Cardinality(S) \in Nat /\ Cardinality(S) <= Cardinality(Item)
BY ItemAssumption, FS_Subset, FS_CardinalityType

LEMMA FewerItems ==
    ASSUME NEW S \in SUBSET Item, NEW T \in SUBSET S
    PROVE  Cardinality(T) \in Nat /\ Cardinality(T) <= Cardinality(S)
BY FewItems, FS_Subset, FS_CardinalityType

LEMMA ListedOnce ==
    ASSUME NEW s \in Seq(Item), \A m, n \in 1 .. Len(s) : s[m] = s[n] => m = n
    PROVE  Len(s) \in 0 .. Cardinality(Item)
<1>1. Len(s) \in Nat /\ s \in [1 .. Len(s) -> Item]
  BY Elements, LenProperties
<1>2. s \in Injection(1 .. Len(s), Item)
  BY <1>1 DEF Injection, IsInjective
<1>3. Cardinality(1 .. Len(s)) <= Cardinality(Item)
  <2> DEFINE places == 1 .. Len(s)
  <2>1. s \in Injection(places, Item)
    BY <1>2
  <2> HIDE DEF places
  <2>2. Cardinality(places) <= Cardinality(Item)
    BY <2>1, ItemAssumption, FS_Injection
  <2> QED BY <2>2 DEF places
<1>4. Cardinality(1 .. Len(s)) = Len(s)
  BY <1>1, FS_Interval
<1> QED BY <1>1, <1>3, <1>4, FewItems

\* The read goes on from where it was: what it now has passed by it had passed
\* by before.
LEMMA PageStep ==
    ASSUME ReadInv, ReadPage
    PROVE  ReadInv'
<1> DEFINE k == Len(items)
           last == Lesser(pageNumber * served, Len(listing))
<1>1. /\ ReadTypeOK /\ verdict = "reading" /\ lasting \subseteq ToSet(listing)
      /\ \A m, n \in 1 .. Len(listing) : listing[m] = listing[n] => m = n
      /\ ~reports => reportedTotal = {} /\ served = PageSize
      /\ pageNumber <= MaxPages /\ k = (pageNumber - 1) * served
      /\ Cardinality(Missed(k)) <= removals
      /\ UNCHANGED <<listing, reports, served, lasting, changes, removals>>
      /\ items' = items \o Page /\ reportedTotal' = Total
  BY DEF ReadInv, ReadPage, server, meanwhile
<1>2. /\ listing \in Seq(Item) /\ items \in Seq(Item) /\ k \in Nat /\ Len(listing) \in Nat
      /\ served \in Nat \ {0} /\ pageNumber \in Nat \ {0} /\ removals \in Nat /\ PageSize \in Nat
      /\ lasting \in SUBSET Item
  BY <1>1, Elements, BoundsAssumption DEF ReadTypeOK
<1>3. pageNumber * served = k + served
  BY <1>1, <1>2
<1>4. last \in 0 .. Len(listing) /\ last = IF k + served < Len(listing) THEN k + served ELSE Len(listing)
  BY <1>2, <1>3 DEF Lesser
<1>5. Page = SubSeq(listing, k + 1, last)
  BY <1>1 DEF Page
<1> HIDE DEF last
<1>6. /\ Page \in Seq(Item) /\ Len(Page) = IF k < last THEN last - k ELSE 0
      /\ \A n \in 1 .. Len(listing) : k < n /\ n <= last => listing[n] \in ToSet(Page)
  <2>1. listing \in Seq(Item) /\ k \in Nat /\ last \in 0 .. Len(listing)
    BY <1>2, <1>4
  <2> HIDE DEF k
  <2>2. /\ SubSeq(listing, k + 1, last) \in Seq(Item)
        /\ Len(SubSeq(listing, k + 1, last)) = IF k < last THEN last - k ELSE 0
        /\ \A n \in 1 .. Len(listing) :
             k < n /\ n <= last => listing[n] \in ToSet(SubSeq(listing, k + 1, last))
    BY ONLY <2>1, Cut
  <2> QED BY <1>5, <2>2
<1>7. /\ items' \in Seq(Item) /\ Len(items') = k + Len(Page)
      /\ ToSet(items) \subseteq ToSet(items') /\ ToSet(Page) \subseteq ToSet(items')
  BY <1>1, <1>2, <1>6, Joined
\* What was missed at any later place is what was missed, if the page got there.
<1>8. Missed(k) \in SUBSET Item /\ Cardinality(Missed(k)) \in Nat
  BY <1>2, FewItems DEF Missed
<1>9. ASSUME NEW S \in SUBSET Item, S \subseteq Missed(k)
      PROVE  Cardinality(S) <= removals
  <2>1. Cardinality(S) \in Nat /\ Cardinality(S) <= Cardinality(Missed(k))
    BY <1>8, <1>9, FewerItems
  <2> QED BY <1>1, <1>2, <1>8, <2>1
<1>10. ASSUME NEW n \in 1 .. Len(listing), n <= k + served, listing[n] \in lasting \ ToSet(items')
       PROVE  listing[n] \in Missed(k)
  <2>1. n <= last
    BY <1>2, <1>4, <1>10
  <2>2. ~(k < n)
    BY <1>6, <1>7, <1>10, <2>1
  <2> QED BY <1>2, <1>7, <1>10, <2>2 DEF Missed
<1>11. reportedTotal' \in SUBSET (0 .. Cardinality(Item)) /\ (~reports' => reportedTotal' = {})
  <2>1. Len(listing) \in 0 .. Cardinality(Item)
    BY <1>1, <1>2, ListedOnce
  <2> QED BY <1>1, <2>1 DEF Total, ReadTypeOK
<1>12. CASE ReachedReportedTotal(items', Total) \/ ReachedShortPage(Page, Total)
  <2>1. verdict' = "drained" /\ UNCHANGED pageNumber
    BY <1>12 DEF ReadPage
  <2>2. Len(listing) <= k + served
    <3>1. CASE ReachedReportedTotal(items', Total)
      <4>1. reports /\ Len(items') >= Len(listing)
        BY <1>1, <3>1 DEF ReachedReportedTotal, Total
      <4> QED BY <1>2, <1>4, <1>6, <1>7, <4>1
    <3>2. CASE ReachedShortPage(Page, Total)
      <4>1. ~reports /\ Len(Page) < PageSize
        BY <3>2 DEF ReachedShortPage, Total
      <4>2. Len(Page) < served
        BY <1>1, <4>1
      <4> QED BY <1>2, <1>4, <1>6, <4>2
    <3> QED BY <1>12, <3>1, <3>2
  <2>3. lasting \ ToSet(items') \subseteq Missed(k)
    <3> SUFFICES ASSUME NEW x \in lasting \ ToSet(items')
                 PROVE  x \in Missed(k)
      OBVIOUS
    <3>1. PICK n \in 1 .. Len(listing) : listing[n] = x
      <4>1. x \in ToSet(listing)
        BY <1>1
      <4> QED BY <1>2, <4>1, Elements
    <3>2. n <= k + served
      BY <1>2, <2>2
    <3> QED BY <1>10, <3>1, <3>2
  <2>4. Cardinality(lasting \ ToSet(items')) <= removals
    BY <1>2, <1>9, <2>3
  <2>5. ReadTypeOK'
    BY <1>1, <1>7, <1>11, <2>1 DEF ReadTypeOK
  <2> QED BY <1>1, <1>11, <2>1, <2>4, <2>5 DEF ReadInv, LossIsBounded
<1>13. CASE ~(ReachedReportedTotal(items', Total) \/ ReachedShortPage(Page, Total))
  <2>1. pageNumber' = pageNumber + 1
        /\ verdict' = IF pageNumber = MaxPages THEN "limit" ELSE "reading"
    BY <1>13 DEF ReadPage
  <2>2. ReadTypeOK'
    BY <1>1, <1>2, <1>7, <1>11, <2>1, BoundsAssumption DEF ReadTypeOK
  <2>3. Len(Page) = served
    <3>1. CASE reports
      <4>1. ~(Len(items') >= Len(listing))
        BY <1>13, <3>1 DEF ReachedReportedTotal, Total
      <4> QED BY <1>2, <1>4, <1>6, <1>7, <4>1
    <3>2. CASE ~reports
      <4>1. ~(Len(Page) < PageSize) /\ served = PageSize
        BY <1>1, <1>13, <3>2 DEF ReachedShortPage, Total
      <4> QED BY <1>2, <1>4, <1>6, <4>1
    <3> QED BY <3>1, <3>2
  <2>4. Len(items') = k + served /\ (pageNumber' - 1) * served' = k + served
    BY <1>1, <1>2, <1>3, <1>7, <2>1, <2>3
  <2>5. Missed(Len(items))' \subseteq Missed(k)
    <3> SUFFICES ASSUME NEW x \in Missed(Len(items))'
                 PROVE  x \in Missed(k)
      OBVIOUS
    <3>1. PICK n \in 1 .. Len(listing) : n <= Len(items') /\ listing[n] = x
      BY <1>1 DEF Missed
    <3>2. x \in lasting \ ToSet(items')
      BY <1>1 DEF Missed
    <3> QED BY <1>10, <2>4, <3>1, <3>2
  <2>6. Cardinality(Missed(Len(items))') <= removals
    BY <1>8, <1>9, <2>5
  <2>7. verdict' = "reading" => pageNumber' <= MaxPages'
    BY <1>1, <1>2, <2>1, BoundsAssumption
  <2> QED BY <1>1, <1>11, <2>1, <2>2, <2>4, <2>6, <2>7 DEF ReadInv, LossIsBounded
<1> QED BY <1>12, <1>13


\* Nothing is missed of what appears, and what was there moves away from the
\* start if at all.
LEMMA AppearStep ==
    ASSUME ReadInv, NEW i \in Item, NEW n \in 1 .. Len(listing) + 1, Appear(i, n)
    PROVE  ReadInv'
<1> DEFINE k == Len(items)
<1>1. /\ ReadTypeOK /\ verdict = "reading" /\ lasting \subseteq ToSet(listing)
      /\ \A p, q \in 1 .. Len(listing) : listing[p] = listing[q] => p = q
      /\ ~reports => reportedTotal = {} /\ served = PageSize
      /\ pageNumber <= MaxPages /\ k = (pageNumber - 1) * served
      /\ Cardinality(Missed(k)) <= removals
      /\ i \notin ToSet(listing) /\ changes < MaxChanges /\ changes' = changes + 1
      /\ UNCHANGED <<reports, served, pageNumber, items, reportedTotal, verdict, lasting, removals>>
      /\ listing' = InsertAt(listing, n, i)
  BY DEF ReadInv, Appear, server, loop
<1>2. /\ listing \in Seq(Item) /\ k \in Nat /\ Len(listing) \in Nat /\ removals \in Nat
      /\ lasting \in SUBSET Item
  BY <1>1, Elements DEF ReadTypeOK
<1>3. /\ listing' \in Seq(Item) /\ Len(listing') = Len(listing) + 1
      /\ \A m \in 1 .. Len(listing) + 1 :
           listing'[m] = IF m < n THEN listing[m] ELSE IF m = n THEN i ELSE listing[m - 1]
  <2> DEFINE l == InsertAt(listing, n, i)
  <2>1. l \in Seq(Item) /\ Len(l) = Len(listing) + 1 /\ Shifted(l, listing, n, i)
    BY <1>2, Inserted
  <2>2. listing' = l
    BY <1>1
  <2> HIDE DEF l
  <2> QED BY <2>1, <2>2 DEF Shifted
<1>4. \A m \in 1 .. Len(listing) : listing[m] # i
  BY <1>1, <1>2, Elements
<1>5. ASSUME NEW p \in 1 .. Len(listing'), NEW q \in 1 .. Len(listing'), listing'[p] = listing'[q]
      PROVE  p = q
  <2>1. /\ p \in 1 .. Len(listing) + 1 /\ p \in Nat
        /\ q \in 1 .. Len(listing) + 1 /\ q \in Nat /\ n \in Nat
    BY <1>2, <1>3
  <2>2. /\ p < n => p \in 1 .. Len(listing) /\ listing'[p] = listing[p]
        /\ p = n => listing'[p] = i
        /\ p > n => p - 1 \in 1 .. Len(listing) /\ listing'[p] = listing[p - 1]
    BY <1>2, <1>3, <2>1
  <2>3. /\ q < n => q \in 1 .. Len(listing) /\ listing'[q] = listing[q]
        /\ q = n => listing'[q] = i
        /\ q > n => q - 1 \in 1 .. Len(listing) /\ listing'[q] = listing[q - 1]
    BY <1>2, <1>3, <2>1
  <2>4. CASE p = n
    BY <1>4, <1>5, <2>1, <2>2, <2>3, <2>4
  <2>5. CASE q = n
    BY <1>4, <1>5, <2>1, <2>2, <2>3, <2>5
  <2>6. CASE p < n /\ q < n
    BY <1>1, <1>5, <2>2, <2>3, <2>6
  <2>7. CASE p > n /\ q > n
    <3>1. p - 1 = q - 1
      BY <1>1, <1>5, <2>2, <2>3, <2>7
    <3> QED BY <2>1, <3>1
  <2>8. CASE p < n /\ q > n
    <3>1. p = q - 1
      BY <1>1, <1>5, <2>2, <2>3, <2>8
    <3> QED BY <2>1, <2>8, <3>1
  <2>9. CASE p > n /\ q < n
    <3>1. p - 1 = q
      BY <1>1, <1>5, <2>2, <2>3, <2>9
    <3> QED BY <2>1, <2>9, <3>1
  <2>10. (p < n \/ p = n \/ p > n) /\ (q < n \/ q = n \/ q > n)
    BY <2>1
  <2> QED BY <2>4, <2>5, <2>6, <2>7, <2>8, <2>9, <2>10
<1>6. lasting' \subseteq ToSet(listing')
  <2> SUFFICES ASSUME NEW x \in lasting
               PROVE  x \in ToSet(listing')
    BY <1>1
  <2>1. PICK m \in 1 .. Len(listing) : listing[m] = x
    BY <1>1, <1>2, Elements
  <2>2. CASE m < n
    BY <1>2, <1>3, <2>1, <2>2, Elements
  <2>3. CASE ~(m < n)
    <3>1. m + 1 \in 1 .. Len(listing) + 1 /\ ~(m + 1 < n) /\ m + 1 # n /\ (m + 1) - 1 = m
      BY <1>2, <2>3
    <3>2. listing'[m + 1] = x /\ m + 1 \in 1 .. Len(listing')
      BY <1>3, <2>1, <3>1
    <3> QED BY <1>3, <3>2, Elements
  <2> QED BY <2>2, <2>3
<1>7. Missed(Len(items))' \subseteq Missed(k)
  <2> SUFFICES ASSUME NEW x \in Missed(Len(items))'
               PROVE  x \in Missed(k)
    OBVIOUS
  <2>1. /\ x \in lasting \ ToSet(items)
        /\ \E m \in 1 .. Len(listing') : m <= k /\ listing'[m] = x
    BY <1>1 DEF Missed
  <2>2. PICK m \in 1 .. Len(listing') : m <= k /\ listing'[m] = x
    BY <2>1
  <2>3. x # i
    BY <1>1, <2>1
  <2>4. m \in 1 .. Len(listing) + 1 /\ m \in Nat /\ n \in Nat
    BY <1>2, <1>3
  <2>5. CASE m < n
    BY <1>2, <1>3, <2>1, <2>2, <2>4, <2>5 DEF Missed
  <2>6. CASE m > n
    <3>1. m - 1 \in 1 .. Len(listing) /\ m - 1 <= k /\ listing[m - 1] = x
      BY <1>2, <1>3, <2>2, <2>4, <2>6
    <3> QED BY <2>1, <3>1 DEF Missed
  <2>7. m # n
    BY <1>3, <2>2, <2>3, <2>4
  <2> QED BY <2>4, <2>5, <2>6, <2>7
<1>8. Cardinality(Missed(Len(items))') <= removals'
  <2>1. Missed(k) \in SUBSET Item
    BY <1>2 DEF Missed
  <2>2. /\ Cardinality(Missed(k)) \in Nat /\ Cardinality(Missed(Len(items))') \in Nat
        /\ Cardinality(Missed(Len(items))') <= Cardinality(Missed(k))
    BY <1>7, <2>1, FewItems, FewerItems
  <2> QED BY <1>1, <1>2, <2>2
<1>9. ReadTypeOK'
  BY <1>1, <1>3, BoundsAssumption DEF ReadTypeOK
<1>10. /\ k' = k /\ verdict' = "reading" /\ ~LossIsBounded' => FALSE
  BY <1>1 DEF LossIsBounded
<1>11. \A p, q \in 1 .. Len(listing') : listing'[p] = listing'[q] => p = q
  BY <1>5
<1> QED BY <1>1, <1>6, <1>8, <1>9, <1>10, <1>11 DEF ReadInv

\* A removal moves at most one item to where the read has passed by.
LEMMA DisappearStep ==
    ASSUME ReadInv, NEW n \in 1 .. Len(listing), Disappear(n)
    PROVE  ReadInv'
<1> DEFINE k == Len(items)
           slipped == listing[k + 1]
<1>1. /\ ReadTypeOK /\ verdict = "reading" /\ lasting \subseteq ToSet(listing)
      /\ \A p, q \in 1 .. Len(listing) : listing[p] = listing[q] => p = q
      /\ ~reports => reportedTotal = {} /\ served = PageSize
      /\ pageNumber <= MaxPages /\ k = (pageNumber - 1) * served
      /\ Cardinality(Missed(k)) <= removals
      /\ changes < MaxChanges /\ changes' = changes + 1 /\ removals' = removals + 1
      /\ UNCHANGED <<reports, served, pageNumber, items, reportedTotal, verdict>>
      /\ listing' = RemoveAt(listing, n) /\ lasting' = lasting \ {listing[n]}
  BY DEF ReadInv, Disappear, server, loop
<1>2. /\ listing \in Seq(Item) /\ k \in Nat /\ Len(listing) \in Nat /\ removals \in Nat
      /\ lasting \in SUBSET Item
  BY <1>1, Elements DEF ReadTypeOK
<1>3. /\ listing' \in Seq(Item) /\ Len(listing') = Len(listing) - 1
      /\ \A m \in 1 .. Len(listing) - 1 :
           listing'[m] = IF m < n THEN listing[m] ELSE listing[m + 1]
  BY <1>1, <1>2, WithoutOne
<1>4. ASSUME NEW p \in 1 .. Len(listing'), NEW q \in 1 .. Len(listing'), listing'[p] = listing'[q]
      PROVE  p = q
  <2>1. /\ p \in 1 .. Len(listing) /\ p + 1 \in 1 .. Len(listing) /\ p \in Nat
        /\ q \in 1 .. Len(listing) /\ q + 1 \in 1 .. Len(listing) /\ q \in Nat /\ n \in Nat
    BY <1>2, <1>3
  <2>2. /\ p < n => listing'[p] = listing[p]
        /\ ~(p < n) => listing'[p] = listing[p + 1]
        /\ q < n => listing'[q] = listing[q]
        /\ ~(q < n) => listing'[q] = listing[q + 1]
    BY <1>2, <1>3
  <2>3. CASE p < n /\ q < n
    BY <1>1, <1>4, <2>1, <2>2, <2>3
  <2>4. CASE ~(p < n) /\ ~(q < n)
    <3>1. p + 1 = q + 1
      BY <1>1, <1>4, <2>1, <2>2, <2>4
    <3> QED BY <2>1, <3>1
  <2>5. CASE p < n /\ ~(q < n)
    <3>1. p = q + 1
      BY <1>1, <1>4, <2>1, <2>2, <2>5
    <3> QED BY <2>1, <2>5, <3>1
  <2>6. CASE ~(p < n) /\ q < n
    <3>1. p + 1 = q
      BY <1>1, <1>4, <2>1, <2>2, <2>6
    <3> QED BY <2>1, <2>6, <3>1
  <2> QED BY <2>3, <2>4, <2>5, <2>6
<1>5. lasting' \subseteq ToSet(listing')
  <2> SUFFICES ASSUME NEW x \in lasting, x # listing[n]
               PROVE  x \in ToSet(listing')
    BY <1>1
  <2>1. PICK m \in 1 .. Len(listing) : listing[m] = x
    BY <1>1, <1>2, Elements
  <2>2. CASE m < n
    <3>1. m \in 1 .. Len(listing) - 1
      BY <1>2, <2>2
    <3>2. m \in 1 .. Len(listing') /\ listing'[m] = x
      BY <1>3, <2>1, <2>2, <3>1
    <3> QED BY <1>3, <3>2, Elements
  <2>3. CASE m > n
    <3>1. m - 1 \in 1 .. Len(listing) - 1 /\ ~(m - 1 < n) /\ (m - 1) + 1 = m
      BY <1>2, <2>3
    <3>2. m - 1 \in 1 .. Len(listing') /\ listing'[m - 1] = x
      BY <1>3, <2>1, <3>1
    <3> QED BY <1>3, <3>2, Elements
  <2>4. m # n /\ m \in Nat /\ n \in Nat
    BY <1>2, <2>1
  <2> QED BY <2>2, <2>3, <2>4
<1>6. Missed(Len(items))' \subseteq Missed(k) \cup {slipped}
  <2> SUFFICES ASSUME NEW x \in Missed(Len(items))', x # slipped
               PROVE  x \in Missed(k)
    OBVIOUS
  <2>1. /\ x \in lasting \ ToSet(items)
        /\ \E m \in 1 .. Len(listing') : m <= k /\ listing'[m] = x
    BY <1>1 DEF Missed
  <2>2. PICK m \in 1 .. Len(listing') : m <= k /\ listing'[m] = x
    BY <2>1
  <2>3. m \in 1 .. Len(listing) - 1 /\ m \in 1 .. Len(listing) /\ m + 1 \in 1 .. Len(listing)
    BY <1>2, <1>3
  <2>4. CASE m < n
    BY <1>3, <2>1, <2>2, <2>3, <2>4 DEF Missed
  <2>5. CASE ~(m < n)
    <3>1. listing[m + 1] = x
      BY <1>3, <2>2, <2>3, <2>5
    <3>2. m + 1 <= k
      <4>1. m + 1 # k + 1
        BY <2>2, <3>1
      <4> QED BY <1>2, <2>2, <2>3, <4>1
    <3> QED BY <2>1, <2>3, <3>1, <3>2 DEF Missed
  <2> QED BY <2>4, <2>5
<1>7. Cardinality(Missed(Len(items))') <= removals'
  <2>1. /\ Missed(k) \in SUBSET Item /\ IsFiniteSet(Missed(k))
        /\ Cardinality(Missed(k)) \in Nat
    BY <1>2, FewItems DEF Missed
  <2>2. /\ IsFiniteSet(Missed(k) \cup {slipped})
        /\ Cardinality(Missed(k) \cup {slipped}) =
             IF slipped \in Missed(k) THEN Cardinality(Missed(k)) ELSE Cardinality(Missed(k)) + 1
    BY <2>1, FS_AddElement
  <2>3. /\ IsFiniteSet(Missed(Len(items))') /\ Cardinality(Missed(Len(items))') \in Nat
        /\ Cardinality(Missed(Len(items))') <= Cardinality(Missed(k) \cup {slipped})
    BY <1>6, <2>2, FS_Subset, FS_CardinalityType
  <2> HIDE DEF slipped
  <2> QED BY <1>1, <1>2, <2>1, <2>2, <2>3
<1>8. ReadTypeOK'
  BY <1>1, <1>2, <1>3, BoundsAssumption DEF ReadTypeOK
<1>9. k' = k /\ verdict' = "reading" /\ LossIsBounded'
  BY <1>1 DEF LossIsBounded
<1>10. \A p, q \in 1 .. Len(listing') : listing'[p] = listing'[q] => p = q
  BY <1>4
<1> QED BY <1>1, <1>5, <1>7, <1>8, <1>9, <1>10 DEF ReadInv

LEMMA ReadStarts == ReadInit => ReadInv
<1> SUFFICES ASSUME ReadInit
             PROVE  ReadInv
  OBVIOUS
<1>1. PICK S \in SUBSET Item : listing \in SetToSeqs(S)
  BY DEF ReadInit
<1>2. IsFiniteSet(S) /\ Cardinality(S) \in Nat
  BY FewItems
<1>3. /\ listing \in [1 .. Cardinality(S) -> S]
      /\ \A p, q \in 1 .. Cardinality(S) : listing[p] = listing[q] => p = q
  BY <1>1 DEF SetToSeqs, IsInjective
<1>4. listing \in Seq(S) /\ Len(listing) = Cardinality(S)
  BY <1>2, <1>3
<1>5. listing \in Seq(Item) /\ ToSet(listing) \subseteq Item
  <2>1. \A m \in 1 .. Len(listing) : listing[m] \in Item
    BY <1>3, <1>4
  <2>2. listing \in Seq(Item)
    BY <1>2, <1>3, <1>4, <2>1
  <2> QED BY <2>1, <2>2, Elements
<1>6. /\ pageNumber = 1 /\ items = <<>> /\ reportedTotal = {} /\ verdict = "reading"
      /\ lasting = ToSet(listing) /\ changes = 0 /\ removals = 0
      /\ reports \in BOOLEAN /\ served \in 1 .. PageSize /\ (reports \/ served = PageSize)
  BY DEF ReadInit
<1>7. items \in Seq(Item) /\ Len(items) = 0
  BY <1>6
<1>8. ReadTypeOK
  BY <1>5, <1>6, <1>7, BoundsAssumption DEF ReadTypeOK
<1>9. Missed(Len(items)) = {}
  BY <1>4, <1>7 DEF Missed
<1>10. Cardinality(Missed(Len(items))) <= removals
  BY <1>6, <1>9, FS_EmptySet
<1>11. Len(items) = (pageNumber - 1) * served /\ pageNumber <= MaxPages
  BY <1>6, <1>7, BoundsAssumption
<1> QED BY <1>3, <1>4, <1>6, <1>8, <1>10, <1>11 DEF ReadInv, LossIsBounded

LEMMA ReadInvKeeps == ReadInv /\ [ReadNext]_readVars => ReadInv'
<1> SUFFICES ASSUME ReadInv, [ReadNext]_readVars
             PROVE  ReadInv'
  OBVIOUS
<1>1. CASE ReadPage
  BY <1>1, PageStep
<1>2. CASE PageFails
  BY <1>2 DEF PageFails, ReadInv, ReadTypeOK, LossIsBounded, Missed, server, meanwhile
<1>3. CASE \E i \in Item, n \in 1 .. Len(listing) + 1 : Appear(i, n)
  BY <1>3, AppearStep
<1>4. CASE \E n \in 1 .. Len(listing) : Disappear(n)
  BY <1>4, DisappearStep
<1>5. CASE UNCHANGED readVars
  BY <1>5 DEF readVars, server, loop, meanwhile, ReadInv, ReadTypeOK, LossIsBounded, Missed
<1> QED BY <1>1, <1>2, <1>3, <1>4, <1>5 DEF ReadNext, Read

LEMMA ReadInvariance == ReadSpec => []ReadInv
BY ReadStarts, ReadInvKeeps, PTL DEF ReadSpec

\* The state of a read is what the declarations say; in particular a listing
\* stays a sequence of items under any insertions and removals.
THEOREM ReadTypeCorrect == ReadSpec => []ReadTypeOK
<1>1. ReadInv => ReadTypeOK
  BY DEF ReadInv
<1> QED BY <1>1, ReadInvariance, PTL

\* A drained read of `paginate` lacks at most one lasting item for each item
\* removed meanwhile, whatever the page sizes, the order of the listing and
\* the moments of the changes.
THEOREM LossBounded == ReadSpec => []LossIsBounded
<1>1. ReadInv => LossIsBounded
  BY DEF ReadInv
<1> QED BY <1>1, ReadInvariance, PTL

-----------------------------------------------------------------------------
(* Replacement. *)

(* Where the outgoing resource may be taken for the new one: the provider  *)
(* has no guard, or the plan pinned a name the guard does not see.         *)
Exposed == kind.policy = "unguarded" \/ pinned

Working == phase \in {"observe", "verify"}

PhaseInv ==
    /\ phase = "settled" => output # NoId /\ outgoing = NoId
    /\ Working => output = NoId
    /\ phase \in {"retire", "retiring"} => outgoing # NoId
    /\ phase = "verify" => target \in Id
    /\ outgoing # NoId => inst[outgoing].status # "unused"
    /\ output # NoId => inst[output].status # "unused"

(* Only the outgoing resource is ever being deleted. *)
DeletingInv == \A i \in Id : inst[i].status = "deleting" => i = outgoing

Other(i) == Up(i) /\ i # outgoing

(* Every other resource that exists belongs to the current generation. *)
CurrentInv ==
    \A i \in Id : Other(i) =>
        /\ inst[i].setting = props.setting
        /\ output # NoId => i = output
        /\ output = NoId =>
              Working /\ inst[i].name = PhysicalName(gen, props)

Sole == \A i, j \in Id : Other(i) /\ Other(j) => i = j

OutputInv ==
    output # NoId /\ ~Exposed => output # outgoing /\ inst[output].status = "live"

TargetInv ==
    phase = "verify" => inst[target].name = PhysicalName(gen, props)

(* The outgoing resource bears the name of the new generation. *)
Clash ==
    /\ outgoing # NoId
    /\ Up(outgoing)
    /\ inst[outgoing].name = PhysicalName(gen, props)

(* It is then the only resource there is, and a guard was not there or was *)
(* passed.                                                                 *)
ClashInv ==
    Clash => /\ \A i \in Id : ~Other(i)
             /\ Working => Exposed

IInv ==
    /\ ReplaceTypeOK
    /\ PhaseInv
    /\ DeletingInv
    /\ CurrentInv
    /\ Sole
    /\ OutputInv
    /\ TargetInv
    /\ ClashInv

-----------------------------------------------------------------------------
LEMMA NamesTyped ==
    /\ \A g \in Generation, p \in Props : PhysicalName(g, p) \in Names
    /\ \A p \in Props : p.name # NoName => p.name \in Explicit
    /\ Explicit \subseteq Names
    /\ NoName \notin Explicit
BY DEF PhysicalName, Names, Props, Explicit

LEMMA ReplaceInitTyped == ReplaceInit => ReplaceTypeOK
<1> SUFFICES ASSUME ReplaceInit PROVE ReplaceTypeOK
  OBVIOUS
<1>1. PICK s \in Setting :
        inst = [i \in Id |-> [name |-> NoName, setting |-> s, status |-> "unused"]]
  BY DEF ReplaceInit
<1>2. [name |-> NoName, setting |-> s, status |-> "unused"] \in Instance
  BY DEF Instance, InstanceStatus
<1>3. inst \in [Id -> Instance]
  BY <1>1, <1>2
<1>4. gen \in Generation /\ phase \in Phase
  BY GenerationAssumption DEF ReplaceInit, Generation, Phase
<1>5. /\ kind \in Kind
      /\ props \in Props
      /\ props.name \in kind.names
      /\ output = NoId /\ outgoing = NoId /\ target = NoId
      /\ pinned = FALSE
  BY DEF ReplaceInit
<1> QED BY <1>3, <1>4, <1>5 DEF ReplaceTypeOK

-----------------------------------------------------------------------------
LEMMA PlanKeepsInv ==
    ASSUME IInv, UNCHANGED kind, NEW p \in Props,
           p.name \in kind.names, PlanReplacement(p)
    PROVE  IInv'
<1> USE DEF PlanReplacement
<1>1. gen \in Generation /\ gen + 1 \in Generation
  BY GenerationAssumption DEF IInv, ReplaceTypeOK, Generation
<1>2. output \in Id /\ outgoing = NoId
  BY DEF IInv, ReplaceTypeOK, PhaseInv
<1>3. ReplaceTypeOK'
  BY <1>1, <1>2 DEF IInv, ReplaceTypeOK, Phase, Pins
<1>4. PhaseInv'
  BY <1>2, IdAssumption DEF IInv, PhaseInv, Working
<1>5. DeletingInv'
  BY <1>2, IdAssumption DEF IInv, DeletingInv
<1>6. \A i \in Id : ~Other(i)'
  BY <1>2, IdAssumption DEF IInv, CurrentInv, Other, Up
<1>7. CurrentInv' /\ Sole'
  BY <1>6 DEF CurrentInv, Sole
<1>8. OutputInv' /\ TargetInv'
  BY DEF OutputInv, TargetInv
<1>9. ClashInv'
  <2>1. SUFFICES ASSUME Clash', Working'
                 PROVE  Exposed'
    BY <1>6 DEF ClashInv
  <2>2. Up(output) /\ inst[output].name = PhysicalName(gen + 1, p)
    BY <2>1 DEF Clash, Up, PhysicalName
  <2>3. inst[output].status = "live"
    BY <1>2, <2>2, IdAssumption DEF IInv, DeletingInv, Up
  <2>4. ~DeleteFirst(p)
    BY <2>1 DEF Working
  <2>5. CASE KeepsName(p)
    <3>1. kind.policy \notin {"guarded", "deleteFirst", "sameNameFirst"}
      BY <2>4, <2>5 DEF Refused, DeleteFirst
    <3>2. kind.policy \in {"guarded", "unguarded", "deleteFirst", "sameNameFirst"}
      BY KindAssumption DEF IInv, ReplaceTypeOK
    <3> QED BY <3>1, <3>2 DEF Exposed
  <2>6. CASE ~KeepsName(p)
    BY <2>2, <2>3, <2>4, <2>6 DEF Pins, Exposed
  <2> QED BY <2>5, <2>6
<1> QED BY <1>3, <1>4, <1>5, <1>7, <1>8, <1>9 DEF IInv

LEMMA RenameKeepsInv ==
    ASSUME IInv, UNCHANGED kind, NEW p \in Props,
           p.name \in kind.names, Rename(p)
    PROVE  IInv'
<1> USE DEF Rename
<1>1. output \in Id /\ outgoing = NoId /\ p.setting = props.setting
  BY DEF IInv, ReplaceTypeOK, PhaseInv, Replaces
<1>2. \A i \in Id : /\ inst'[i].status = inst[i].status
                    /\ inst'[i].setting = inst[i].setting
  BY <1>1, NamesTyped DEF IInv, ReplaceTypeOK, Instance
<1>3. ReplaceTypeOK'
  <2>1. inst' \in [Id -> Instance]
    BY <1>1, NamesTyped DEF IInv, ReplaceTypeOK, Instance
  <2> QED BY <2>1 DEF IInv, ReplaceTypeOK
<1>4. PhaseInv'
  BY <1>1, <1>2, IdAssumption DEF IInv, PhaseInv, Working
<1>5. TargetInv' /\ ClashInv'
  BY <1>1 DEF TargetInv, ClashInv, Clash
<1>6. DeletingInv' /\ Sole'
  BY <1>2 DEF IInv, DeletingInv, Sole, Other, Up
<1>7. CurrentInv'
  BY <1>1, <1>2, IdAssumption DEF IInv, CurrentInv, Other, Up
<1>8. OutputInv'
  BY <1>1, <1>2, IdAssumption DEF OutputInv
<1> QED BY <1>3, <1>4, <1>5, <1>6, <1>7, <1>8 DEF IInv

LEMMA AdoptKeepsInv ==
    ASSUME IInv, UNCHANGED kind, NEW i \in Id, Adopt(i)
    PROVE  IInv'
<1> USE DEF Adopt
<1>1. ReplaceTypeOK' /\ PhaseInv' /\ TargetInv'
  BY DEF IInv, ReplaceTypeOK, PhaseInv, TargetInv, Working, Phase, Found, PhysicalName
<1>2. DeletingInv' /\ Sole'
  BY DEF IInv, DeletingInv, Sole, Other, Up
<1>3. OutputInv'
  BY DEF IInv, PhaseInv, OutputInv, Working
<1>4. ClashInv'
  BY DEF IInv, ClashInv, Clash, Other, Up, Working, Exposed, PhysicalName
<1>5. CurrentInv'
  BY DEF IInv, CurrentInv, Other, Up, Working, PhysicalName
<1> QED BY <1>1, <1>2, <1>3, <1>4, <1>5 DEF IInv

LEMMA CreateKeepsInv ==
    ASSUME IInv, UNCHANGED kind, NEW i \in Id, Create(i)
    PROVE  IInv'
<1> USE DEF Create
<1> DEFINE bought == [name    |-> PhysicalName(gen, props),
                      setting |-> props.setting,
                      status  |-> "live"]
<1>1. bought \in Instance
  BY NamesTyped DEF IInv, ReplaceTypeOK, Instance, InstanceStatus, Props
<1>2. /\ inst'[i] = bought
      /\ \A j \in Id \ {i} : inst'[j] = inst[j]
  BY DEF IInv, ReplaceTypeOK
<1>3. output = NoId /\ outgoing # i
  BY IdAssumption DEF IInv, PhaseInv, Working
<1>4. \A j \in Id : ~Other(j)
  BY <1>3 DEF IInv, CurrentInv, Found, Other
<1>5. \A j \in Id : Other(j)' => j = i
  BY <1>2, <1>4 DEF Other, Up
<1>6. ReplaceTypeOK'
  BY <1>1 DEF IInv, ReplaceTypeOK, Phase
<1>7. PhaseInv' /\ OutputInv'
  BY <1>2, <1>3 DEF IInv, ReplaceTypeOK, PhaseInv, OutputInv, Working
<1>8. DeletingInv'
  BY <1>2 DEF IInv, DeletingInv
<1>9. Sole' /\ TargetInv'
  BY <1>2, <1>5 DEF Sole, TargetInv, PhysicalName
<1>10. CurrentInv'
  BY <1>2, <1>3, <1>5 DEF CurrentInv, Working, PhysicalName
<1>11. ~Clash'
  <2>1. outgoing # NoId => outgoing \in Id \ {i}
    BY <1>3 DEF IInv, ReplaceTypeOK
  <2> QED BY <1>2, <2>1 DEF Clash, Found, Up, PhysicalName
<1> QED BY <1>6, <1>7, <1>8, <1>9, <1>10, <1>11 DEF IInv, ClashInv

LEMMA VerifyKeepsInv ==
    ASSUME IInv, UNCHANGED kind, Verify
    PROVE  IInv'
<1> USE DEF Verify
<1>1. /\ target \in Id
      /\ Up(target)
      /\ inst[target].name = PhysicalName(gen, props)
      /\ output = NoId
      /\ Working
  BY DEF IInv, PhaseInv, TargetInv, Up, Working
<1>2. target = outgoing => Exposed /\ \A i \in Id : ~Other(i)
  BY <1>1, IdAssumption DEF IInv, ClashInv, Clash
<1>3. \A i \in Id : Other(i) => i = target
  BY <1>1, <1>2 DEF IInv, Sole, Other
<1>4. ReplaceTypeOK'
  BY <1>1 DEF IInv, ReplaceTypeOK, Phase
<1>5. PhaseInv'
  BY <1>1, IdAssumption DEF IInv, PhaseInv, Working
<1>6. DeletingInv' /\ Sole' /\ TargetInv'
  BY DEF IInv, DeletingInv, Sole, Other, Up, TargetInv
<1>7. ClashInv'
  BY DEF IInv, ClashInv, Clash, Other, Up, Working, PhysicalName
<1>8. CurrentInv'
  BY <1>1, <1>3, IdAssumption DEF IInv, CurrentInv, Other, Up
<1>9. OutputInv'
  BY <1>1, <1>2 DEF OutputInv, Exposed
<1> QED BY <1>4, <1>5, <1>6, <1>7, <1>8, <1>9 DEF IInv

LEMMA RequestDeleteKeepsInv ==
    ASSUME IInv, UNCHANGED kind, RequestDelete
    PROVE  IInv'
<1> USE DEF RequestDelete
<1>1. outgoing \in Id
  BY DEF IInv, ReplaceTypeOK, PhaseInv
<1>2. \A i \in Id : /\ inst'[i].name = inst[i].name
                    /\ inst'[i].setting = inst[i].setting
                    /\ Up(i)' <=> Up(i)
                    /\ i # outgoing => inst'[i] = inst[i]
                    /\ inst'[i].status = "unused" => inst[i].status = "unused"
  BY <1>1 DEF IInv, ReplaceTypeOK, Instance, Up
<1>3. inst' \in [Id -> Instance]
  BY <1>1 DEF IInv, ReplaceTypeOK, Instance, InstanceStatus
<1>4. ReplaceTypeOK'
  BY <1>3 DEF IInv, ReplaceTypeOK, Phase
<1>5. PhaseInv'
  BY <1>1, <1>2 DEF IInv, ReplaceTypeOK, PhaseInv, Working
<1>6. DeletingInv' /\ Sole'
  BY <1>2 DEF IInv, DeletingInv, Sole, Other
<1>7. CurrentInv'
  BY <1>2 DEF IInv, CurrentInv, Other, Working, PhysicalName
<1>8. OutputInv' /\ TargetInv'
  BY <1>2, IdAssumption DEF IInv, ReplaceTypeOK, OutputInv, TargetInv, Exposed
<1>9. ClashInv'
  BY <1>1, <1>2 DEF IInv, ClashInv, Clash, Other, Working, PhysicalName
<1> QED BY <1>4, <1>5, <1>6, <1>7, <1>8, <1>9 DEF IInv

LEMMA RetiredKeepsInv ==
    ASSUME IInv, UNCHANGED kind, Retired
    PROVE  IInv'
<1> USE DEF Retired
<1>1. outgoing \in Id /\ ~Up(outgoing)
  BY DEF IInv, ReplaceTypeOK, PhaseInv
<1>2. \A i \in Id : Other(i)' => Other(i)
  BY <1>1 DEF Other, Up
<1>3. ReplaceTypeOK' /\ PhaseInv'
  BY IdAssumption DEF IInv, ReplaceTypeOK, PhaseInv, Phase, Working
<1>4. DeletingInv'
  BY <1>1 DEF IInv, DeletingInv, Up
<1>5. CurrentInv' /\ Sole'
  BY <1>2 DEF IInv, CurrentInv, Sole, Working, PhysicalName
<1>6. OutputInv' /\ TargetInv' /\ ClashInv'
  BY DEF IInv, OutputInv, TargetInv, ClashInv, Clash, Exposed
<1> QED BY <1>3, <1>4, <1>5, <1>6 DEF IInv

LEMMA InterruptKeepsInv ==
    ASSUME IInv, UNCHANGED kind, Interrupt
    PROVE  IInv'
<1> USE DEF Interrupt
<1>1. ReplaceTypeOK' /\ PhaseInv' /\ TargetInv'
  BY DEF IInv, ReplaceTypeOK, PhaseInv, TargetInv, Phase, Working
<1>2. DeletingInv' /\ CurrentInv' /\ Sole' /\ OutputInv'
  BY DEF IInv, DeletingInv, CurrentInv, Sole, OutputInv, Other, Up, Working,
         PhysicalName, Exposed
<1>3. ClashInv'
  BY DEF IInv, ClashInv, Clash, Other, Up, Working, Exposed, PhysicalName
<1> QED BY <1>1, <1>2, <1>3 DEF IInv

LEMMA RemovedKeepsInv ==
    ASSUME IInv, UNCHANGED kind, NEW i \in Id, Removed(i)
    PROVE  IInv'
<1> USE DEF Removed
<1>1. i = outgoing
  BY DEF IInv, DeletingInv
<1>2. \A j \in Id : /\ inst'[j].name = inst[j].name
                    /\ inst'[j].setting = inst[j].setting
                    /\ j # outgoing => inst'[j] = inst[j]
                    /\ Up(j)' => Up(j)
                    /\ inst'[j].status = "unused" => inst[j].status = "unused"
  BY <1>1 DEF IInv, ReplaceTypeOK, Instance, Up
<1>3. inst' \in [Id -> Instance] /\ inst'[i].status = "gone"
  BY DEF IInv, ReplaceTypeOK, Instance, InstanceStatus
<1>4. ReplaceTypeOK'
  BY <1>3 DEF IInv, ReplaceTypeOK
<1>5. PhaseInv'
  BY <1>2 DEF IInv, ReplaceTypeOK, PhaseInv, Working
<1>6. DeletingInv' /\ Sole'
  BY <1>2, <1>3 DEF IInv, DeletingInv, Sole, Other
<1>7. CurrentInv'
  BY <1>2 DEF IInv, CurrentInv, Other, Working, PhysicalName
<1>8. OutputInv' /\ TargetInv'
  BY <1>1, <1>2, IdAssumption
  DEF IInv, ReplaceTypeOK, PhaseInv, OutputInv, TargetInv, Exposed, PhysicalName
<1>9. ~Clash'
  BY <1>1, <1>3 DEF Clash, Up
<1> QED BY <1>4, <1>5, <1>6, <1>7, <1>8, <1>9 DEF IInv, ClashInv

-----------------------------------------------------------------------------
LEMMA InitEstablishesInv == ReplaceInit => IInv
<1> SUFFICES ASSUME ReplaceInit PROVE IInv
  OBVIOUS
<1>1. \A i \in Id : ~Up(i)
  BY DEF ReplaceInit, Up
<1>2. ReplaceTypeOK
  BY ReplaceInitTyped
<1>3. PhaseInv /\ OutputInv /\ TargetInv /\ ClashInv
  BY DEF ReplaceInit, PhaseInv, OutputInv, TargetInv, ClashInv, Clash, Working
<1>4. DeletingInv /\ CurrentInv /\ Sole
  BY <1>1 DEF DeletingInv, CurrentInv, Sole, Other, Up
<1> QED BY <1>2, <1>3, <1>4 DEF IInv

LEMMA NextKeepsInv == IInv /\ [ReplaceNext]_replaceVars => IInv'
<1> SUFFICES ASSUME IInv, [ReplaceNext]_replaceVars PROVE IInv'
  OBVIOUS
<1> UNCHANGED kind
  BY DEF ReplaceNext, replaceVars
<1>1. CASE ReplacePlan
  BY <1>1, PlanKeepsInv, RenameKeepsInv DEF ReplacePlan
<1>2. CASE Reconcile
  BY <1>2, AdoptKeepsInv, CreateKeepsInv, VerifyKeepsInv DEF Reconcile
<1>3. CASE Retire
  BY <1>3, RequestDeleteKeepsInv, RetiredKeepsInv DEF Retire
<1>4. CASE Interrupt
  BY <1>4, InterruptKeepsInv
<1>5. CASE \E i \in Id : Removed(i)
  BY <1>5, RemovedKeepsInv
<1>6. CASE UNCHANGED replaceVars
  BY <1>6 DEF replaceVars, IInv, ReplaceTypeOK, PhaseInv, DeletingInv, CurrentInv, Sole,
     OutputInv, TargetInv, ClashInv, Clash, Other, Up, Working, Exposed, PhysicalName
<1> QED BY <1>1, <1>2, <1>3, <1>4, <1>5, <1>6 DEF ReplaceNext, ReplaceStep

LEMMA ReplaceInvariance == ReplaceSpec => []IInv
BY InitEstablishesInv, NextKeepsInv, PTL DEF ReplaceSpec

(* Whatever the number of generations, names and settings, every kind of   *)
(* provider that has the guard or deletes first leaves, when it settles, a *)
(* live resource with the settings asked for (the diffs, `replacement` and *)
(* the reconciles).                                                        *)
THEOREM SafeReplacement ==
    ASSUME \A k \in Kind : k.policy # "unguarded"
    PROVE  ReplaceSpec => []ReplacementSurvives
<1>1. IInv => ReplacementSurvives
  <2>1. IInv => kind \in Kind
    BY DEF IInv, ReplaceTypeOK
  <2> QED BY <2>1, IdAssumption DEF IInv, PhaseInv, OutputInv, CurrentInv, Other, Up,
             Exposed, ReplaceTypeOK, ReplacementSurvives
<1> QED BY <1>1, ReplaceInvariance, PTL

(* Whatever the provider, the names and the settings, an interrupted       *)
(* replacement leaves no second resource.                                  *)
THEOREM NoOrphanedGeneration == ReplaceSpec => []NoGenerationLeftBehind
<1>1. IInv => NoGenerationLeftBehind
  BY IdAssumption DEF IInv, PhaseInv, CurrentInv, Other, ReplaceTypeOK,
     NoGenerationLeftBehind
<1> QED BY <1>1, ReplaceInvariance, PTL

-----------------------------------------------------------------------------
(* Onboarding and Allowlist: rds-access. *)

\* A process has run no statement before it comes to them, and comes back to
\* them, as to the routes, only while some are left.
Orderly(p) ==
    /\ p.pc \notin {"grant", "granted"} => p.ran = {}
    /\ p.pc = "grant" => p.ran # Statements
    /\ p.pc = "route" => p.todo # {}

OrderInv == \A o \in Op : Orderly(op[o])

\* From the reading of the tables until the routes are made: a table that is to
\* get a route still has no way to the host, or has a host route (with which
\* the request is refused), or it was changed since.
Planned == {"groups", "verify", "peer", "activated", "relist", "route"}

RouteInv ==
    \A o \in Op, t \in Table :
       op[o].pc \in Planned /\ t \in op[o].todo /\ t \notin stale[o]
         => Best(routes[t]) = None \/ routes[t].host # None

\* What a step of an operator does to the processes, but for the reading of the
\* tables: it moves on and plans nothing anew.
Moves(o) ==
    /\ op' \in [Op -> Process]
    /\ \A q \in Op : q # o => op'[q] = op[q]
    /\ Orderly(op'[o])
    /\ op'[o].pc \in Planned => op[o].pc \in Planned /\ op'[o].todo \subseteq op[o].todo

-----------------------------------------------------------------------------
LEMMA HoldMoves ==
    ASSUME TypeOK, NEW o \in Op, NEW r \in Process, Hold(o, r), Orderly(r),
           r.pc \in Planned => op[o].pc \in Planned /\ r.todo \subseteq op[o].todo
    PROVE  Moves(o)
<1>1. op' = [op EXCEPT ![o] = r]
  BY DEF Hold
<1>2. op \in [Op -> Process]
  BY DEF TypeOK
<1> QED BY <1>1, <1>2 DEF Moves

LEMMA GotoMoves ==
    ASSUME TypeOK, OrderInv, NEW o \in Op, NEW step \in Step, Goto(o, step),
           op[o].pc \notin {"grant", "granted"}, step # "route",
           step \in Planned => op[o].pc \in Planned
    PROVE  Moves(o)
<1> DEFINE r == [op[o] EXCEPT !.pc = step]
<1>1. op[o] \in Process
  BY DEF TypeOK
<1>2. r \in Process /\ r.pc = step /\ r.todo = op[o].todo /\ r.ran = op[o].ran
  BY <1>1 DEF Process
<1>3. op[o].ran = {}
  BY DEF OrderInv, Orderly
<1>4. Orderly(r)
  BY <1>2, <1>3 DEF Orderly, Statements
<1>5. Hold(o, r)
  BY DEF Goto, Hold
<1> HIDE DEF r
<1> QED BY <1>2, <1>4, <1>5, HoldMoves

\* An end of a run.
LEMMA RestMoves ==
    ASSUME TypeOK, NEW o \in Op, NEW step \in Rest \cup {"file"},
           Hold(o, [Blank EXCEPT !.pc = step])
    PROVE  Moves(o)
<1> DEFINE r == [Blank EXCEPT !.pc = step]
<1>1. r \in Process
  BY DEF Blank, Process, Step, Rest, Address
<1>2. r.pc = step /\ r.ran = {}
  BY DEF Blank
<1>3. Orderly(r) /\ r.pc \notin Planned
  BY <1>2 DEF Orderly, Rest, Planned
<1> HIDE DEF r
<1>4. Hold(o, r)
  BY DEF r
<1> QED BY <1>1, <1>3, <1>4, HoldMoves

LEMMA FailMoves ==
    ASSUME TypeOK, NEW o \in Op, Fails(o)
    PROVE  Moves(o)
BY RestMoves DEF Fails, Rest

\* A process that goes on with some of its fields blank or set.
LEMMA FieldsMove ==
    ASSUME TypeOK, OrderInv, NEW o \in Op, NEW r \in Process, Hold(o, r),
           op[o].pc \notin {"grant", "granted"}, r.ran = op[o].ran,
           r.pc = "route" => r.todo # {},
           r.pc \in Planned => op[o].pc \in Planned /\ r.todo \subseteq op[o].todo
    PROVE  Moves(o)
<1>1. op[o].ran = {}
  BY DEF OrderInv, Orderly
<1>2. Orderly(r)
  BY <1>1 DEF Orderly, Statements
<1> QED BY <1>2, HoldMoves

-----------------------------------------------------------------------------
(* Every action moves its process. *)

LEMMA SecretMoves ==
    ASSUME TypeOK, OrderInv, NEW o \in Op, SecretStep(o)
    PROVE  Moves(o)
<1>0. op[o] \in Process
  BY DEF TypeOK
<1>1. ASSUME NEW pw \in Op \cup {None}, op[o].pc \in {"file", "write", "reread"},
             Hold(o, [op[o] EXCEPT !.pc = "instance", !.pw = pw])
      PROVE  Moves(o)
  <2> DEFINE r == [op[o] EXCEPT !.pc = "instance", !.pw = pw]
  <2>1. r \in Process /\ r.pc = "instance" /\ r.ran = op[o].ran
    BY <1>0 DEF Process, Step
  <2>2. Hold(o, r) /\ "instance" \notin Planned
    BY <1>1 DEF Planned
  <2> HIDE DEF r
  <2> QED BY <1>1, <2>1, <2>2, FieldsMove
<1>2. ASSUME NEW step \in {"open", "write", "reread"}, Goto(o, step),
             op[o].pc \in {"file", "open"}
      PROVE  Moves(o)
  BY <1>2, GotoMoves DEF Step, Planned
<1>3. CASE EnsurePasswordFile(o)
  <2>1. CASE file \in {None, "empty"}
    BY <1>2, <1>3, <2>1 DEF EnsurePasswordFile, At
  <2>2. CASE file \notin {None, "empty"}
    BY <1>1, <1>3, <2>2 DEF EnsurePasswordFile, At, TypeOK
  <2> QED BY <2>1, <2>2
<1>4. CASE OpenPasswordFile(o)
  BY <1>2, <1>4 DEF OpenPasswordFile, At
<1>5. CASE WritePasswordFile(o)
  BY <1>1, <1>5 DEF WritePasswordFile, At
<1>6. CASE ReadAfterRace(o)
  <2>1. CASE file = "empty"
    BY <1>6, <2>1, FailMoves DEF ReadAfterRace
  <2>2. CASE file # "empty"
    BY <1>1, <1>6, <2>2 DEF ReadAfterRace, At, TypeOK
  <2> QED BY <2>1, <2>2
<1> QED BY <1>3, <1>4, <1>5, <1>6 DEF SecretStep

\* The readings but that of the tables.
LEMMA DiscoverMoves ==
    ASSUME TypeOK, OrderInv, NEW o \in Op,
           \/ ReadInstance(o) \/ ReadPeerings(o) \/ ReadGroups(o) \/ VerifyBefore(o)
    PROVE  Moves(o)
<1>0. op[o] \in Process
  BY DEF TypeOK
<1>1. CASE ReadInstance(o)
  <2> DEFINE r == [op[o] EXCEPT !.pc = "peerings", !.exists = account # None, !.ip = ip]
  <2>1. r \in Process /\ r.pc = "peerings" /\ r.ran = op[o].ran
    BY <1>0 DEF Process, Step, TypeOK
  <2>2. Hold(o, r) /\ "peerings" \notin Planned /\ op[o].pc \notin {"grant", "granted"}
    BY <1>1 DEF ReadInstance, At, Planned
  <2> HIDE DEF r
  <2> QED BY <2>1, <2>2, FieldsMove
<1>2. CASE ReadPeerings(o)
  <2> DEFINE plan == PlanPeering(o)
             r == [op[o] EXCEPT !.pc = "routes", !.act = plan.act, !.hop = plan.hop]
  <2>1. /\ plan.act \in {"create", "accept", "reuse", "refuse"}
        /\ plan.hop \in Peer \cup {None}
    <3>1. Live # {} => (CHOOSE q \in Live : TRUE) \in Peer
      BY DEF Live
    <3> QED BY <3>1 DEF PlanPeering
  <2>2. Hold(o, r) /\ "routes" \notin Planned /\ op[o].pc \notin {"grant", "granted"}
    BY <1>2 DEF ReadPeerings, At, Planned
  <2> HIDE DEF plan
  <2>3. r \in Process /\ r.pc = "routes" /\ r.ran = op[o].ran
    BY <1>0, <2>1 DEF Process, Step
  <2> HIDE DEF r
  <2> QED BY <2>2, <2>3, FieldsMove
<1>3. CASE ReadGroups(o)
  <2> DEFINE step == IF op[o].exists THEN "verify" ELSE "peer"
             r == [op[o] EXCEPT !.pc = step, !.cover = group # op[o].ip]
  <2>1. step \in Step
    BY DEF Step
  <2>2. Hold(o, r) /\ op[o].pc = "groups"
    BY <1>3 DEF ReadGroups, At
  <2> HIDE DEF step
  <2>3. r \in Process /\ r.pc = step /\ r.ran = op[o].ran /\ r.todo = op[o].todo
    BY <1>0, <2>1 DEF Process
  <2>4. step # "route"
    BY DEF step
  <2> HIDE DEF r
  <2> QED BY <2>2, <2>3, <2>4, FieldsMove DEF Planned
<1>4. CASE VerifyBefore(o)
  <2>1. CASE Goto(o, "peer")
    BY <1>4, <2>1, GotoMoves DEF VerifyBefore, At, Step, Planned
  <2>2. CASE Hold(o, [op[o] EXCEPT !.pc = "peer", !.ok = GrantsHold(o)])
    <3> DEFINE r == [op[o] EXCEPT !.pc = "peer", !.ok = GrantsHold(o)]
    <3>1. GrantsHold(o) \in BOOLEAN
      BY DEF GrantsHold
    <3>2. r \in Process /\ r.pc = "peer" /\ r.ran = op[o].ran /\ r.todo = op[o].todo
      BY <1>0, <3>1 DEF Process, Step
    <3>3. Hold(o, r) /\ op[o].pc = "verify"
      BY <1>4, <2>2 DEF VerifyBefore, At
    <3> HIDE DEF r
    <3> QED BY <3>2, <3>3, FieldsMove DEF Planned
  <2> QED BY <1>4, <2>1, <2>2 DEF VerifyBefore
<1> QED BY <1>1, <1>2, <1>3, <1>4

LEMMA ConnectedMoves ==
    ASSUME TypeOK, OrderInv, NEW o \in Op, Hold(o, ConnectedThen(o)),
           op[o].pc \notin {"grant", "granted"}
    PROVE  Moves(o)
<1> DEFINE r == ConnectedThen(o)
<1>0. op[o] \in Process
  BY DEF TypeOK
<1>1. r \in Process /\ r.pc = "group" /\ r.ran = op[o].ran
  <2>1. Blank.act = "reuse"
    BY DEF Blank
  <2> QED BY <1>0, <2>1 DEF ConnectedThen, Process, Step
<1>2. "group" \notin Planned
  BY DEF Planned
<1> HIDE DEF r
<1>3. Hold(o, r)
  BY DEF r
<1> QED BY <1>1, <1>2, <1>3, FieldsMove

LEMMA AllowedMoves ==
    ASSUME TypeOK, OrderInv, NEW o \in Op, Hold(o, AllowedThen(o)),
           op[o].pc \notin {"grant", "granted"}
    PROVE  Moves(o)
<1> DEFINE r == AllowedThen(o)
<1>0. op[o] \in Process
  BY DEF TypeOK
<1>1. r \in Process /\ r.pc = "account" /\ r.ran = op[o].ran
  <2>1. Blank.ip = 1
    BY DEF Blank
  <2> QED BY <1>0, <2>1 DEF AllowedThen, Process, Step, Address
<1>2. "account" \notin Planned
  BY DEF Planned
<1> HIDE DEF r
<1>3. Hold(o, r)
  BY DEF r
<1> QED BY <1>1, <1>2, <1>3, FieldsMove

LEMMA ConnectivityMoves ==
    ASSUME TypeOK, OrderInv, NEW o \in Op, ApplyConnectivity(o)
    PROVE  Moves(o)
<1>0. op[o] \in Process
  BY DEF TypeOK
<1>1. ASSUME NEW step \in {"activated", "relist"}, Goto(o, step),
             op[o].pc \in {"peer", "activated"}
      PROVE  Moves(o)
  BY <1>1, GotoMoves DEF Step, Planned
<1>2. ASSUME NEW step \in {"activated", "route"}, NEW p \in Peer \cup {None},
             Hold(o, [op[o] EXCEPT !.pc = step, !.hop = p]), op[o].pc \in {"peer", "relist"},
             step = "route" => op[o].todo # {}
      PROVE  Moves(o)
  <2> DEFINE r == [op[o] EXCEPT !.pc = step, !.hop = p]
  <2>1. r \in Process /\ r.pc = step /\ r.ran = op[o].ran /\ r.todo = op[o].todo
    <3>1. step \in Step
      BY DEF Step
    <3> QED BY <1>0, <3>1 DEF Process
  <2>2. Hold(o, r)
    BY <1>2
  <2> HIDE DEF r
  <2> QED BY <1>2, <2>1, <2>2, FieldsMove DEF Planned
<1>3. CASE CreatePeering(o)
  <2> DEFINE unborn == { p \in Peer : peering[p] = "unborn" }
  <2>1. CASE unborn = {}
    BY <1>3, <2>1, FailMoves DEF CreatePeering
  <2>2. CASE unborn # {}
    <3>1. (CHOOSE q \in unborn : TRUE) \in Peer
      BY <2>2
    <3> QED BY <1>2, <1>3, <2>2, <3>1 DEF CreatePeering, At
  <2> QED BY <2>1, <2>2
<1>4. CASE AcceptPeering(o)
  BY <1>1, <1>4, FailMoves DEF AcceptPeering, At
<1>5. CASE ReusePeering(o)
  BY <1>1, <1>5 DEF ReusePeering, At
<1>6. CASE PeeringActivated(o)
  BY <1>1, <1>6, FailMoves DEF PeeringActivated, At
<1>7. CASE ListAgain(o)
  <2>1. CASE Fails(o)
    BY <2>1, FailMoves
  <2>2. CASE Hold(o, ConnectedThen(o))
    BY <1>7, <2>2, ConnectedMoves DEF ListAgain, At
  <2>3. ASSUME NEW p \in Peer \cup {None}, Hold(o, [op[o] EXCEPT !.pc = "route", !.hop = p]),
               op[o].todo # {}
        PROVE  Moves(o)
    BY <1>2, <1>7, <2>3 DEF ListAgain, At
  <2>4. op[o].hop \in Peer \cup {None}
    BY <1>0 DEF Process
  <2> QED BY <1>7, <2>1, <2>2, <2>3, <2>4 DEF ListAgain
<1>8. CASE CreateRoute(o)
  <2> DEFINE t == IF "gateway" \in op[o].todo THEN "gateway" ELSE "database"
             rest == op[o].todo \ {t}
             step == IF rest = {} THEN "routed" ELSE "route"
             r == [op[o] EXCEPT !.pc = step, !.todo = rest]
  <2>1. CASE Fails(o)
    BY <2>1, FailMoves
  <2>2. CASE Hold(o, r)
    <3>1. step \in Step /\ rest \subseteq op[o].todo /\ (step = "route" => rest # {})
      BY DEF Step
    <3>2. op[o].pc = "route"
      BY <1>8 DEF CreateRoute, At
    <3> HIDE DEF step, rest
    <3>3. r \in Process /\ r.pc = step /\ r.ran = op[o].ran /\ r.todo = rest
      BY <1>0, <3>1 DEF Process
    <3> HIDE DEF r
    <3> QED BY <2>2, <3>1, <3>2, <3>3, FieldsMove DEF Planned
  <2> QED BY <1>8, <2>1, <2>2 DEF CreateRoute
<1>9. CASE RoutesSeen(o)
  BY <1>9, FailMoves, ConnectedMoves DEF RoutesSeen, At
<1> QED BY <1>3, <1>4, <1>5, <1>6, <1>7, <1>8, <1>9 DEF ApplyConnectivity

\* The statement that is run next is one of them.
LEMMA NextStatement ==
    ASSUME NEW ran \in SUBSET Statements, ran # Statements
    PROVE  (CHOOSE i \in Statements \ ran : \A j \in Statements \ ran : i <= j) \in Statements
<1>1. \E i \in Statements \ ran : \A j \in Statements \ ran : i <= j
  <2>1. CASE 1 \notin ran
    <3>1. 1 \in Statements \ ran /\ \A j \in Statements \ ran : 1 <= j
      BY <2>1 DEF Statements
    <3> QED BY <3>1
  <2>2. CASE 1 \in ran
    <3>1. 2 \notin ran
      <4> SUFFICES ASSUME 2 \in ran PROVE FALSE
        OBVIOUS
      <4>1. \A i : i \in ran <=> i \in Statements
        BY <2>2 DEF Statements
      <4> QED BY <4>1
    <3>2. \A j \in Statements \ ran : j = 2
      BY <2>2 DEF Statements
    <3>3. 2 \in Statements \ ran
      BY <3>1 DEF Statements
    <3> QED BY <3>2, <3>3
  <2> QED BY <2>1, <2>2
<1>2. (CHOOSE i \in Statements \ ran : \A j \in Statements \ ran : i <= j) \in Statements \ ran
  BY <1>1
<1> QED BY <1>2

LEMMA RestOfApplyMoves ==
    ASSUME TypeOK, OrderInv, NEW o \in Op, ApplyRest(o)
    PROVE  Moves(o)
<1>0. op[o] \in Process
  BY DEF TypeOK
<1>1. CASE SetWhitelistGroup(o)
  BY <1>1, GotoMoves, AllowedMoves DEF SetWhitelistGroup, At, Step, Planned
<1>2. CASE GroupSeen(o)
  BY <1>2, FailMoves, AllowedMoves DEF GroupSeen, At
<1>3. CASE CreateAccount(o)
  <2>1. CASE Fails(o)
    BY <2>1, FailMoves
  <2>2. CASE Hold(o, GrantThen(o))
    <3> DEFINE r == GrantThen(o)
    <3>1. r \in Process /\ r.pc = "grant" /\ r.ran = op[o].ran
      BY <1>0 DEF GrantThen, Process, Step
    <3>2. op[o].pc = "account"
      BY <1>3 DEF CreateAccount, At
    <3> HIDE DEF r
    <3>3. Hold(o, r)
      BY <2>2 DEF r
    <3> QED BY <3>1, <3>2, <3>3, FieldsMove DEF Planned
  <2> QED BY <1>3, <2>1, <2>2 DEF CreateAccount
<1>4. CASE RunStatements(o)
  <2> DEFINE next == CHOOSE i \in Statements \ op[o].ran : \A j \in Statements \ op[o].ran : i <= j
             ran == op[o].ran \cup {next}
             step == IF ran = Statements THEN "granted" ELSE "grant"
             r == [op[o] EXCEPT !.pc = step, !.ran = ran]
  <2>1. CASE Hold(o, [Blank EXCEPT !.pc = "done"])
    BY <2>1, RestMoves DEF Rest
  <2>2. CASE Fails(o)
    BY <2>2, FailMoves
  <2>3. CASE Hold(o, r)
    <3>1. op[o].pc = "grant"
      BY <1>4 DEF RunStatements, At
    <3>2. op[o].ran \in SUBSET Statements /\ op[o].ran # Statements
      BY <1>0, <3>1 DEF Process, OrderInv, Orderly
    <3>3. ran \in SUBSET Statements
      BY <3>2, NextStatement
    <3>4. step \in Step /\ step \notin Planned
      BY DEF Step, Planned
    <3>5. step \in {"grant", "granted"} /\ (step = "grant" => ran # Statements)
      OBVIOUS
    <3> HIDE DEF ran, step
    <3>6. r \in Process /\ r.pc = step /\ r.ran = ran
      BY <1>0, <3>3, <3>4 DEF Process
    <3> HIDE DEF r
    <3>7. Orderly(r)
      BY <3>5, <3>6 DEF Orderly
    <3> QED BY <2>3, <3>4, <3>6, <3>7, HoldMoves
  <2> QED BY <1>4, <2>1, <2>2, <2>3 DEF RunStatements
<1>5. CASE VerifyGrants(o)
  BY <1>5, RestMoves, FailMoves DEF VerifyGrants, Rest
<1> QED BY <1>1, <1>2, <1>3, <1>4, <1>5 DEF ApplyRest

LEMMA StartMoves ==
    ASSUME TypeOK, NEW o \in Op, Start(o) \/ Dies(o)
    PROVE  Moves(o)
BY RestMoves, FailMoves DEF Start, Dies

\* The reading of the tables.
LEMMA ReadRoutesType ==
    ASSUME TypeOK, OrderInv, NEW o \in Op, ReadRoutes(o)
    PROVE  /\ op' \in [Op -> Process]
           /\ \A q \in Op : q # o => op'[q] = op[q]
           /\ Orderly(op'[o])
           /\ op'[o].pc \in Planned =>
                op'[o].todo = { t \in Table : PlanRoute(routes[t], op[o].hop) = "create" }
<1> DEFINE missing == { t \in Table : PlanRoute(routes[t], op[o].hop) = "create" }
           r == [op[o] EXCEPT !.pc = "groups", !.todo = missing, !.added = missing]
<1>0. op[o] \in Process
  BY DEF TypeOK
<1>1. CASE Fails(o)
  <2>1. Moves(o)
    BY <1>1, FailMoves
  <2>2. op' = [op EXCEPT ![o] = [Blank EXCEPT !.pc = "failed"]]
    BY <1>1 DEF Fails, Hold
  <2>3. op'[o].pc = "failed"
    BY <2>2 DEF TypeOK, Blank
  <2> QED BY <2>1, <2>3 DEF Moves, Planned
<1>2. CASE Hold(o, r)
  <2>1. missing \in SUBSET Table
    OBVIOUS
  <2>2. op[o].ran = {}
    BY <1>0 DEF ReadRoutes, At, OrderInv, Orderly
  <2> HIDE DEF missing
  <2>3. r \in Process /\ r.pc = "groups" /\ r.ran = op[o].ran /\ r.todo = missing
    BY <1>0, <2>1 DEF Process, Step
  <2>4. Orderly(r)
    BY <2>2, <2>3 DEF Orderly, Statements
  <2> HIDE DEF r
  <2>5. op' = [op EXCEPT ![o] = r] /\ op \in [Op -> Process]
    BY <1>2 DEF Hold, TypeOK
  <2> QED BY <2>3, <2>4, <2>5 DEF missing
<1> QED BY <1>1, <1>2 DEF ReadRoutes

-----------------------------------------------------------------------------
(* Types of what is not a process. *)

LEMMA UpsetType ==
    ASSUME TypeOK, Upset \/ Calm
    PROVE  upsets' \in 0..MaxUpsets
BY BoundAssumption DEF TypeOK, Upset, Calm

LEMMA StaleType ==
    ASSUME TypeOK,
           \/ UNCHANGED stale
           \/ \E who \in SUBSET Op, facts \in SUBSET Fact : Outdate(who, facts)
           \/ \E o \in Op, facts \in SUBSET Fact : Refresh(o, facts)
           \/ \E o \in Op : stale' = [stale EXCEPT ![o] = {}]
    PROVE  stale' \in [Op -> SUBSET Fact]
<1>1. stale \in [Op -> SUBSET Fact]
  BY DEF TypeOK
<1>2. ASSUME NEW who \in SUBSET Op, NEW facts \in SUBSET Fact, Outdate(who, facts)
      PROVE  stale' \in [Op -> SUBSET Fact]
  BY <1>1, <1>2 DEF Outdate
<1>3. ASSUME NEW o \in Op, NEW facts \in SUBSET Fact, Refresh(o, facts)
      PROVE  stale' \in [Op -> SUBSET Fact]
  BY <1>1, <1>3 DEF Refresh
<1>4. ASSUME NEW o \in Op, stale' = [stale EXCEPT ![o] = {}]
      PROVE  stale' \in [Op -> SUBSET Fact]
  BY <1>1, <1>4
<1> QED BY <1>1, <1>2, <1>3, <1>4

\* The steps of an operator.
LEMMA ApplyType ==
    ASSUME TypeOK, OrderInv, NEW o \in Op, Apply(o)
    PROVE  /\ file' \in Op \cup {None, "empty"}
           /\ peering' \in [Peer -> Status]
           /\ routes' \in [Table -> [host : Hop, net : Hop]]
           /\ ip' \in Address /\ group' \in Address \cup {0}
           /\ account' \in Op \cup {None, Foreign}
           /\ grants' \in SUBSET Statements
           /\ stale' \in [Op -> SUBSET Fact]
           /\ raced' \in BOOLEAN
           /\ upsets' \in 0..MaxUpsets
<1>0. op[o] \in Process
  BY DEF TypeOK
<1>1. CASE SecretStep(o)
  BY <1>1, UpsetType DEF SecretStep, EnsurePasswordFile, OpenPasswordFile,
     WritePasswordFile, ReadAfterRace, LeavesHistory, history, cloud, TypeOK
<1>2. CASE Discover(o)
  <2>1. {"ip"} \in SUBSET Fact /\ {"peerings"} \in SUBSET Fact /\ Table \in SUBSET Fact
        /\ {"group"} \in SUBSET Fact /\ {"grants"} \in SUBSET Fact
    BY DEF Fact, Table
  <2>2. \E facts \in SUBSET Fact : Refresh(o, facts)
    BY <1>2, <2>1 DEF Discover, ReadInstance, ReadPeerings, ReadRoutes, ReadGroups, VerifyBefore
  <2>3. stale' \in [Op -> SUBSET Fact]
    BY <2>2, StaleType
  <2>4. UNCHANGED <<file, cloud, raced>> /\ (Upset \/ Calm)
    BY <1>2 DEF Discover, ReadInstance, ReadPeerings, ReadRoutes, ReadGroups, VerifyBefore, Reads
  <2> QED BY <2>3, <2>4, UpsetType DEF cloud, TypeOK
<1>3. CASE ApplyConnectivity(o)
  <2>1. upsets' \in 0..MaxUpsets
    BY <1>3, UpsetType DEF ApplyConnectivity, CreatePeering, AcceptPeering, ReusePeering,
       PeeringActivated, ListAgain, CreateRoute, RoutesSeen, LeavesHistory
  <2>2. stale' \in [Op -> SUBSET Fact]
    <3>1. CASE CreatePeering(o)
      <4>1. Outdate(Others(o), {"peerings"}) /\ Others(o) \in SUBSET Op /\ {"peerings"} \in SUBSET Fact
        BY <3>1 DEF CreatePeering, Others, Fact
      <4> QED BY <4>1, StaleType
    <3>2. CASE UNCHANGED stale
      BY <3>2, StaleType
    <3> QED BY <1>3, <3>1, <3>2 DEF ApplyConnectivity, AcceptPeering, ReusePeering,
            PeeringActivated, ListAgain, CreateRoute, RoutesSeen, LeavesHistory, history
  <2>3. peering' \in [Peer -> Status] /\ raced' \in BOOLEAN
    BY <1>3 DEF ApplyConnectivity, CreatePeering, AcceptPeering, ReusePeering,
       PeeringActivated, ListAgain, CreateRoute, RoutesSeen, LeavesHistory, history, cloud,
       TypeOK, Status
  <2>4. routes' \in [Table -> [host : Hop, net : Hop]]
    <3>1. ASSUME NEW t \in Table, routes' = [routes EXCEPT ![t].host = op[o].hop]
          PROVE  routes' \in [Table -> [host : Hop, net : Hop]]
      <4>1. op[o].hop \in Hop
        BY <1>0 DEF Process, Hop
      <4> QED BY <3>1, <4>1 DEF TypeOK
    <3>2. CASE UNCHANGED routes
      BY <3>2 DEF TypeOK
    <3> QED BY <1>3, <3>1, <3>2 DEF ApplyConnectivity, CreatePeering, AcceptPeering, ReusePeering,
            PeeringActivated, ListAgain, CreateRoute, RoutesSeen, cloud, Table
  <2>5. UNCHANGED <<file, ip, group, account, grants>>
    BY <1>3 DEF ApplyConnectivity, CreatePeering, AcceptPeering, ReusePeering,
       PeeringActivated, ListAgain, CreateRoute, RoutesSeen, cloud
  <2> QED BY <2>1, <2>2, <2>3, <2>4, <2>5 DEF TypeOK
<1>4. CASE SetWhitelistGroup(o)
  <2>1. stale' \in [Op -> SUBSET Fact]
    <3>1. Others(o) \in SUBSET Op /\ {"group"} \in SUBSET Fact
      BY DEF Others, Fact
    <3> QED BY <1>4, <3>1, StaleType DEF SetWhitelistGroup
  <2>2. group' \in Address \cup {0}
    BY <1>0, <1>4 DEF SetWhitelistGroup, Process, TypeOK
  <2> QED BY <1>4, <2>1, <2>2, UpsetType DEF SetWhitelistGroup, TypeOK
<1>5. CASE GroupSeen(o)
  BY <1>5, UpsetType DEF GroupSeen, LeavesHistory, history, cloud, TypeOK
<1>6. CASE CreateAccount(o)
  <2>1. account' \in Op \cup {None, Foreign}
    BY <1>0, <1>6 DEF CreateAccount, Process, TypeOK
  <2> QED BY <1>6, <2>1, UpsetType DEF CreateAccount, LeavesHistory, history, TypeOK
<1>8. CASE RunStatements(o)
  <2> SUFFICES grants' \in SUBSET Statements
    BY <1>8, UpsetType DEF RunStatements, LeavesHistory, history, TypeOK
  <2>1. CASE UNCHANGED grants
    BY <2>1 DEF TypeOK
  <2>2. CASE ~UNCHANGED grants
    <3>1. op[o].ran \in SUBSET Statements /\ op[o].ran # Statements
      BY <1>0, <1>8 DEF RunStatements, At, Process, OrderInv, Orderly
    <3> QED BY <1>8, <2>2, <3>1, NextStatement DEF RunStatements, TypeOK
  <2> QED BY <2>1, <2>2
<1>7. CASE VerifyGrants(o)
  <2>1. stale' \in [Op -> SUBSET Fact]
    <3>1. {"grants"} \in SUBSET Fact
      BY DEF Fact
    <3> QED BY <1>7, <3>1, StaleType DEF VerifyGrants
  <2> QED BY <1>7, <2>1, UpsetType DEF VerifyGrants, Reads, cloud, TypeOK
<1> QED BY <1>1, <1>2, <1>3, <1>4, <1>5, <1>6, <1>7, <1>8 DEF Apply, ApplyRest

-----------------------------------------------------------------------------
(* The invariant. *)

LEMMA ApplyMoves ==
    ASSUME TypeOK, OrderInv, NEW o \in Op, Apply(o), ~ReadRoutes(o)
    PROVE  Moves(o)
BY SecretMoves, DiscoverMoves, ConnectivityMoves, RestOfApplyMoves DEF Apply, Discover

LEMMA ApplyOps ==
    ASSUME TypeOK, OrderInv, NEW o \in Op, Apply(o) \/ Start(o) \/ Dies(o)
    PROVE  op' \in [Op -> Process] /\ OrderInv' /\ \A q \in Op : q # o => op'[q] = op[q]
<1>1. /\ op' \in [Op -> Process]
      /\ \A q \in Op : q # o => op'[q] = op[q]
      /\ Orderly(op'[o])
  <2>1. CASE ReadRoutes(o)
    BY <2>1, ReadRoutesType
  <2>2. CASE Apply(o) /\ ~ReadRoutes(o)
    BY <2>2, ApplyMoves DEF Moves
  <2>3. CASE Start(o) \/ Dies(o)
    BY <2>3, StartMoves DEF Moves
  <2> QED BY <2>1, <2>2, <2>3
<1>2. \A q \in Op : Orderly(op'[q])
  BY <1>1 DEF OrderInv
<1> QED BY <1>1, <1>2 DEF OrderInv

LEMMA TypeStep ==
    ASSUME TypeOK, OrderInv, [Next]_vars
    PROVE  TypeOK' /\ OrderInv'
<1>1. ASSUME NEW o \in Op, Apply(o)
      PROVE  TypeOK' /\ OrderInv'
  BY <1>1, ApplyType, ApplyOps DEF TypeOK
<1>2. ASSUME NEW o \in Op, Start(o) \/ Dies(o)
      PROVE  TypeOK' /\ OrderInv'
  <2>1. stale' \in [Op -> SUBSET Fact]
    BY <1>2, StaleType DEF Start, Dies, history
  <2>2. upsets' \in 0..MaxUpsets
    BY <1>2, UpsetType DEF Start, Dies
  <2>3. UNCHANGED <<file, cloud, raced>>
    BY <1>2 DEF Start, Dies, history
  <2> QED BY <1>2, <2>1, <2>2, <2>3, ApplyOps DEF TypeOK, cloud
<1>3. CASE Provision
  <2>1. peering' \in [Peer -> Status]
    BY <1>3 DEF Provision, TypeOK, Status
  <2>2. upsets' \in 0..MaxUpsets
    BY <1>3, UpsetType DEF Provision, LeavesHistory
  <2> QED BY <1>3, <2>1, <2>2 DEF Provision, LeavesHistory, history, TypeOK, OrderInv
<1>4. CASE Console
  <2>1. stale' \in [Op -> SUBSET Fact]
    <3>1. \E facts \in SUBSET Fact : Outdate(Op, facts)
      BY <1>4 DEF Console, DeletePeering, ChangeRoutes, ReplaceAppliance, ChangeAccount, Fact, Table
    <3> QED BY <3>1, StaleType
  <2>2. upsets' \in 0..MaxUpsets
    BY <1>4, UpsetType DEF Console, DeletePeering, ChangeRoutes, ReplaceAppliance, ChangeAccount
  <2>3. peering' \in [Peer -> Status]
    BY <1>4 DEF Console, DeletePeering, ChangeRoutes, ReplaceAppliance, ChangeAccount, TypeOK, Status
  <2>4. routes' \in [Table -> [host : Hop, net : Hop]]
    <3>1. ASSUME NEW t \in Table, \/ routes' = [routes EXCEPT ![t].net = Foreign]
                                  \/ routes' = [routes EXCEPT ![t].host = None]
          PROVE  routes' \in [Table -> [host : Hop, net : Hop]]
      BY <3>1 DEF TypeOK, Hop
    <3>2. CASE UNCHANGED routes
      BY <3>2 DEF TypeOK
    <3> QED BY <1>4, <3>1, <3>2 DEF Console, DeletePeering, ChangeRoutes, ReplaceAppliance, ChangeAccount
  <2>5. ip' \in Address
    BY <1>4 DEF Console, DeletePeering, ChangeRoutes, ReplaceAppliance, ChangeAccount, TypeOK, Address
  <2>6. account' \in Op \cup {None, Foreign} /\ grants' \in SUBSET Statements
    BY <1>4 DEF Console, DeletePeering, ChangeRoutes, ReplaceAppliance, ChangeAccount, TypeOK
  <2>7. UNCHANGED <<file, group, op, raced>>
    BY <1>4 DEF Console, DeletePeering, ChangeRoutes, ReplaceAppliance, ChangeAccount
  <2> QED BY <2>1, <2>2, <2>3, <2>4, <2>5, <2>6, <2>7 DEF TypeOK, OrderInv
<1>5. CASE UNCHANGED vars
  BY <1>5 DEF vars, cloud, history, TypeOK, OrderInv
<1> QED BY <1>1, <1>2, <1>3, <1>4, <1>5 DEF Next

-----------------------------------------------------------------------------
(* What is known of the tables. *)

\* A step after which every process that has a plan had it before, and every
\* table is as it was or has a host route.
LEMMA RouteKept ==
    ASSUME RouteInv,
           \A q \in Op : op'[q].pc \in Planned =>
              op[q].pc \in Planned /\ op'[q].todo \subseteq op[q].todo,
           \A q \in Op, t \in Table : op'[q].pc \in Planned /\ t \in stale[q] => t \in stale'[q],
           \A q \in Op, t \in Table :
              op'[q].pc \in Planned /\ t \notin stale'[q]
                => routes'[t] = routes[t] \/ routes'[t].host # None
    PROVE  RouteInv'
<1> SUFFICES ASSUME NEW q \in Op, NEW t \in Table,
                    op'[q].pc \in Planned, t \in op'[q].todo, t \notin stale'[q]
             PROVE  Best(routes'[t]) = None \/ routes'[t].host # None
  BY DEF RouteInv, Best
<1>1. op[q].pc \in Planned /\ t \in op[q].todo /\ t \notin stale[q]
  OBVIOUS
<1>2. Best(routes[t]) = None \/ routes[t].host # None
  BY <1>1 DEF RouteInv
<1>3. routes'[t] = routes[t] \/ routes'[t].host # None
  OBVIOUS
<1> QED BY <1>2, <1>3

\* An operator's step makes nobody forget that a table was changed, but for
\* his reading of the tables.
LEMMA ApplyRemembers ==
    ASSUME TypeOK, NEW o \in Op, Apply(o), ~ReadRoutes(o)
    PROVE  \A q \in Op, t \in Table : t \in stale[q] => t \in stale'[q]
<1>1. stale \in [Op -> SUBSET Fact]
  BY DEF TypeOK
<1>2. ASSUME NEW fact \in {"ip", "peerings", "group", "grants"}, Refresh(o, {fact})
      PROVE  \A q \in Op, t \in Table : t \in stale[q] => t \in stale'[q]
  BY <1>1, <1>2 DEF Refresh, Table
<1>3. ASSUME NEW who \in SUBSET Op, NEW fact \in Fact, Outdate(who, {fact})
      PROVE  \A q \in Op, t \in Table : t \in stale[q] => t \in stale'[q]
  BY <1>1, <1>3 DEF Outdate
<1>4. CASE UNCHANGED stale
  BY <1>4
<1>5. CASE CreatePeering(o)
  BY <1>3, <1>5 DEF CreatePeering, Others, Fact
<1>6. CASE SetWhitelistGroup(o)
  BY <1>3, <1>4, <1>6 DEF SetWhitelistGroup, Others, Fact
<1>7. CASE Discover(o)
  BY <1>2, <1>7 DEF Discover, ReadInstance, ReadPeerings, ReadGroups, VerifyBefore
<1>8. CASE VerifyGrants(o)
  BY <1>2, <1>8 DEF VerifyGrants
<1>9. ASSUME ~CreatePeering(o), ~SetWhitelistGroup(o), ~Discover(o), ~VerifyGrants(o)
      PROVE  UNCHANGED stale
  BY <1>9 DEF Apply, SecretStep, EnsurePasswordFile, OpenPasswordFile, WritePasswordFile,
     ReadAfterRace, ApplyConnectivity, AcceptPeering, ReusePeering, PeeringActivated,
     ListAgain, CreateRoute, RoutesSeen, ApplyRest, GroupSeen, CreateAccount, RunStatements,
     LeavesHistory, history
<1> QED BY <1>4, <1>5, <1>6, <1>7, <1>8, <1>9

\* Nobody's step but the making of a route changes a table.
LEMMA ApplyLeavesRoutes ==
    ASSUME NEW o \in Op, Apply(o), ~CreateRoute(o)
    PROVE  UNCHANGED routes
<1>1. CASE SecretStep(o)
  BY <1>1 DEF SecretStep, EnsurePasswordFile, OpenPasswordFile, WritePasswordFile,
     ReadAfterRace, cloud
<1>2. CASE Discover(o)
  BY <1>2 DEF Discover, ReadInstance, ReadPeerings, ReadRoutes, ReadGroups, VerifyBefore,
     Reads, cloud
<1>3. CASE ApplyConnectivity(o)
  BY <1>3 DEF ApplyConnectivity, CreatePeering, AcceptPeering, ReusePeering,
     PeeringActivated, ListAgain, RoutesSeen, cloud
<1>4. CASE ApplyRest(o)
  BY <1>4 DEF ApplyRest, SetWhitelistGroup, GroupSeen, CreateAccount, RunStatements,
     VerifyGrants, Reads, cloud
<1> QED BY <1>1, <1>2, <1>3, <1>4 DEF Apply

\* The making of a route leaves the other table alone, and this one when the
\* peering has no identity.
LEMMA CreateRouteKeeps ==
    ASSUME TypeOK, NEW o \in Op, CreateRoute(o), NEW t \in Table
    PROVE  routes'[t] = routes[t] \/ (routes[t].host = None /\ routes'[t].host # None)
<1> DEFINE u == IF "gateway" \in op[o].todo THEN "gateway" ELSE "database"
<1>1. u \in Table /\ routes \in [Table -> [host : Hop, net : Hop]]
  BY DEF Table, TypeOK
<1>2. CASE UNCHANGED routes
  BY <1>2
<1>3. CASE routes[u].host = None /\ routes' = [routes EXCEPT ![u].host = op[o].hop]
  <2>1. routes'[u] = [routes[u] EXCEPT !.host = op[o].hop] /\ (t # u => routes'[t] = routes[t])
    BY <1>1, <1>3
  <2>2. routes[u] \in [host : Hop, net : Hop]
    BY <1>1
  <2>3. CASE op[o].hop = None
    BY <1>3, <2>1, <2>2, <2>3
  <2>4. CASE op[o].hop # None
    BY <1>3, <2>1, <2>2, <2>4
  <2> QED BY <2>3, <2>4
<1> QED BY <1>2, <1>3 DEF CreateRoute

LEMMA RouteStep ==
    ASSUME TypeOK, OrderInv, RouteInv, [Next]_vars
    PROVE  RouteInv'
<1>1. ASSUME NEW o \in Op, ReadRoutes(o)
      PROVE  RouteInv'
  <2> SUFFICES ASSUME NEW q \in Op, NEW t \in Table,
                      op'[q].pc \in Planned, t \in op'[q].todo, t \notin stale'[q]
               PROVE  Best(routes'[t]) = None \/ routes'[t].host # None
    BY DEF RouteInv, Best
  <2>1. UNCHANGED routes
    BY <1>1 DEF ReadRoutes, Reads, cloud
  <2>2. CASE q = o
    <3>1. PlanRoute(routes[t], op[o].hop) = "create"
      BY <1>1, <2>2, ReadRoutesType
    <3> QED BY <2>1, <3>1 DEF PlanRoute
  <2>3. CASE q # o
    <3>1. op'[q] = op[q]
      BY <1>1, <2>3, ReadRoutesType
    <3>2. stale'[q] = stale[q]
      BY <1>1, <2>3 DEF ReadRoutes, Refresh, TypeOK
    <3> QED BY <2>1, <3>1, <3>2 DEF RouteInv
  <2> QED BY <2>2, <2>3
<1>2. ASSUME NEW o \in Op, Apply(o), ~ReadRoutes(o)
      PROVE  RouteInv'
  <2>1. Moves(o)
    BY <1>2, ApplyMoves
  <2>2. \A t \in Table : routes'[t] = routes[t] \/ routes'[t].host # None
    BY <1>2, ApplyLeavesRoutes, CreateRouteKeeps
  <2>3. \A q \in Op : op'[q].pc \in Planned =>
           op[q].pc \in Planned /\ op'[q].todo \subseteq op[q].todo
    BY <2>1 DEF Moves
  <2> QED BY <1>2, <2>2, <2>3, ApplyRemembers, RouteKept
<1>3. ASSUME NEW o \in Op, Start(o) \/ Dies(o)
      PROVE  RouteInv'
  <2>1. Moves(o) /\ UNCHANGED routes
    BY <1>3, StartMoves DEF Start, Dies, cloud
  <2>2. op'[o].pc \notin Planned
    BY <1>3 DEF Start, Dies, Fails, Hold, Blank, Planned, TypeOK
  <2>3. \A q \in Op : q # o => stale'[q] = stale[q]
    BY <1>3 DEF Start, Dies, history, TypeOK
  <2>4. \A q \in Op : op'[q].pc \in Planned =>
           op[q].pc \in Planned /\ op'[q].todo \subseteq op[q].todo
    BY <2>1 DEF Moves
  <2> QED BY <2>1, <2>2, <2>3, <2>4, RouteKept
<1>4. CASE Provision \/ UNCHANGED vars
  BY <1>4 DEF Provision, LeavesHistory, history, vars, cloud, RouteInv, Best
<1>5. CASE Console
  <2>1. UNCHANGED op
    BY <1>5 DEF Console, DeletePeering, ChangeRoutes, ReplaceAppliance, ChangeAccount
  <2>2. \A q \in Op, t \in Table : op'[q].pc \in Planned /\ t \in stale[q] => t \in stale'[q]
    <3>1. \E facts \in SUBSET Fact : Outdate(Op, facts)
      BY <1>5 DEF Console, DeletePeering, ChangeRoutes, ReplaceAppliance, ChangeAccount, Fact, Table
    <3> QED BY <3>1 DEF Outdate, TypeOK
  <2>3. \A q \in Op, t \in Table :
           op'[q].pc \in Planned /\ t \notin stale'[q]
             => routes'[t] = routes[t] \/ routes'[t].host # None
    <3>1. CASE UNCHANGED routes
      BY <3>1
    <3>2. CASE ChangeRoutes
      <4>1. PICK u \in Table : /\ \/ routes' = [routes EXCEPT ![u].net = Foreign]
                                  \/ routes' = [routes EXCEPT ![u].host = None]
                               /\ Outdate(Op, {u})
        BY <3>2 DEF ChangeRoutes
      <4>2. \A q \in Op : op[q].pc \in Planned => u \in stale'[q]
        BY <4>1 DEF Outdate, Planned, TypeOK
      <4>3. \A t \in Table : t # u => routes'[t] = routes[t]
        BY <4>1 DEF TypeOK
      <4> QED BY <2>1, <4>2, <4>3
    <3> QED BY <1>5, <3>1, <3>2 DEF Console, DeletePeering, ReplaceAppliance, ChangeAccount
  <2>4. \A q \in Op : op'[q].pc \in Planned =>
           op[q].pc \in Planned /\ op'[q].todo \subseteq op[q].todo
    BY <2>1
  <2> QED BY <2>2, <2>3, <2>4, RouteKept
<1> QED BY <1>1, <1>2, <1>3, <1>4, <1>5 DEF Next

LEMMA Begin ==
    ASSUME Init
    PROVE  TypeOK /\ OrderInv /\ RouteInv
<1>1. Blank \in Process /\ Blank.pc = "idle" /\ Blank.ran = {}
  BY DEF Blank, Process, Step, Rest, Address
<1>2. \A o \in Op : op[o] = Blank
  BY DEF Init
<1>3. OrderInv /\ RouteInv
  BY <1>1, <1>2 DEF OrderInv, RouteInv, Orderly, Planned, Statements
<1>4. peering \in [Peer -> Status]
  BY DEF Init, Status
<1>5. routes \in [Table -> [host : Hop, net : Hop]]
  BY DEF Init, Hop
<1>6. op \in [Op -> Process]
  BY <1>1 DEF Init
<1>7. upsets \in 0..MaxUpsets
  BY BoundAssumption DEF Init
<1> QED BY <1>3, <1>4, <1>5, <1>6, <1>7 DEF Init, TypeOK, Address

\* Whatever the operators and the console do, in any order: every variable of
\* the onboarding of a database keeps its type (the plan that a process holds,
\* what it has left to do, and what there is in the cloud).
THEOREM TypeCorrect == Spec => []TypeOK
<1>1. Init => TypeOK /\ OrderInv
  BY Begin
<1>2. TypeOK /\ OrderInv /\ [Next]_vars => TypeOK' /\ OrderInv'
  BY TypeStep
<1> QED BY <1>1, <1>2, PTL DEF Spec

\* applyConnectivity makes its routes from a plan that may be old, yet the way
\* a host is reached changes by it only where somebody changed that table after
\* the plan was made: any number of operators, each of whom may die and run
\* again, never take a path from each other.
THEOREM PathsKept == Spec => NothingShadowed
<1>1. Init => TypeOK /\ OrderInv /\ RouteInv
  BY Begin
<1>2. TypeOK /\ OrderInv /\ RouteInv /\ [Next]_vars => (TypeOK /\ OrderInv /\ RouteInv)'
  BY TypeStep, RouteStep
<1>3. ASSUME TypeOK, OrderInv, RouteInv, Next, NEW o \in Op, NEW t \in Table,
             At(o, "route"), op'[o] # op[o], Best(routes[t]) # None,
             Best(routes'[t]) # Best(routes[t])
      PROVE  t \in stale[o]
  <2>1. CASE CreateRoute(o)
    <3> DEFINE u == IF "gateway" \in op[o].todo THEN "gateway" ELSE "database"
    <3>1. op[o].todo \in SUBSET Table /\ op[o].todo # {}
      BY <1>3 DEF TypeOK, Process, OrderInv, Orderly, At
    <3>2. u \in op[o].todo /\ u \in Table
      BY <3>1 DEF Table
    <3>3. t = u /\ routes[t].host = None
      BY <1>3, <2>1, <3>2 DEF CreateRoute, TypeOK
    <3>4. ~(Best(routes[t]) = None \/ routes[t].host # None)
      BY <1>3, <3>3
    <3> QED BY <1>3, <3>2, <3>3, <3>4 DEF RouteInv, At, Planned
  <2>2. ASSUME NEW q \in Op, Apply(q), q # o
        PROVE  FALSE
    BY <1>3, <2>2, ApplyMoves, ReadRoutesType DEF Moves
  <2>3. ASSUME ~CreateRoute(o), Apply(o)
        PROVE  FALSE
    BY <1>3, <2>3, ApplyLeavesRoutes
  <2>4. ASSUME NEW q \in Op, Start(q) \/ Dies(q)
        PROVE  FALSE
    BY <1>3, <2>4 DEF Start, Dies, cloud
  <2>5. CASE Provision \/ Console
    BY <1>3, <2>5 DEF Provision, Console, DeletePeering, ChangeRoutes, ReplaceAppliance,
       ChangeAccount
  <2> QED BY <1>3, <2>1, <2>2, <2>3, <2>4, <2>5 DEF Next
<1>4. TypeOK /\ OrderInv /\ RouteInv /\ [Next]_vars =>
        [\A o \in Op, t \in Table :
           At(o, "route") /\ op'[o] # op[o] /\ Best(routes[t]) # None
              /\ Best(routes'[t]) # Best(routes[t])
           => t \in stale[o]]_vars
  BY <1>3
<1> QED BY <1>1, <1>2, <1>4, PTL DEF Spec, NothingShadowed

-----------------------------------------------------------------------------
(* What a process knows: from its readings until it reports, every fact it *)
(* found or made holds, unless somebody changed it and it is outdated.     *)

\* The steps of a run: with the password of the file, with the address of the
\* appliance, with a plan of the routes, and with the hosts connected.
Early == {"file", "open", "write", "reread"}
Informed == Step \ (Rest \cup Early)
Choosing == {"routes", "groups", "verify", "peer"}
Placed == Planned \cup {"routed"}
Addressed == {"peerings", "routes", "group", "covered"} \cup Placed
Allowed == {"account", "grant", "granted", "done"}
Linked == {"group", "covered"} \cup Allowed

\* One process at most writes the file, and what all the others have read in it
\* never changes.
SecretInv ==
    /\ \A o \in Op : At(o, "write") => file = "empty" /\ \A q \in Op : At(q, "write") => q = o
    /\ \A o \in Op : At(o, "reread") => file # None
    /\ \A o \in Op : op[o].pc \in Informed => op[o].pw = file /\ file \in Op

\* Which peering a process counts on, and that it is active unless somebody
\* changed the peerings since the process read them.
HopInv(o) ==
    LET p == op[o] IN
    /\ p.pc = "routes" /\ p.act = "create" => p.hop = None
    /\ p.pc = "activated" \/ (p.pc \in Choosing /\ p.act \in {"accept", "reuse"}) => p.hop \in Peer
    /\ \/ p.pc \in {"relist", "route", "routed"}
       \/ p.pc \in Choosing /\ p.act = "reuse"
       => "peerings" \in stale[o] \/ (p.hop \in Peer /\ peering[p.hop] = "Activated")

\* A table that gets no route has one to that peering; a table that is to get
\* one has at most a network route that is nobody's peering.
PlanInv(o) ==
    LET p == op[o] IN
    p.pc \in Placed =>
       /\ p.todo \subseteq p.added
       /\ p.pc \notin {"route", "routed"} => p.todo = p.added
       /\ p.act = "create" => p.added = Table
       /\ \A t \in Table \ p.added :
             t \in stale[o] \/ (p.hop \in Peer /\ Best(routes[t]) = p.hop)
       /\ p.pc \in Planned => \A t \in p.todo : routes[t].net \notin Peer

\* The connection stays up as long as nobody changes its parts.
LinkInv(o) ==
    op[o].pc \in Linked /\ "peerings" \notin stale[o] /\ (\A t \in Table : t \notin stale[o])
      => \E p \in Peer : peering[p] = "Activated" /\ \A t \in Table : Best(routes[t]) = p

\* The group holds the address, or the process is to write it.
GroupInv(o) ==
    LET p == op[o] IN
    /\ p.pc \in Addressed => "ip" \in stale[o] \/ p.ip = ip
    /\ p.pc \in {"group"} \cup (Placed \ {"groups"}) /\ ~p.cover
          => "group" \in stale[o] \/ group = p.ip
    /\ p.pc \in Allowed => "group" \in stale[o] \/ "ip" \in stale[o] \/ group = ip

\* What was verified, before or after the statements, holds.
GrantInv(o) ==
    /\ op[o].ok => op[o].pc \in Linked \cup (Placed \ {"groups", "verify"})
    /\ op[o].ok \/ op[o].pc = "done"
          => "grants" \in stale[o] \/ (account = file /\ file \in Op /\ grants = Statements)

Known(o) == HopInv(o) /\ PlanInv(o) /\ LinkInv(o) /\ GroupInv(o) /\ GrantInv(o)

KnownInv == \A o \in Op : Known(o)

\* What may happen to others while a process is under way: nothing it relies on
\* changes behind its back.
Respects(q) ==
    /\ stale[q] \subseteq stale'[q]
    /\ "peerings" \in stale'[q] \/ \A p \in Peer : peering[p] = "Activated" => peering'[p] = "Activated"
    /\ \A t \in Table :
          /\ t \in stale'[q] \/ (Best(routes[t]) \in Peer => Best(routes'[t]) = Best(routes[t]))
          /\ routes[t].net \notin Peer => routes'[t].net \notin Peer
    /\ "ip" \in stale'[q] \/ ip' = ip
    /\ "group" \in stale'[q] \/ group' = group
    /\ file \in Op => file' = file
    /\ \/ "grants" \in stale'[q]
       \/ (account = file /\ file \in Op /\ grants = Statements)
             => UNCHANGED <<account, grants>>

LEMMA Bystander ==
    ASSUME TypeOK, NEW q \in Op, Known(q), op'[q] = op[q],
           op[q].pc \notin {"idle", "failed"} => Respects(q)
    PROVE  Known(q)'
<1>0. op[q] \in Process
  BY DEF TypeOK
<1>1. CASE op[q].pc \in {"idle", "failed"}
  BY <1>1 DEF Known, HopInv, PlanInv, LinkInv, GroupInv, GrantInv, Choosing, Placed,
     Planned, Linked, Allowed, Addressed
<1>2. CASE Respects(q)
  <2>1. HopInv(q)'
    BY <1>2 DEF Respects, Known, HopInv
  <2>2. PlanInv(q)'
    <3> SUFFICES ASSUME op[q].pc \in Placed
                 PROVE  PlanInv(q)'
      BY DEF PlanInv
    <3>1. \A t \in Table \ op[q].added :
             t \in stale'[q] \/ (op[q].hop \in Peer /\ Best(routes'[t]) = op[q].hop)
      BY <1>2 DEF Respects, Known, PlanInv
    <3>2. op[q].pc \in Planned => \A t \in op[q].todo : routes'[t].net \notin Peer
      BY <1>0, <1>2 DEF Respects, Known, PlanInv, Process
    <3> QED BY <3>1, <3>2 DEF Known, PlanInv, Best
  <2>3. LinkInv(q)'
    <3> SUFFICES ASSUME op[q].pc \in Linked, "peerings" \notin stale'[q],
                        \A t \in Table : t \notin stale'[q]
                 PROVE  \E p \in Peer : peering'[p] = "Activated" /\ \A t \in Table : Best(routes'[t]) = p
      BY DEF LinkInv, Best
    <3>1. PICK p \in Peer : peering[p] = "Activated" /\ \A t \in Table : Best(routes[t]) = p
      BY <1>2 DEF Respects, Known, LinkInv
    <3> QED BY <1>2, <3>1 DEF Respects
  <2>4. GroupInv(q)'
    BY <1>2 DEF Respects, Known, GroupInv
  <2>5. GrantInv(q)'
    BY <1>2 DEF Respects, Known, GrantInv
  <2> QED BY <2>1, <2>2, <2>3, <2>4, <2>5 DEF Known
<1> QED BY <1>1, <1>2

LEMMA StillRespects ==
    ASSUME TypeOK, NEW q \in Op, stale[q] \subseteq stale'[q], UNCHANGED <<file, cloud>>
    PROVE  Respects(q)
BY DEF Respects, cloud

\* The console and the cloud tell whoever is under way, or change nothing that
\* he relies on.
LEMMA ConsoleRespects ==
    ASSUME TypeOK, Console \/ Provision, NEW q \in Op, op[q].pc \notin {"idle", "failed"}
    PROVE  Respects(q)
<1>0. stale \in [Op -> SUBSET Fact] /\ peering \in [Peer -> Status]
      /\ routes \in [Table -> [host : Hop, net : Hop]]
  BY DEF TypeOK
<1>1. CASE DeletePeering
  BY <1>0, <1>1 DEF DeletePeering, Outdate, Respects
<1>2. CASE ChangeRoutes
  <2>1. PICK u \in Table : /\ \/ routes' = [routes EXCEPT ![u].net = Foreign]
                              \/ routes' = [routes EXCEPT ![u].host = None]
                           /\ Outdate(Op, {u})
    BY <1>2 DEF ChangeRoutes
  <2>2. u \in stale'[q] /\ stale[q] \subseteq stale'[q]
    BY <1>0, <2>1 DEF Outdate
  <2>3. \A t \in Table : t # u => routes'[t] = routes[t]
    BY <1>0, <2>1
  <2>4. routes[u].net \notin Peer => routes'[u].net \notin Peer
    BY <1>0, <2>1, NoneAssumption
  <2>5. UNCHANGED <<file, peering, ip, group, account, grants>>
    BY <1>2 DEF ChangeRoutes
  <2> QED BY <2>2, <2>3, <2>4, <2>5 DEF Respects
<1>3. CASE ReplaceAppliance
  BY <1>0, <1>3 DEF ReplaceAppliance, Outdate, Respects
<1>4. CASE ChangeAccount
  BY <1>0, <1>4 DEF ChangeAccount, Outdate, Respects
<1>5. CASE Provision
  BY <1>0, <1>5 DEF Provision, LeavesHistory, history, Respects
<1> QED BY <1>1, <1>2, <1>3, <1>4, <1>5 DEF Console

\* Nor does another process.
LEMMA OthersRespect ==
    ASSUME TypeOK, OrderInv, SecretInv, NEW o \in Op, Known(o),
           Apply(o) \/ Start(o) \/ Dies(o),
           NEW q \in Op, q # o, op[q].pc \notin {"idle", "failed"}
    PROVE  Respects(q)
<1>0. stale \in [Op -> SUBSET Fact] /\ peering \in [Peer -> Status]
      /\ routes \in [Table -> [host : Hop, net : Hop]] /\ op[o] \in Process
  BY DEF TypeOK
<1>1. ASSUME NEW facts, Refresh(o, facts) \/ UNCHANGED stale
      PROVE  stale'[q] = stale[q]
  BY <1>0, <1>1 DEF Refresh
<1>2. ASSUME NEW facts, Outdate(Others(o), facts)
      PROVE  stale'[q] = stale[q] \cup facts
  BY <1>0, <1>2 DEF Outdate, Others
<1>3. CASE SecretStep(o)
  <2>1. UNCHANGED <<cloud, stale>>
    BY <1>3 DEF SecretStep, EnsurePasswordFile, OpenPasswordFile, WritePasswordFile,
       ReadAfterRace, LeavesHistory, history
  <2>2. file \in Op => file' = file
    BY <1>3, NoneAssumption, SecretAssumption
       DEF SecretStep, EnsurePasswordFile, OpenPasswordFile, WritePasswordFile,
           ReadAfterRace, SecretInv, At
  <2> QED BY <2>1, <2>2 DEF Respects, cloud
<1>4. CASE Discover(o)
  <2>1. UNCHANGED <<file, cloud>>
    BY <1>4 DEF Discover, ReadInstance, ReadPeerings, ReadRoutes, ReadGroups, VerifyBefore, Reads
  <2>2. stale'[q] = stale[q]
    BY <1>1, <1>4 DEF Discover, ReadInstance, ReadPeerings, ReadRoutes, ReadGroups, VerifyBefore
  <2> QED BY <2>1, <2>2, StillRespects
<1>5. CASE CreatePeering(o)
  <2>1. stale'[q] = stale[q] \cup {"peerings"}
    BY <1>2, <1>5 DEF CreatePeering
  <2>2. UNCHANGED <<file, routes, ip, group, account, grants>>
    BY <1>5 DEF CreatePeering
  <2> QED BY <2>1, <2>2 DEF Respects
<1>6. CASE AcceptPeering(o)
  BY <1>0, <1>6 DEF AcceptPeering, LeavesHistory, history, Respects
<1>7. CASE ReusePeering(o) \/ PeeringActivated(o) \/ ListAgain(o) \/ RoutesSeen(o)
  BY <1>7, StillRespects
     DEF ReusePeering, PeeringActivated, ListAgain, RoutesSeen, LeavesHistory, history
<1>8. CASE CreateRoute(o)
  <2>0. UNCHANGED <<stale, file, peering, ip, group, account, grants>>
    BY <1>8 DEF CreateRoute, LeavesHistory, history
  <2> DEFINE u == IF "gateway" \in op[o].todo THEN "gateway" ELSE "database"
  <2>1. u \in Table /\ routes[u].net \notin Peer
    <3>1. op[o].todo \in SUBSET Table /\ op[o].todo # {} /\ op[o].pc = "route"
      BY <1>0, <1>8 DEF Process, OrderInv, Orderly, CreateRoute, At
    <3>2. u \in op[o].todo
      BY <3>1 DEF Table
    <3> QED BY <3>1, <3>2 DEF Known, PlanInv, Placed, Planned
  <2>2. CASE UNCHANGED routes
    BY <2>0, <2>2 DEF Respects
  <2>3. CASE routes[u].host = None /\ routes' = [routes EXCEPT ![u].host = op[o].hop]
    <3> HIDE DEF u
    <3>1. \A t \in Table : t # u => routes'[t] = routes[t]
      BY <1>0, <2>3
    <3>2. Best(routes[u]) \notin Peer
      BY <2>1, <2>3 DEF Best
    <3>3. routes'[u].net = routes[u].net
      BY <1>0, <2>1, <2>3
    <3> QED BY <2>0, <3>1, <3>2, <3>3 DEF Respects
  <2> QED BY <1>8, <2>2, <2>3 DEF CreateRoute
<1>9. CASE SetWhitelistGroup(o)
  <2>1. UNCHANGED <<file, peering, routes, ip, account, grants>>
    BY <1>9 DEF SetWhitelistGroup
  <2>2. \/ stale'[q] = stale[q] \cup {"group"}
        \/ stale'[q] = stale[q] /\ UNCHANGED group
    BY <1>1, <1>2, <1>9 DEF SetWhitelistGroup
  <2> QED BY <2>1, <2>2 DEF Respects
<1>10. CASE GroupSeen(o)
  BY <1>10, StillRespects DEF GroupSeen, LeavesHistory, history
<1>11. CASE CreateAccount(o)
  BY <1>11, NoneAssumption DEF CreateAccount, LeavesHistory, history, Respects
<1>12. CASE RunStatements(o)
  <2>1. UNCHANGED <<stale, file, peering, routes, ip, group, account>>
    BY <1>12 DEF RunStatements, LeavesHistory, history
  <2>2. grants = Statements => grants' = grants
    <3>1. op[o].ran \in SUBSET Statements /\ op[o].ran # Statements
      BY <1>0, <1>12 DEF Process, OrderInv, Orderly, RunStatements, At
    <3> QED BY <1>12, <3>1, NextStatement DEF RunStatements
  <2> QED BY <2>1, <2>2 DEF Respects
<1>13. CASE VerifyGrants(o)
  BY <1>1, <1>13, StillRespects DEF VerifyGrants, Reads
<1>14. CASE Start(o) \/ Dies(o)
  <2>1. stale'[q] = stale[q] /\ UNCHANGED <<file, cloud>>
    BY <1>0, <1>14 DEF Start, Dies, history
  <2> QED BY <2>1, StillRespects
<1> QED BY <1>3, <1>4, <1>5, <1>6, <1>7, <1>8, <1>9, <1>10, <1>11, <1>12, <1>13, <1>14
        DEF Apply, ApplyConnectivity, ApplyRest

-----------------------------------------------------------------------------
(* What a process knows after a step of its own. *)

\* A process that has read nothing yet, or has stopped.
LEMMA Ignorant ==
    ASSUME NEW o \in Op, op'[o].pc \in {"idle", "failed", "instance"} \cup Early, ~op'[o].ok
    PROVE  Known(o)'
BY DEF Known, HopInv, PlanInv, LinkInv, GroupInv, GrantInv, Choosing, Placed, Planned,
       Linked, Allowed, Addressed, Early

LEMMA FailedKnows ==
    ASSUME TypeOK, NEW o \in Op, Fails(o)
    PROVE  Known(o)'
<1>1. op'[o].pc = "failed" /\ ~op'[o].ok
  BY DEF Fails, Hold, Blank, TypeOK
<1> QED BY <1>1, Ignorant

LEMMA SecretKnows ==
    ASSUME TypeOK, NEW o \in Op, Known(o), SecretStep(o)
    PROVE  Known(o)'
<1>1. op[o].pc \in {"file", "open", "write", "reread"} /\ op[o] \in Process
  BY DEF SecretStep, EnsurePasswordFile, OpenPasswordFile, WritePasswordFile, ReadAfterRace,
     At, TypeOK
<1>2. ~op[o].ok
  BY <1>1 DEF Known, GrantInv, Linked, Allowed, Placed, Planned
<1>3. CASE Fails(o)
  BY <1>3, FailedKnows
<1>4. ASSUME NEW step \in {"open", "write", "reread"}, Goto(o, step)
      PROVE  Known(o)'
  <2>1. op'[o].pc = step /\ ~op'[o].ok
    BY <1>1, <1>2, <1>4 DEF Goto, TypeOK, Process
  <2> QED BY <2>1, Ignorant DEF Early
<1>5. ASSUME NEW pw, Hold(o, [op[o] EXCEPT !.pc = "instance", !.pw = pw])
      PROVE  Known(o)'
  <2>1. op'[o].pc = "instance" /\ ~op'[o].ok
    BY <1>1, <1>2, <1>5 DEF Hold, TypeOK, Process
  <2> QED BY <2>1, Ignorant
<1> QED BY <1>3, <1>4, <1>5
        DEF SecretStep, EnsurePasswordFile, OpenPasswordFile, WritePasswordFile, ReadAfterRace

LEMMA ReadInstanceKnows ==
    ASSUME TypeOK, NEW o \in Op, Known(o), ReadInstance(o)
    PROVE  Known(o)'
<1>1. op[o] \in Process /\ op[o].pc = "instance"
  BY DEF TypeOK, ReadInstance, At
<1>2. op'[o].pc = "peerings" /\ op'[o].ip = ip /\ op'[o].ok = op[o].ok /\ ip' = ip
  BY <1>1 DEF ReadInstance, Hold, TypeOK, Process, Reads, cloud
<1>3. ~op[o].ok
  BY <1>1 DEF Known, GrantInv, Linked, Allowed, Placed, Planned
<1> QED BY <1>2, <1>3 DEF Known, HopInv, PlanInv, LinkInv, GroupInv, GrantInv, Choosing, Placed,
           Planned, Linked, Allowed, Addressed

LEMMA ReadPeeringsKnows ==
    ASSUME TypeOK, NEW o \in Op, Known(o), ReadPeerings(o)
    PROVE  Known(o)'
<1>1. op[o] \in Process /\ op[o].pc = "peerings"
  BY DEF TypeOK, ReadPeerings, At
<1> DEFINE plan == PlanPeering(o)
<1>2. /\ plan.act = "create" => plan.hop = None
      /\ plan.act \in {"accept", "reuse"} => plan.hop \in Peer
      /\ plan.act = "reuse" => peering[plan.hop] = "Activated"
  <2>1. Live # {} => (CHOOSE q \in Live : TRUE) \in Peer
    BY DEF Live
  <2> QED BY <2>1 DEF PlanPeering
<1> HIDE DEF plan
<1>3. /\ op'[o].pc = "routes" /\ op'[o].act = plan.act /\ op'[o].hop = plan.hop
      /\ op'[o].ok = op[o].ok /\ op'[o].ip = op[o].ip /\ UNCHANGED <<ip, peering>>
  BY <1>1 DEF ReadPeerings, Hold, TypeOK, Process, Reads, cloud, plan
<1>4. "ip" \in stale[o] => "ip" \in stale'[o]
  BY DEF ReadPeerings, Refresh, TypeOK
<1>5. ~op[o].ok
  BY <1>1 DEF Known, GrantInv, Linked, Allowed, Placed, Planned
<1>6. "ip" \in stale'[o] \/ op'[o].ip = ip'
  BY <1>1, <1>3, <1>4 DEF Known, GroupInv, Addressed
<1> QED BY <1>2, <1>3, <1>5, <1>6 DEF Known, HopInv, PlanInv, LinkInv, GroupInv, GrantInv,
           Choosing, Placed, Planned, Linked, Allowed, Addressed

LEMMA ReadRoutesKnows ==
    ASSUME TypeOK, NEW o \in Op, Known(o), ReadRoutes(o)
    PROVE  Known(o)'
<1> DEFINE missing == { t \in Table : PlanRoute(routes[t], op[o].hop) = "create" }
<1>1. op[o] \in Process /\ op[o].pc = "routes" /\ stale \in [Op -> SUBSET Fact]
  BY DEF TypeOK, ReadRoutes, At
<1>2. CASE Fails(o)
  BY <1>2, FailedKnows
<1>3. CASE /\ \A t \in Table : PlanRoute(routes[t], op[o].hop) # "refuse"
           /\ Hold(o, [op[o] EXCEPT !.pc = "groups", !.todo = missing, !.added = missing])
  <2> HIDE DEF missing
  <2>1. /\ op'[o].pc = "groups" /\ op'[o].todo = missing /\ op'[o].added = missing
        /\ op'[o].act = op[o].act /\ op'[o].hop = op[o].hop
        /\ op'[o].ok = op[o].ok /\ op'[o].ip = op[o].ip
    BY <1>1, <1>3 DEF Hold, TypeOK, Process
  <2>2. UNCHANGED <<ip, peering, routes>>
    BY DEF ReadRoutes, Reads, cloud
  <2>3. stale'[o] = stale[o] \ Table
    BY <1>1 DEF ReadRoutes, Refresh
  <2>4. ~op[o].ok
    BY <1>1 DEF Known, GrantInv, Linked, Allowed, Placed, Planned
  <2>5. HopInv(o)'
    BY <1>1, <2>1, <2>2, <2>3 DEF Known, HopInv, Choosing, Table
  <2>6. PlanInv(o)'
    <3>1. op[o].act = "create" => missing = Table
      <4>1. op[o].act = "create" => op[o].hop = None
        BY <1>1 DEF Known, HopInv
      <4> QED BY <1>3, <4>1 DEF missing, PlanRoute
    <3>2. \A t \in Table \ missing : op[o].hop \in Peer /\ Best(routes[t]) = op[o].hop
      BY <1>1, <1>3 DEF missing, PlanRoute, Process
    <3>3. \A t \in missing : routes[t].net \notin Peer
      BY NoneAssumption DEF missing, PlanRoute, Best
    <3>4. missing \subseteq Table
      BY DEF missing
    <3> QED BY <2>1, <2>2, <3>1, <3>2, <3>3, <3>4 DEF PlanInv, Best, Placed, Planned
  <2>7. GroupInv(o)'
    BY <1>1, <2>1, <2>2, <2>3 DEF Known, GroupInv, Addressed, Placed, Planned, Allowed, Table
  <2>8. LinkInv(o)' /\ GrantInv(o)'
    BY <2>1, <2>4 DEF LinkInv, GrantInv, Linked, Allowed
  <2> QED BY <2>5, <2>6, <2>7, <2>8 DEF Known
<1> QED BY <1>2, <1>3 DEF ReadRoutes

LEMMA ReadGroupsKnows ==
    ASSUME TypeOK, NEW o \in Op, Known(o), ReadGroups(o)
    PROVE  Known(o)'
<1>1. op[o] \in Process /\ op[o].pc = "groups" /\ stale \in [Op -> SUBSET Fact]
  BY DEF TypeOK, ReadGroups, At
<1>2. /\ op'[o].pc \in {"verify", "peer"} /\ op'[o].cover = (group # op[o].ip)
      /\ op'[o].todo = op[o].todo /\ op'[o].added = op[o].added
      /\ op'[o].act = op[o].act /\ op'[o].hop = op[o].hop
      /\ op'[o].ok = op[o].ok /\ op'[o].ip = op[o].ip
  BY <1>1 DEF ReadGroups, Hold, TypeOK, Process
<1>3. UNCHANGED <<ip, peering, routes, group>>
  BY DEF ReadGroups, Reads, cloud
<1>4. stale'[o] = stale[o] \ {"group"}
  BY <1>1 DEF ReadGroups, Refresh
<1>5. ~op[o].ok
  BY <1>1 DEF Known, GrantInv, Linked, Allowed, Placed, Planned
<1>6. HopInv(o)'
  BY <1>1, <1>2, <1>3, <1>4 DEF Known, HopInv, Choosing
<1>7. PlanInv(o)'
  BY <1>1, <1>2, <1>3, <1>4 DEF Known, PlanInv, Placed, Planned, Best, Table
<1>8. GroupInv(o)'
  BY <1>1, <1>2, <1>3, <1>4 DEF Known, GroupInv, Addressed, Placed, Planned, Allowed
<1>9. LinkInv(o)' /\ GrantInv(o)'
  BY <1>2, <1>5 DEF LinkInv, GrantInv, Linked, Allowed
<1> QED BY <1>6, <1>7, <1>8, <1>9 DEF Known

LEMMA VerifyBeforeKnows ==
    ASSUME TypeOK, SecretInv, NEW o \in Op, Known(o), VerifyBefore(o)
    PROVE  Known(o)'
<1>1. op[o] \in Process /\ op[o].pc = "verify" /\ stale \in [Op -> SUBSET Fact]
  BY DEF TypeOK, VerifyBefore, At
<1>2. ~op[o].ok
  BY <1>1 DEF Known, GrantInv, Linked, Allowed, Placed, Planned
<1>3. /\ op'[o].pc = "peer" /\ op'[o].cover = op[o].cover
      /\ op'[o].todo = op[o].todo /\ op'[o].added = op[o].added
      /\ op'[o].act = op[o].act /\ op'[o].hop = op[o].hop /\ op'[o].ip = op[o].ip
      /\ op'[o].ok => GrantsHold(o)
  <2>1. CASE Goto(o, "peer")
    BY <1>1, <1>2, <2>1 DEF Goto, TypeOK, Process
  <2>2. CASE Hold(o, [op[o] EXCEPT !.pc = "peer", !.ok = GrantsHold(o)])
    BY <1>1, <2>2 DEF Hold, TypeOK, Process
  <2> QED BY <2>1, <2>2 DEF VerifyBefore
<1>4. UNCHANGED <<file, ip, peering, routes, group, account, grants>>
  BY DEF VerifyBefore, cloud
<1>5. stale'[o] = stale[o] \ {"grants"}
  BY <1>1 DEF VerifyBefore, Refresh
<1>6. op[o].pw = file /\ file \in Op
  BY <1>1 DEF SecretInv, Informed, Rest, Early, Process
<1>7. HopInv(o)'
  BY <1>1, <1>3, <1>4, <1>5 DEF Known, HopInv, Choosing
<1>8. PlanInv(o)'
  BY <1>1, <1>3, <1>4, <1>5 DEF Known, PlanInv, Placed, Planned, Best, Table
<1>9. GroupInv(o)'
  BY <1>1, <1>3, <1>4, <1>5 DEF Known, GroupInv, Addressed, Placed, Planned, Allowed
<1>10. LinkInv(o)'
  BY <1>3 DEF LinkInv, Linked, Allowed
<1>11. GrantInv(o)'
  BY <1>3, <1>4, <1>6 DEF GrantInv, GrantsHold, Linked, Placed, Planned
<1> QED BY <1>7, <1>8, <1>9, <1>10, <1>11 DEF Known

\* The steps towards an active peering.
LEMMA PeeringKnows ==
    ASSUME TypeOK, NEW o \in Op, Known(o),
           \/ CreatePeering(o) \/ AcceptPeering(o) \/ ReusePeering(o) \/ PeeringActivated(o)
    PROVE  Known(o)'
<1>1. /\ op[o] \in Process /\ op[o].pc \in {"peer", "activated"}
      /\ stale \in [Op -> SUBSET Fact] /\ peering \in [Peer -> Status]
  BY DEF TypeOK, CreatePeering, AcceptPeering, ReusePeering, PeeringActivated, At
<1>2. UNCHANGED <<file, ip, routes, group, account, grants>> /\ stale'[o] = stale[o]
  BY <1>1 DEF CreatePeering, AcceptPeering, ReusePeering, PeeringActivated, LeavesHistory,
     history, cloud, Outdate, Others
<1>3. CASE Fails(o)
  BY <1>3, FailedKnows
<1>4. ASSUME NEW step \in {"activated", "relist"}, NEW hop,
             op'[o] = [op[o] EXCEPT !.pc = step, !.hop = hop],
             hop = op[o].hop \/ op[o].act = "create",
             hop \in Peer,
             step = "relist" => "peerings" \in stale[o] \/ peering'[hop] = "Activated"
      PROVE  Known(o)'
  <2>1. /\ op'[o].pc = step /\ op'[o].cover = op[o].cover /\ op'[o].hop = hop
        /\ op'[o].todo = op[o].todo /\ op'[o].added = op[o].added
        /\ op'[o].act = op[o].act /\ op'[o].ip = op[o].ip /\ op'[o].ok = op[o].ok
    BY <1>1, <1>4 DEF Process
  <2>2. HopInv(o)'
    BY <1>2, <1>4, <2>1 DEF HopInv, Choosing
  <2>3. PlanInv(o)'
    <3>1. op[o].act = "create" => op[o].added = Table
      BY <1>1 DEF Known, PlanInv, Placed, Planned
    <3>2. \A t \in Table \ op[o].added :
             t \in stale[o] \/ (hop \in Peer /\ Best(routes[t]) = hop)
      BY <1>1, <1>4, <3>1 DEF Known, PlanInv, Placed, Planned
    <3> QED BY <1>1, <1>2, <2>1, <3>2 DEF Known, PlanInv, Placed, Planned, Best
  <2>4. GroupInv(o)'
    BY <1>1, <1>2, <2>1 DEF Known, GroupInv, Addressed, Placed, Planned, Allowed
  <2>5. LinkInv(o)'
    BY <2>1 DEF LinkInv, Linked, Allowed
  <2>6. GrantInv(o)'
    BY <1>1, <1>2, <2>1 DEF Known, GrantInv, Linked, Placed, Planned
  <2> QED BY <2>2, <2>3, <2>4, <2>5, <2>6 DEF Known
<1>5. CASE CreatePeering(o)
  <2> DEFINE unborn == { p \in Peer : peering[p] = "unborn" }
             p == CHOOSE q \in unborn : TRUE
  <2>1. CASE unborn # {}
    <3>1. p \in Peer
      BY <2>1
    <3>2. op[o].act = "create" /\ Hold(o, [op[o] EXCEPT !.pc = "activated", !.hop = p])
      BY <1>5, <2>1 DEF CreatePeering
    <3> HIDE DEF p
    <3>3. op'[o] = [op[o] EXCEPT !.pc = "activated", !.hop = p]
      BY <3>2 DEF Hold, TypeOK
    <3> QED BY <1>4, <3>1, <3>2, <3>3
  <2> QED BY <1>3, <1>5, <2>1 DEF CreatePeering
<1>6. ASSUME NEW step \in {"activated", "relist"}, Goto(o, step)
      PROVE  op'[o] = [op[o] EXCEPT !.pc = step, !.hop = op[o].hop]
  BY <1>1, <1>6 DEF Goto, TypeOK, Process
<1>7. CASE AcceptPeering(o)
  <2>1. op[o].hop \in Peer
    BY <1>7 DEF AcceptPeering, At, Known, HopInv, Choosing
  <2> QED BY <1>3, <1>4, <1>6, <1>7, <2>1 DEF AcceptPeering
<1>8. CASE ReusePeering(o)
  <2>1. op[o].hop \in Peer /\ ("peerings" \in stale[o] \/ peering'[op[o].hop] = "Activated")
    BY <1>8 DEF ReusePeering, At, Known, HopInv, Choosing, cloud
  <2> QED BY <1>4, <1>6, <1>8, <2>1 DEF ReusePeering
<1>9. CASE PeeringActivated(o)
  <2>1. op[o].hop \in Peer /\ UNCHANGED peering
    BY <1>9 DEF PeeringActivated, At, Known, HopInv, cloud
  <2> QED BY <1>3, <1>4, <1>6, <1>9, <2>1 DEF PeeringActivated
<1> QED BY <1>5, <1>7, <1>8, <1>9

\* A process all of whose routes are there is connected.
LEMMA ConnectedKnows ==
    ASSUME TypeOK, NEW o \in Op, Known(o), Hold(o, ConnectedThen(o)),
           op[o].pc \in {"relist", "routed"}, UNCHANGED <<file, cloud, stale>>,
           \/ "peerings" \in stale[o]
           \/ /\ op[o].hop \in Peer /\ peering[op[o].hop] = "Activated"
              /\ \A t \in Table : t \in stale[o] \/ Best(routes[t]) = op[o].hop
    PROVE  Known(o)'
<1>1. op[o] \in Process
  BY DEF TypeOK
<1>2. op'[o].pc = "group" /\ op'[o].cover = op[o].cover
      /\ op'[o].ip = op[o].ip /\ op'[o].ok = op[o].ok
  BY <1>1 DEF Hold, ConnectedThen, TypeOK, Process
<1>3. HopInv(o)' /\ PlanInv(o)'
  BY <1>2 DEF HopInv, PlanInv, Choosing, Placed, Planned
<1>4. LinkInv(o)'
  BY DEF LinkInv, Best, cloud
<1>5. GroupInv(o)'
  BY <1>2 DEF Known, GroupInv, Addressed, Placed, Planned, Allowed, cloud
<1>6. GrantInv(o)'
  BY <1>2 DEF Known, GrantInv, Linked, Placed, Planned, cloud
<1> QED BY <1>3, <1>4, <1>5, <1>6 DEF Known

LEMMA ListAgainKnows ==
    ASSUME TypeOK, NEW o \in Op, Known(o), ListAgain(o)
    PROVE  Known(o)'
<1>1. /\ op[o] \in Process /\ op[o].pc = "relist" /\ UNCHANGED <<file, cloud, stale>>
  BY DEF TypeOK, ListAgain, At, LeavesHistory, history
<1>2. "peerings" \in stale[o] \/ (op[o].hop \in Peer /\ peering[op[o].hop] = "Activated")
  BY <1>1 DEF Known, HopInv
<1>3. /\ op[o].todo = op[o].added
      /\ op[o].act = "create" => op[o].added = Table
      /\ \A t \in Table \ op[o].added :
            t \in stale[o] \/ (op[o].hop \in Peer /\ Best(routes[t]) = op[o].hop)
      /\ \A t \in op[o].todo : routes[t].net \notin Peer
  BY <1>1 DEF Known, PlanInv, Placed, Planned
<1>4. CASE Fails(o)
  BY <1>4, FailedKnows
<1>5. CASE op[o].todo = {} /\ Hold(o, ConnectedThen(o))
  BY <1>1, <1>2, <1>3, <1>5, ConnectedKnows
<1>6. ASSUME NEW p, Hold(o, [op[o] EXCEPT !.pc = "route", !.hop = p]),
             \/ op[o].act = "create" /\ p \in Peer /\ peering[p] = "Activated"
             \/ p = op[o].hop
      PROVE  Known(o)'
  <2>1. /\ op'[o].pc = "route" /\ op'[o].cover = op[o].cover /\ op'[o].hop = p
        /\ op'[o].todo = op[o].todo /\ op'[o].added = op[o].added
        /\ op'[o].act = op[o].act /\ op'[o].ip = op[o].ip /\ op'[o].ok = op[o].ok
    BY <1>1, <1>6 DEF Hold, TypeOK, Process
  <2>2. HopInv(o)'
    BY <1>1, <1>2, <1>6, <2>1 DEF HopInv, Choosing, cloud
  <2>3. PlanInv(o)'
    BY <1>1, <1>3, <1>6, <2>1 DEF PlanInv, Placed, Planned, cloud, Best
  <2>4. GroupInv(o)'
    BY <1>1, <2>1 DEF Known, GroupInv, Addressed, Placed, Planned, Allowed, cloud
  <2>5. LinkInv(o)'
    BY <2>1 DEF LinkInv, Linked, Allowed
  <2>6. GrantInv(o)'
    BY <1>1, <2>1 DEF Known, GrantInv, Linked, Placed, Planned, cloud
  <2> QED BY <2>2, <2>3, <2>4, <2>5, <2>6 DEF Known
<1> QED BY <1>4, <1>5, <1>6 DEF ListAgain

LEMMA CreateRouteKnows ==
    ASSUME TypeOK, OrderInv, NEW o \in Op, Known(o), CreateRoute(o)
    PROVE  Known(o)'
<1> DEFINE u == IF "gateway" \in op[o].todo THEN "gateway" ELSE "database"
           rest == op[o].todo \ {u}
           step == IF rest = {} THEN "routed" ELSE "route"
<1>1. /\ op[o] \in Process /\ op[o].pc = "route"
      /\ routes \in [Table -> [host : Hop, net : Hop]]
      /\ UNCHANGED <<file, peering, ip, group, account, grants, stale>>
  BY DEF TypeOK, CreateRoute, At, LeavesHistory, history
<1>2. /\ op[o].todo \subseteq op[o].added
      /\ op[o].act = "create" => op[o].added = Table
      /\ \A t \in Table \ op[o].added :
            t \in stale[o] \/ (op[o].hop \in Peer /\ Best(routes[t]) = op[o].hop)
      /\ \A t \in op[o].todo : routes[t].net \notin Peer
  BY <1>1 DEF Known, PlanInv, Placed, Planned
<1>3. u \in op[o].todo /\ u \in Table
  <2>1. op[o].todo \in SUBSET Table /\ op[o].todo # {}
    BY <1>1 DEF Process, OrderInv, Orderly
  <2> QED BY <2>1 DEF Table
<1>4. CASE Fails(o)
  BY <1>4, FailedKnows
<1>5. CASE /\ routes' = [routes EXCEPT ![u].host = op[o].hop]
           /\ Hold(o, [op[o] EXCEPT !.pc = step, !.todo = rest])
  <2>0. step \in {"route", "routed"} /\ rest \subseteq op[o].todo
    OBVIOUS
  <2> HIDE DEF u, rest, step
  <2>1. /\ op'[o].pc = step /\ op'[o].cover = op[o].cover /\ op'[o].hop = op[o].hop
        /\ op'[o].todo = rest /\ op'[o].added = op[o].added
        /\ op'[o].act = op[o].act /\ op'[o].ip = op[o].ip /\ op'[o].ok = op[o].ok
    BY <1>1, <1>5 DEF Hold, TypeOK, Process
  <2>2. /\ \A t \in Table : routes'[t].net = routes[t].net
        /\ \A t \in Table \ {u} : routes'[t] = routes[t]
    BY <1>1, <1>3, <1>5
  <2>3. HopInv(o)'
    BY <1>1, <2>0, <2>1 DEF Known, HopInv, Choosing
  <2>4. PlanInv(o)'
    <3>1. \A t \in Table \ op[o].added :
             t \in stale[o] \/ (op[o].hop \in Peer /\ Best(routes'[t]) = op[o].hop)
      BY <1>2, <1>3, <2>2
    <3>2. \A t \in rest : routes'[t].net \notin Peer
      BY <1>1, <1>2, <2>0, <2>2 DEF Process
    <3> QED BY <1>1, <1>2, <2>0, <2>1, <3>1, <3>2 DEF PlanInv, Placed, Best
  <2>5. GroupInv(o)'
    BY <1>1, <2>0, <2>1 DEF Known, GroupInv, Addressed, Placed, Planned, Allowed
  <2>6. LinkInv(o)'
    BY <2>0, <2>1 DEF LinkInv, Linked, Allowed
  <2>7. GrantInv(o)'
    BY <1>1, <2>0, <2>1 DEF Known, GrantInv, Linked, Placed, Planned
  <2> QED BY <2>3, <2>4, <2>5, <2>6, <2>7 DEF Known
<1> QED BY <1>4, <1>5 DEF CreateRoute

LEMMA RoutesSeenKnows ==
    ASSUME TypeOK, NEW o \in Op, Known(o), RoutesSeen(o)
    PROVE  Known(o)'
<1>1. op[o] \in Process /\ op[o].pc = "routed" /\ UNCHANGED <<file, cloud, stale>>
  BY DEF TypeOK, RoutesSeen, At, LeavesHistory, history
<1>2. "peerings" \in stale[o] \/ (op[o].hop \in Peer /\ peering[op[o].hop] = "Activated")
  BY <1>1 DEF Known, HopInv
<1>3. \A t \in Table \ op[o].added :
         t \in stale[o] \/ (op[o].hop \in Peer /\ Best(routes[t]) = op[o].hop)
  BY <1>1 DEF Known, PlanInv, Placed
<1>4. CASE Fails(o)
  BY <1>4, FailedKnows
<1>5. CASE (\A t \in op[o].added : routes[t].host = op[o].hop) /\ Hold(o, ConnectedThen(o))
  <2>1. \/ "peerings" \in stale[o]
        \/ /\ op[o].hop \in Peer /\ peering[op[o].hop] = "Activated"
           /\ \A t \in Table : t \in stale[o] \/ Best(routes[t]) = op[o].hop
    BY <1>2, <1>3, <1>5, NoneAssumption DEF Best
  <2> QED BY <1>1, <1>5, <2>1, ConnectedKnows
<1> QED BY <1>4, <1>5 DEF RoutesSeen

\* The group holds the address of the appliance.
LEMMA AllowedKnows ==
    ASSUME TypeOK, NEW o \in Op, Known(o), Hold(o, AllowedThen(o)),
           op[o].pc \in {"group", "covered"}, UNCHANGED <<file, cloud, stale>>,
           "group" \in stale[o] \/ group = op[o].ip
    PROVE  Known(o)'
<1>1. op[o] \in Process
  BY DEF TypeOK
<1>2. op'[o].pc = "account" /\ op'[o].ok = op[o].ok
  BY <1>1 DEF Hold, AllowedThen, TypeOK, Process
<1>3. HopInv(o)' /\ PlanInv(o)'
  BY <1>2 DEF HopInv, PlanInv, Choosing, Placed, Planned
<1>4. LinkInv(o)'
  BY <1>2 DEF Known, LinkInv, Linked, Allowed, Best, cloud
<1>5. GroupInv(o)'
  BY <1>2 DEF Known, GroupInv, Addressed, Placed, Planned, Allowed, cloud
<1>6. GrantInv(o)'
  BY <1>2 DEF Known, GrantInv, Linked, Allowed, cloud
<1> QED BY <1>3, <1>4, <1>5, <1>6 DEF Known

LEMMA GroupKnows ==
    ASSUME TypeOK, NEW o \in Op, Known(o), SetWhitelistGroup(o) \/ GroupSeen(o)
    PROVE  Known(o)'
<1>1. /\ op[o] \in Process /\ op[o].pc \in {"group", "covered"}
      /\ stale \in [Op -> SUBSET Fact]
  BY DEF TypeOK, SetWhitelistGroup, GroupSeen, At
<1>2. CASE Fails(o)
  BY <1>2, FailedKnows
<1>3. CASE /\ SetWhitelistGroup(o) /\ ~op[o].cover
           /\ Hold(o, AllowedThen(o)) /\ UNCHANGED <<group, stale>>
  <2>1. UNCHANGED <<file, cloud, stale>> /\ op[o].pc = "group"
    BY <1>3 DEF SetWhitelistGroup, cloud, At
  <2>2. "group" \in stale[o] \/ group = op[o].ip
    BY <1>3, <2>1 DEF Known, GroupInv
  <2> QED BY <1>3, <2>1, <2>2, AllowedKnows
<1>4. CASE GroupSeen(o) /\ group = op[o].ip
  <2>1. UNCHANGED <<file, cloud, stale>> /\ op[o].pc = "covered" /\ Hold(o, AllowedThen(o))
    BY <1>4 DEF GroupSeen, LeavesHistory, history, At
  <2> QED BY <1>4, <2>1, AllowedKnows
<1>5. CASE SetWhitelistGroup(o) /\ Goto(o, "covered") /\ Outdate(Others(o), {"group"})
  <2>1. /\ op'[o].pc = "covered" /\ op'[o].ok = op[o].ok /\ op'[o].ip = op[o].ip
        /\ stale'[o] = stale[o]
    BY <1>1, <1>5 DEF Goto, Outdate, Others, TypeOK, Process
  <2>2. UNCHANGED <<file, peering, routes, ip, account, grants>> /\ op[o].pc = "group"
    BY <1>5 DEF SetWhitelistGroup, At
  <2>3. HopInv(o)' /\ PlanInv(o)'
    BY <2>1 DEF HopInv, PlanInv, Choosing, Placed, Planned
  <2>4. LinkInv(o)'
    BY <2>1, <2>2 DEF Known, LinkInv, Linked, Allowed, Best
  <2>5. GroupInv(o)'
    BY <2>1, <2>2 DEF Known, GroupInv, Addressed, Placed, Planned, Allowed
  <2>6. GrantInv(o)'
    BY <2>1, <2>2 DEF Known, GrantInv, Linked, Allowed
  <2> QED BY <2>3, <2>4, <2>5, <2>6 DEF Known
<1> QED BY <1>2, <1>3, <1>4, <1>5 DEF SetWhitelistGroup, GroupSeen

\* The account and the statements leave alone what was made before them.
LEMMA AccountKnows ==
    ASSUME TypeOK, SecretInv, OrderInv, NEW o \in Op, Known(o),
           CreateAccount(o) \/ RunStatements(o) \/ VerifyGrants(o)
    PROVE  Known(o)'
<1>1. /\ op[o] \in Process /\ op[o].pc \in {"account", "grant", "granted"}
      /\ stale \in [Op -> SUBSET Fact]
      /\ UNCHANGED <<file, peering, routes, ip, group>>
  BY DEF TypeOK, CreateAccount, RunStatements, VerifyGrants, At, Reads, cloud
<1>2. op[o].pw = file /\ file \in Op
  BY <1>1 DEF SecretInv, Informed, Rest, Early, Process
<1>3. \A fact \in {"peerings", "ip", "group"} \cup Table : fact \in stale[o] => fact \in stale'[o]
  BY <1>1 DEF CreateAccount, RunStatements, VerifyGrants, LeavesHistory, history, Refresh, Table
<1>4. CASE Fails(o)
  BY <1>4, FailedKnows
<1>5. ASSUME op'[o].pc \in {"grant", "granted", "done"}, GrantInv(o)'
      PROVE  Known(o)'
  <2>1. HopInv(o)' /\ PlanInv(o)'
    BY <1>5 DEF HopInv, PlanInv, Choosing, Placed, Planned
  <2>2. LinkInv(o)'
    BY <1>1, <1>3, <1>5 DEF Known, LinkInv, Linked, Allowed, Best
  <2>3. GroupInv(o)'
    BY <1>1, <1>3, <1>5 DEF Known, GroupInv, Addressed, Placed, Planned, Allowed
  <2> QED BY <1>5, <2>1, <2>2, <2>3 DEF Known
<1>6. CASE CreateAccount(o) /\ Hold(o, GrantThen(o))
  <2>1. op'[o].pc = "grant" /\ op'[o].ok = op[o].ok
    BY <1>1, <1>6 DEF Hold, GrantThen, TypeOK, Process
  <2>2. UNCHANGED <<stale, grants>> /\ (account = None \/ UNCHANGED account)
    BY <1>6 DEF CreateAccount, LeavesHistory, history
  <2>3. GrantInv(o)'
    BY <1>1, <2>1, <2>2, NoneAssumption DEF Known, GrantInv, Linked, Allowed
  <2> QED BY <1>5, <2>1, <2>3
<1>7. CASE RunStatements(o)
  <2>0. UNCHANGED <<stale, account>> /\ op[o].pc = "grant"
    BY <1>7 DEF RunStatements, LeavesHistory, history, At
  <2>1. CASE op[o].ok /\ Hold(o, [Blank EXCEPT !.pc = "done"]) /\ UNCHANGED grants
    <3>1. op'[o].pc = "done" /\ ~op'[o].ok
      BY <2>1 DEF Hold, Blank, TypeOK
    <3>2. GrantInv(o)'
      BY <1>1, <2>0, <2>1, <3>1 DEF Known, GrantInv, Linked, Allowed
    <3> QED BY <1>5, <3>1, <3>2
  <2>2. CASE ~op[o].ok
    <3>1. ASSUME NEW step \in {"granted", "grant"}, NEW ran,
                 Hold(o, [op[o] EXCEPT !.pc = step, !.ran = ran])
          PROVE  Known(o)'
      <4>1. op'[o].pc = step /\ op'[o].ok = op[o].ok
        BY <1>1, <3>1 DEF Hold, TypeOK, Process
      <4>2. GrantInv(o)'
        BY <2>2, <4>1 DEF GrantInv
      <4> QED BY <1>5, <4>1, <4>2
    <3> QED BY <1>4, <1>7, <2>2, <3>1 DEF RunStatements
  <2> QED BY <1>7, <2>1, <2>2 DEF RunStatements
<1>8. CASE VerifyGrants(o) /\ GrantsHold(o)
  <2>1. op'[o].pc = "done" /\ ~op'[o].ok /\ UNCHANGED <<account, grants>>
    BY <1>8 DEF VerifyGrants, Hold, Blank, TypeOK, Reads, cloud
  <2>2. GrantInv(o)'
    BY <1>1, <1>2, <1>8, <2>1 DEF GrantInv, GrantsHold
  <2> QED BY <1>5, <2>1, <2>2
<1> QED BY <1>4, <1>6, <1>7, <1>8 DEF CreateAccount, VerifyGrants

LEMMA OwnKnows ==
    ASSUME TypeOK, OrderInv, SecretInv, NEW o \in Op, Known(o),
           Apply(o) \/ Start(o) \/ Dies(o)
    PROVE  Known(o)'
<1>1. CASE Start(o)
  <2>1. op'[o].pc = "file" /\ ~op'[o].ok
    BY <1>1 DEF Start, Hold, Blank, TypeOK
  <2> QED BY <2>1, Ignorant DEF Early
<1>2. CASE Dies(o)
  BY <1>2, FailedKnows DEF Dies
<1> QED BY <1>1, <1>2, SecretKnows, ReadInstanceKnows, ReadPeeringsKnows, ReadRoutesKnows,
           ReadGroupsKnows, VerifyBeforeKnows, PeeringKnows, ListAgainKnows, CreateRouteKnows,
           RoutesSeenKnows, GroupKnows, AccountKnows
        DEF Apply, Discover, ApplyConnectivity, ApplyRest

-----------------------------------------------------------------------------
(* The steps keep the invariant of the password. *)

LEMMA InstanceHeld ==
    ASSUME TypeOK, NEW o \in Op, NEW pw,
           Hold(o, [op[o] EXCEPT !.pc = "instance", !.pw = pw])
    PROVE  op'[o].pc = "instance" /\ op'[o].pw = pw
<1>1. op[o] \in Process /\ op \in [Op -> Process]
  BY DEF TypeOK
<1> DEFINE r == [op[o] EXCEPT !.pc = "instance", !.pw = pw]
<1>2. r.pc = "instance" /\ r.pw = pw
  BY <1>1 DEF Process
<1>3. op'[o] = r
  BY <1>1 DEF Hold
<1> QED BY <1>2, <1>3

LEMMA SecretStepKeeps ==
    ASSUME TypeOK, SecretInv, NEW o \in Op, SecretStep(o)
    PROVE  SecretInv'
<1> USE DEF SecretInv, At
<1>0. op \in [Op -> Process] /\ file \in Op \cup {None, "empty"}
  BY DEF TypeOK
<1>1. CASE EnsurePasswordFile(o)
  <2>1. \A q \in Op : q # o => op'[q] = op[q]
    BY <1>0, <1>1 DEF EnsurePasswordFile, Goto, Hold
  <2>2. UNCHANGED file
    BY <1>1 DEF EnsurePasswordFile
  <2>3. CASE file \in {None, "empty"}
    <3>1. op'[o].pc = "open"
      BY <1>0, <1>1, <2>3 DEF EnsurePasswordFile, Goto, Process
    <3> QED BY <2>1, <2>2, <3>1 DEF Informed, Early
  <2>4. CASE file \notin {None, "empty"}
    <3>1. op'[o].pc = "instance" /\ op'[o].pw = file
      BY <1>1, <2>4, InstanceHeld DEF EnsurePasswordFile
    <3>2. file \in Op
      BY <1>0, <2>4
    <3> QED BY <2>1, <2>2, <3>1, <3>2
  <2> QED BY <2>3, <2>4
<1>2. CASE OpenPasswordFile(o)
  <2>1. \A q \in Op : q # o => op'[q] = op[q]
    BY <1>0, <1>2 DEF OpenPasswordFile, Goto
  <2>2. CASE file = None
    <3>1. \A q \in Op : op[q].pc # "write" /\ op[q].pc \notin Informed
      BY <2>2, NoneAssumption, SecretAssumption
    <3>2. file' = "empty" /\ op'[o].pc = "write"
      BY <1>0, <1>2, <2>2 DEF OpenPasswordFile, Goto, Process
    <3> QED BY <2>1, <3>1, <3>2, SecretAssumption DEF Informed, Early
  <2>3. CASE file # None
    <3>1. UNCHANGED file /\ op'[o].pc = "reread"
      BY <1>0, <1>2, <2>3 DEF OpenPasswordFile, Goto, Process
    <3> QED BY <2>1, <2>3, <3>1 DEF Informed, Early
  <2> QED BY <2>2, <2>3
<1>3. CASE WritePasswordFile(o)
  <2>1. \A q \in Op : q # o => op'[q] = op[q]
    BY <1>0, <1>3 DEF WritePasswordFile, Hold
  <2>2. op'[o].pc = "instance" /\ op'[o].pw = o /\ file' = o /\ op[o].pc = "write"
    BY <1>0, <1>3 DEF WritePasswordFile, Hold, Process
  <2>3. \A q \in Op : op[q].pc \notin Informed
    BY <2>2, SecretAssumption
  <2>4. \A q \in Op : q # o => op'[q].pc # "write"
    BY <2>1, <2>2
  <2> QED BY <2>1, <2>2, <2>3, <2>4, NoneAssumption
<1>4. CASE ReadAfterRace(o)
  <2>1. \A q \in Op : q # o => op'[q] = op[q]
    BY <1>0, <1>4 DEF ReadAfterRace, Fails, Hold
  <2>2. UNCHANGED file
    BY <1>4 DEF ReadAfterRace
  <2>3. CASE file = "empty"
    <3>1. op'[o].pc = "failed"
      BY <1>0, <1>4, <2>3 DEF ReadAfterRace, Fails, Hold, Blank
    <3> QED BY <2>1, <2>2, <3>1 DEF Informed, Rest
  <2>4. CASE file # "empty"
    <3>1. file \in Op
      BY <1>0, <1>4, <2>4 DEF ReadAfterRace
    <3>2. op'[o].pc = "instance" /\ op'[o].pw = file
      BY <1>4, <2>4, InstanceHeld DEF ReadAfterRace
    <3> QED BY <2>1, <2>2, <3>1, <3>2
  <2> QED BY <2>3, <2>4
<1> QED BY <1>1, <1>2, <1>3, <1>4 DEF SecretStep

\* What every other step does to the password: nothing, unless the run ends or
\* begins.
Carries(o) ==
    /\ UNCHANGED file
    /\ \A q \in Op : q # o => op'[q] = op[q]
    /\ \/ op'[o].pc \in Rest \cup {"file"}
       \/ op[o].pc \in Informed /\ op'[o].pc \in Informed /\ op'[o].pw = op[o].pw

LEMMA CarriedIsKept ==
    ASSUME SecretInv, NEW o \in Op, Carries(o)
    PROVE  SecretInv'
BY DEF SecretInv, Carries, At, Informed, Early, Rest

LEMMA FailCarries ==
    ASSUME TypeOK, NEW o \in Op, UNCHANGED file, NEW step \in Rest \cup {"file"},
           Hold(o, [Blank EXCEPT !.pc = step])
    PROVE  Carries(o)
BY DEF Carries, Hold, Blank, TypeOK

LEMMA HoldCarries ==
    ASSUME TypeOK, NEW o \in Op, UNCHANGED file, NEW r, Hold(o, r),
           op[o].pc \in Informed, r.pc \in Informed, r.pw = op[o].pw
    PROVE  Carries(o)
BY DEF Carries, Hold, TypeOK

LEMMA GotoCarries ==
    ASSUME TypeOK, NEW o \in Op, UNCHANGED file, NEW step \in Informed, Goto(o, step),
           op[o].pc \in Informed
    PROVE  Carries(o)
BY DEF Carries, Goto, TypeOK, Process

LEMMA DiscoverCarries ==
    ASSUME TypeOK, NEW o \in Op, Discover(o)
    PROVE  Carries(o)
<1>0. op[o] \in Process
  BY DEF TypeOK
<1>1. UNCHANGED file
  BY DEF Discover, ReadInstance, ReadPeerings, ReadRoutes, ReadGroups, VerifyBefore, Reads
<1>2. op[o].pc \in Informed /\ {"peerings", "routes", "groups", "verify", "peer"} \subseteq Informed
  BY DEF Discover, ReadInstance, ReadPeerings, ReadRoutes, ReadGroups, VerifyBefore, At,
     Informed, Step, Rest, Early
<1>3. CASE ReadInstance(o)
  <2> DEFINE r == [op[o] EXCEPT !.pc = "peerings", !.exists = account # None, !.ip = ip]
  <2>1. r.pc = "peerings" /\ r.pw = op[o].pw
    BY <1>0 DEF Process
  <2>2. Hold(o, r)
    BY <1>3 DEF ReadInstance
  <2> HIDE DEF r
  <2> QED BY <1>1, <1>2, <2>1, <2>2, HoldCarries
<1>4. CASE ReadPeerings(o)
  <2> DEFINE r == [op[o] EXCEPT !.pc = "routes", !.act = PlanPeering(o).act,
                                !.hop = PlanPeering(o).hop]
  <2>1. r.pc = "routes" /\ r.pw = op[o].pw
    BY <1>0 DEF Process
  <2>2. Hold(o, r)
    BY <1>4 DEF ReadPeerings
  <2> HIDE DEF r
  <2> QED BY <1>1, <1>2, <2>1, <2>2, HoldCarries
<1>5. CASE ReadRoutes(o)
  <2>1. CASE Fails(o)
    BY <1>1, <2>1, FailCarries DEF Fails, Rest
  <2>2. ASSUME NEW missing, Hold(o, [op[o] EXCEPT !.pc = "groups", !.todo = missing,
                                                  !.added = missing])
        PROVE  Carries(o)
    <3> DEFINE r == [op[o] EXCEPT !.pc = "groups", !.todo = missing, !.added = missing]
    <3>1. r.pc = "groups" /\ r.pw = op[o].pw
      BY <1>0 DEF Process
    <3>2. Hold(o, r)
      BY <2>2
    <3> HIDE DEF r
    <3> QED BY <1>1, <1>2, <3>1, <3>2, HoldCarries
  <2> QED BY <1>5, <2>1, <2>2 DEF ReadRoutes
<1>6. CASE ReadGroups(o)
  <2> DEFINE step == IF op[o].exists THEN "verify" ELSE "peer"
             r == [op[o] EXCEPT !.pc = step, !.cover = group # op[o].ip]
  <2>1. step \in Informed
    BY <1>2
  <2>2. Hold(o, r)
    BY <1>6 DEF ReadGroups
  <2> HIDE DEF step
  <2>3. r.pc = step /\ r.pw = op[o].pw
    BY <1>0 DEF Process
  <2> HIDE DEF r
  <2> QED BY <1>1, <1>2, <2>1, <2>2, <2>3, HoldCarries
<1>7. CASE VerifyBefore(o)
  <2>1. CASE Goto(o, "peer")
    BY <1>1, <1>2, <2>1, GotoCarries
  <2>2. CASE Hold(o, [op[o] EXCEPT !.pc = "peer", !.ok = GrantsHold(o)])
    <3> DEFINE r == [op[o] EXCEPT !.pc = "peer", !.ok = GrantsHold(o)]
    <3>1. r.pc = "peer" /\ r.pw = op[o].pw
      BY <1>0 DEF Process
    <3>2. Hold(o, r)
      BY <2>2
    <3> HIDE DEF r
    <3> QED BY <1>1, <1>2, <3>1, <3>2, HoldCarries
  <2> QED BY <1>7, <2>1, <2>2 DEF VerifyBefore
<1> QED BY <1>3, <1>4, <1>5, <1>6, <1>7 DEF Discover

LEMMA ConnectivityCarries ==
    ASSUME TypeOK, NEW o \in Op, ApplyConnectivity(o)
    PROVE  Carries(o)
<1>0. op[o] \in Process
  BY DEF TypeOK
<1>1. UNCHANGED file
  BY DEF ApplyConnectivity, CreatePeering, AcceptPeering, ReusePeering, PeeringActivated,
     ListAgain, CreateRoute, RoutesSeen
<1>2. /\ op[o].pc \in Informed
      /\ {"activated", "relist", "route", "routed", "group"} \subseteq Informed
  BY DEF ApplyConnectivity, CreatePeering, AcceptPeering, ReusePeering, PeeringActivated,
     ListAgain, CreateRoute, RoutesSeen, At, Informed, Step, Rest, Early
<1>3. CASE Fails(o)
  BY <1>1, <1>3, FailCarries DEF Fails, Rest
<1>4. CASE Goto(o, "activated") \/ Goto(o, "relist")
  BY <1>1, <1>2, <1>4, GotoCarries
<1>5. CASE Hold(o, ConnectedThen(o))
  <2>1. ConnectedThen(o).pc = "group" /\ ConnectedThen(o).pw = op[o].pw
    BY <1>0 DEF ConnectedThen, Process
  <2> QED BY <1>1, <1>2, <1>5, <2>1, HoldCarries
<1>6. ASSUME NEW step \in {"activated", "route"}, NEW p,
             Hold(o, [op[o] EXCEPT !.pc = step, !.hop = p])
      PROVE  Carries(o)
  <2> DEFINE r == [op[o] EXCEPT !.pc = step, !.hop = p]
  <2>1. r.pc = step /\ r.pw = op[o].pw
    BY <1>0 DEF Process
  <2>2. Hold(o, r)
    BY <1>6
  <2> HIDE DEF r
  <2> QED BY <1>1, <1>2, <1>6, <2>1, <2>2, HoldCarries
<1>7. ASSUME NEW step \in {"routed", "route"}, NEW rest,
             Hold(o, [op[o] EXCEPT !.pc = step, !.todo = rest])
      PROVE  Carries(o)
  <2> DEFINE r == [op[o] EXCEPT !.pc = step, !.todo = rest]
  <2>1. r.pc = step /\ r.pw = op[o].pw
    BY <1>0 DEF Process
  <2>2. Hold(o, r)
    BY <1>7
  <2> HIDE DEF r
  <2> QED BY <1>1, <1>2, <1>7, <2>1, <2>2, HoldCarries
<1>8. CASE CreateRoute(o)
  <2> DEFINE t == IF "gateway" \in op[o].todo THEN "gateway" ELSE "database"
             rest == op[o].todo \ {t}
             step == IF rest = {} THEN "routed" ELSE "route"
  <2>1. Fails(o) \/ Hold(o, [op[o] EXCEPT !.pc = step, !.todo = rest])
    BY <1>8 DEF CreateRoute
  <2>2. step \in {"routed", "route"}
    OBVIOUS
  <2> QED BY <1>3, <1>7, <2>1, <2>2
<1> QED BY <1>3, <1>4, <1>5, <1>6, <1>8
        DEF ApplyConnectivity, CreatePeering, AcceptPeering, ReusePeering, PeeringActivated,
            ListAgain, RoutesSeen

LEMMA RestOfApplyCarries ==
    ASSUME TypeOK, NEW o \in Op, ApplyRest(o)
    PROVE  Carries(o)
<1>0. op[o] \in Process
  BY DEF TypeOK
<1>1. UNCHANGED file
  BY DEF ApplyRest, SetWhitelistGroup, GroupSeen, CreateAccount, RunStatements,
     VerifyGrants, Reads
<1>2. /\ op[o].pc \in Informed
      /\ {"covered", "account", "grant", "granted"} \subseteq Informed
  BY DEF ApplyRest, SetWhitelistGroup, GroupSeen, CreateAccount, RunStatements,
     VerifyGrants, At, Informed, Step, Rest, Early
<1>3. CASE Fails(o) \/ Hold(o, [Blank EXCEPT !.pc = "done"])
  BY <1>1, <1>3, FailCarries DEF Fails, Rest
<1>4. CASE Goto(o, "covered")
  BY <1>1, <1>2, <1>4, GotoCarries
<1>5. CASE Hold(o, AllowedThen(o))
  <2>1. AllowedThen(o).pc = "account" /\ AllowedThen(o).pw = op[o].pw
    BY <1>0 DEF AllowedThen, Process
  <2> QED BY <1>1, <1>2, <1>5, <2>1, HoldCarries
<1>6. CASE Hold(o, GrantThen(o))
  <2>1. GrantThen(o).pc = "grant" /\ GrantThen(o).pw = op[o].pw
    BY <1>0 DEF GrantThen, Process
  <2> QED BY <1>1, <1>2, <1>6, <2>1, HoldCarries
<1>7. ASSUME NEW step \in {"grant", "granted"}, NEW ran,
             Hold(o, [op[o] EXCEPT !.pc = step, !.ran = ran])
      PROVE  Carries(o)
  <2> DEFINE r == [op[o] EXCEPT !.pc = step, !.ran = ran]
  <2>1. r.pc = step /\ r.pw = op[o].pw
    BY <1>0 DEF Process
  <2>2. Hold(o, r)
    BY <1>7
  <2> HIDE DEF r
  <2> QED BY <1>1, <1>2, <1>7, <2>1, <2>2, HoldCarries
<1> QED BY <1>3, <1>4, <1>5, <1>6, <1>7
        DEF ApplyRest, SetWhitelistGroup, GroupSeen, CreateAccount, RunStatements, VerifyGrants

LEMMA SecretInvStep ==
    ASSUME TypeOK, SecretInv, [Next]_vars
    PROVE  SecretInv'
<1>1. ASSUME NEW o \in Op, Apply(o)
      PROVE  SecretInv'
  BY <1>1, SecretStepKeeps, CarriedIsKept, DiscoverCarries, ConnectivityCarries,
     RestOfApplyCarries DEF Apply
<1>2. ASSUME NEW o \in Op, Start(o) \/ Dies(o)
      PROVE  SecretInv'
  BY <1>2, CarriedIsKept, FailCarries DEF Start, Dies, Fails, Rest
<1>3. CASE Provision \/ Console \/ UNCHANGED vars
  <2>1. UNCHANGED <<op, file>>
    BY <1>3 DEF Provision, Console, DeletePeering, ChangeRoutes, ReplaceAppliance,
       ChangeAccount, vars
  <2> QED BY <2>1 DEF SecretInv, At
<1> QED BY <1>1, <1>2, <1>3 DEF Next

-----------------------------------------------------------------------------
(* Everybody keeps knowing. *)

LEMMA KnownStep ==
    ASSUME TypeOK, OrderInv, SecretInv, KnownInv, [Next]_vars
    PROVE  KnownInv'
<1>1. ASSUME NEW o \in Op, Apply(o) \/ Start(o) \/ Dies(o), NEW q \in Op
      PROVE  Known(q)'
  <2>1. CASE q = o
    BY <1>1, <2>1, OwnKnows DEF KnownInv
  <2>2. CASE q # o
    <3>1. op'[q] = op[q]
      BY <1>1, <2>2, ApplyOps
    <3> QED BY <1>1, <2>2, <3>1, Bystander, OthersRespect DEF KnownInv
  <2> QED BY <2>1, <2>2
<1>2. ASSUME Provision \/ Console, NEW q \in Op
      PROVE  Known(q)'
  <2>1. op'[q] = op[q]
    BY <1>2 DEF Provision, Console, DeletePeering, ChangeRoutes, ReplaceAppliance,
       ChangeAccount
  <2> QED BY <1>2, <2>1, Bystander, ConsoleRespects DEF KnownInv
<1>3. ASSUME UNCHANGED vars, NEW q \in Op
      PROVE  Known(q)'
  <2>1. op'[q] = op[q] /\ UNCHANGED <<file, cloud, stale>>
    BY <1>3 DEF vars, history
  <2> QED BY <2>1, Bystander, StillRespects DEF KnownInv
<1> QED BY <1>1, <1>2, <1>3 DEF Next, KnownInv

\* apply makes one plan from six readings taken one after the other, carries
\* it out while other operators and the console go on, and verifies little of
\* it: still an operator who is told that it was applied, and whose readings
\* nobody outdated, has a database that the gateway reaches, allows in and
\* reads with the password of the file.
THEOREM AppliedIsOnboarded == Spec => []AppliedMeansOnboarded
<1>1. Init => TypeOK /\ OrderInv /\ SecretInv /\ KnownInv
  <2> SUFFICES ASSUME Init PROVE SecretInv /\ KnownInv
    BY Begin
  <2>1. \A o \in Op : op[o] = Blank
    BY DEF Init
  <2>2. Blank.pc = "idle" /\ ~Blank.ok
    BY DEF Blank
  <2>3. SecretInv
    BY <2>1, <2>2 DEF SecretInv, At, Informed, Rest
  <2>4. KnownInv
    BY <2>1, <2>2 DEF KnownInv, Known, HopInv, PlanInv, LinkInv, GroupInv, GrantInv,
       Choosing, Placed, Planned, Linked, Allowed, Addressed
  <2> QED BY <2>3, <2>4
<1>2. TypeOK /\ OrderInv /\ SecretInv /\ KnownInv /\ [Next]_vars
        => (TypeOK /\ OrderInv /\ SecretInv /\ KnownInv)'
  BY TypeStep, SecretInvStep, KnownStep
<1>3. KnownInv => AppliedMeansOnboarded
  <2> SUFFICES ASSUME KnownInv, NEW o \in Op, At(o, "done"), stale[o] = {}
               PROVE  Onboarded
    BY DEF AppliedMeansOnboarded
  <2>1. \E p \in Peer : peering[p] = "Activated" /\ \A t \in Table : Best(routes[t]) = p
    BY DEF KnownInv, Known, LinkInv, At, Linked, Allowed
  <2>2. group = ip
    BY DEF KnownInv, Known, GroupInv, At, Allowed
  <2>3. account = file /\ grants = Statements
    BY DEF KnownInv, Known, GrantInv, At
  <2> QED BY <2>1, <2>2, <2>3 DEF Onboarded, Connected
<1> QED BY <1>1, <1>2, <1>3, PTL DEF Spec

-----------------------------------------------------------------------------
(* Allowlist. *)

\* A laptop nobody interferes with has all the writes that are on their way.
Alone(l) == \A a \in Ip : a # command[l].ip => accepted[a] = 0

AloneInv == \A l \in Laptop : l \notin overtaken => Alone(l)

AccessInv == AccessTypeOK /\ AloneInv /\ ReportHolds

\* What a step of one laptop does to the command of another: nothing.
OthersWait(l) == \A o \in Laptop \ {l} : command'[o] = command[o]

\* A step that moves a command on, or starts another one.
LEMMA CommandTyped ==
    ASSUME AccessTypeOK, NEW l \in Laptop,
           NEW c \in [step : CommandStep, ip : Ip, writes : BOOLEAN],
           command' = [command EXCEPT ![l] = c]
    PROVE  /\ command' \in [Laptop -> [step : CommandStep, ip : Ip, writes : BOOLEAN]]
           /\ command'[l] = c
           /\ OthersWait(l)
BY DEF AccessTypeOK, OthersWait

\* Moving on keeps the address and the purpose of a command.
LEMMA BecomeMoves ==
    ASSUME AccessTypeOK, NEW l \in Laptop, NEW step \in CommandStep, Become(l, step)
    PROVE  /\ command' \in [Laptop -> [step : CommandStep, ip : Ip, writes : BOOLEAN]]
           /\ command'[l].step = step
           /\ command'[l].ip = command[l].ip /\ command'[l].writes = command[l].writes
           /\ OthersWait(l)
<1> DEFINE c == [command[l] EXCEPT !.step = step]
<1>1. command[l] \in [step : CommandStep, ip : Ip, writes : BOOLEAN]
  BY DEF AccessTypeOK
<1>2. /\ c \in [step : CommandStep, ip : Ip, writes : BOOLEAN]
      /\ c.step = step /\ c.ip = command[l].ip /\ c.writes = command[l].writes
  BY <1>1
<1>3. command' = [command EXCEPT ![l] = c]
  BY DEF Become
<1> QED BY <1>2, <1>3, CommandTyped

\* A step that only reads keeps the invariant if its command succeeds only on
\* what it has read.
LEMMA ReadKeeps ==
    ASSUME AccessInv, NEW l \in Laptop, NEW step \in CommandStep, Become(l, step), OnlyReads,
           step = "done" => ~command[l].writes \/ Current(l, entry)
    PROVE  AccessInv'
<1>1. /\ command' \in [Laptop -> [step : CommandStep, ip : Ip, writes : BOOLEAN]]
      /\ command'[l].step = step
      /\ command'[l].ip = command[l].ip /\ command'[l].writes = command[l].writes
      /\ OthersWait(l)
  BY BecomeMoves DEF AccessInv
<1>2. AccessTypeOK'
  BY <1>1 DEF AccessInv, AccessTypeOK, OnlyReads
<1>3. AloneInv'
  BY <1>1 DEF AccessInv, AloneInv, Alone, OnlyReads, OthersWait
<1>4. ReportHolds'
  BY <1>1 DEF AccessInv, ReportHolds, Under, Current, OnlyReads, OthersWait
<1> QED BY <1>2, <1>3, <1>4 DEF AccessInv

\* A command that begins finds nothing on its way, or is overtaken.
LEMMA StartKeeps ==
    ASSUME AccessInv, NEW l \in Laptop, StartCommand(l)
    PROVE  AccessInv'
<1>1. PICK a \in {l, Loopback}, w \in BOOLEAN :
        command' = [command EXCEPT ![l] = [step |-> "verify", ip |-> a, writes |-> w]]
  BY DEF StartCommand
<1> DEFINE c == [step |-> "verify", ip |-> a, writes |-> w]
<1>2. c \in [step : CommandStep, ip : Ip, writes : BOOLEAN]
  BY DEF CommandStep, Ip
<1>3. /\ command' \in [Laptop -> [step : CommandStep, ip : Ip, writes : BOOLEAN]]
      /\ command'[l] = c
      /\ OthersWait(l)
  BY <1>1, <1>2, CommandTyped DEF AccessInv
<1>4. AccessTypeOK'
  BY <1>3, CommandsAssumption DEF AccessInv, AccessTypeOK, StartCommand
<1>5. AloneInv'
  BY <1>3 DEF AccessInv, AloneInv, Alone, StartCommand, OthersWait
<1>6. ReportHolds'
  BY <1>3 DEF AccessInv, ReportHolds, Under, Current, StartCommand, OthersWait
<1> QED BY <1>4, <1>5, <1>6 DEF AccessInv

\* Whoever sends a write is alone in what is on its way, or was overtaken; all
\* others are overtaken from here on.
LEMMA SetKeeps ==
    ASSUME AccessInv, NEW l \in Laptop, SetGroup(l)
    PROVE  AccessInv'
<1>1. PICK step \in {"confirm", "failed"} : Become(l, step)
  BY DEF SetGroup
<1>2. step \in CommandStep /\ step # "done"
  BY DEF CommandStep, Ended
<1>3. /\ command' \in [Laptop -> [step : CommandStep, ip : Ip, writes : BOOLEAN]]
      /\ command'[l].step = step
      /\ command'[l].ip = command[l].ip /\ command'[l].writes = command[l].writes
      /\ OthersWait(l)
  BY <1>1, <1>2, BecomeMoves DEF AccessInv
<1>4. command[l].ip \in Ip /\ accepted \in [Ip -> Nat]
  BY DEF AccessInv, AccessTypeOK
<1>5. AccessTypeOK'
  BY <1>3, <1>4 DEF AccessInv, AccessTypeOK, SetGroup
<1>6. AloneInv'
  BY <1>3, <1>4 DEF AccessInv, AloneInv, Alone, SetGroup, OthersWait
<1>7. ReportHolds'
  BY <1>2, <1>3 DEF AccessInv, ReportHolds, Under, Current, SetGroup, OthersWait
<1> QED BY <1>5, <1>6, <1>7 DEF AccessInv

\* A write that comes into force is that of whoever is not overtaken.
LEMMA PutInForceKeeps ==
    ASSUME AccessInv, NEW a \in Ip, PutInForce(a)
    PROVE  AccessInv'
<1>1. accepted \in [Ip -> Nat] /\ accepted[a] > 0
  BY DEF AccessInv, AccessTypeOK, PutInForce
<1>2. accepted' \in [Ip -> Nat] /\ \A b \in Ip : accepted[b] = 0 => accepted'[b] = 0
  BY <1>1 DEF PutInForce
<1>3. AccessTypeOK'
  BY <1>2 DEF AccessInv, AccessTypeOK, PutInForce
<1>4. AloneInv'
  BY <1>2 DEF AccessInv, AloneInv, Alone, PutInForce
<1>5. ReportHolds'
  <2> SUFFICES ASSUME NEW l \in Laptop, l \notin overtaken
               PROVE  Current(l, entry)'
    BY DEF ReportHolds, PutInForce
  <2>1. a = command[l].ip
    BY <1>1 DEF AccessInv, AloneInv, Alone
  <2> QED BY <2>1 DEF Current, PutInForce
<1> QED BY <1>3, <1>4, <1>5 DEF AccessInv

LEMMA ConsoleKeeps ==
    ASSUME AccessInv, ConsoleGroup
    PROVE  AccessInv'
<1>1. AccessTypeOK'
  <2>1. elsewhere' \in BOOLEAN
    BY Zenon DEF AccessInv, AccessTypeOK, ConsoleGroup
  <2>2. started' \in 0..MaxCommands
    BY CommandsAssumption DEF AccessInv, AccessTypeOK, ConsoleGroup
  <2>3. entry' \in Ip \cup {NoGroup} /\ overtaken' \in SUBSET Laptop
    BY DEF AccessInv, AccessTypeOK, ConsoleGroup
  <2> QED BY <2>1, <2>2, <2>3 DEF AccessInv, AccessTypeOK, ConsoleGroup
<1>2. AloneInv'
  BY DEF AccessInv, AloneInv, Alone, ConsoleGroup
<1>3. ReportHolds'
  BY DEF AccessInv, ReportHolds, Under, Current, ConsoleGroup
<1> QED BY <1>1, <1>2, <1>3 DEF AccessInv

-----------------------------------------------------------------------------
LEMMA AccessInitInv == AccessInit => AccessInv
<1> SUFFICES ASSUME AccessInit PROVE AccessInv
  OBVIOUS
<1> DEFINE none == [step |-> "none", ip |-> Loopback, writes |-> FALSE]
<1>1. none \in [step : CommandStep, ip : Ip, writes : BOOLEAN]
  BY DEF Ip, CommandStep, Ended
<1>2. \A l \in Laptop : command[l] = none
  BY DEF AccessInit
<1>3. AccessTypeOK
  <2>1. command \in [Laptop -> [step : CommandStep, ip : Ip, writes : BOOLEAN]]
    BY <1>1 DEF AccessInit
  <2>2. accepted \in [Ip -> Nat] /\ overtaken \in SUBSET Laptop /\ started \in 0..MaxCommands
    BY CommandsAssumption DEF AccessInit
  <2>3. entry \in Ip \cup {NoGroup}
    BY DEF AccessInit, Ip
  <2>4. elsewhere \in BOOLEAN
    BY Zenon DEF AccessInit
  <2> QED BY <2>1, <2>2, <2>3, <2>4 DEF AccessTypeOK
<1>4. AloneInv
  BY DEF AccessInit, AloneInv, Alone
<1>5. ReportHolds
  BY <1>2 DEF ReportHolds, Under
<1> QED BY <1>3, <1>4, <1>5 DEF AccessInv

LEMMA AccessStepInv == AccessInv /\ [AccessNext]_accessVars => AccessInv'
<1> SUFFICES ASSUME AccessInv, [AccessNext]_accessVars PROVE AccessInv'
  OBVIOUS
<1>1. ASSUME NEW l \in Laptop, Command(l) PROVE AccessInv'
  <2>1. CASE StartCommand(l)
    BY <2>1, StartKeeps
  <2>2. CASE VerifyInstance(l)
    BY <2>2, ReadKeeps DEF VerifyInstance, CommandStep
  <2>3. CASE ListGroups(l)
    BY <2>3, ReadKeeps DEF ListGroups, Plan, CommandStep, Ended
  <2>4. CASE ListNetworkGroups(l)
    BY <2>4, ReadKeeps DEF ListNetworkGroups, Plan, CommandStep, Ended
  <2>5. CASE SetGroup(l)
    BY <2>5, SetKeeps
  <2>6. CASE ConfirmGroups(l)
    BY <2>6, ReadKeeps DEF ConfirmGroups, CommandStep, Ended
  <2>7. CASE ConfirmNetworkGroups(l)
    BY <2>7, ReadKeeps DEF ConfirmNetworkGroups, Current, CommandStep, Ended
  <2>8. CASE CommandFails(l)
    BY <2>8, ReadKeeps DEF CommandFails, CommandStep, Ended
  <2> QED BY <1>1, <2>1, <2>2, <2>3, <2>4, <2>5, <2>6, <2>7, <2>8 DEF Command
<1>2. ASSUME NEW a \in Ip, PutInForce(a) PROVE AccessInv'
  BY <1>2, PutInForceKeeps
<1>3. CASE ConsoleGroup
  BY <1>3, ConsoleKeeps
<1>4. CASE UNCHANGED accessVars
  BY <1>4 DEF accessVars, AccessInv, AccessTypeOK, AloneInv, Alone, ReportHolds, Under, Current
<1> QED BY <1>1, <1>2, <1>3, <1>4 DEF AccessNext

LEMMA AccessInvariance == AccessSpec => []AccessInv
BY AccessInitInv, AccessStepInv, PTL DEF AccessSpec

\* The state of concurrent commands is well typed, for any number of laptops.
THEOREM AccessTypeCorrect == AccessSpec => []AccessTypeOK
<1>1. AccessInv => AccessTypeOK
  BY DEF AccessInv
<1> QED BY <1>1, AccessInvariance, PTL

\* A refresh or revoke that reported success has its address in force until
\* another command writes, or an earlier write arrives late (applyAccess,
\* access.ts:90-104).
THEOREM ReportsHold == AccessSpec => []ReportHolds
<1>1. AccessInv => ReportHolds
  BY DEF AccessInv
<1> QED BY <1>1, AccessInvariance, PTL
=============================================================================
