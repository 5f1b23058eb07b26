--------------------------- MODULE RetryBudgetProofs ---------------------------
(***************************************************************************)
(* The two time bounds of retry_async, for every budget, retry count,      *)
(* backoff and attempt timeout.                                            *)
(***************************************************************************)
EXTENDS RetryBudget, TLAPS

\* A round takes a natural number of units.
LEMMA RoundType == Round \in Nat /\ AttemptLimit + _MAX_BACKOFF_SECONDS + SleepSlack = Round
  BY RetryAssumption DEF Round

\* One round more.
LEMMA NextRound ==
    ASSUME NEW n \in Nat, NEW r \in Nat
    PROVE  (n + 1) * r = n * r + r /\ n * r \in Nat
  OBVIOUS

\* More rounds take no less time.
LEMMA RoundsGrow ==
    ASSUME NEW m \in Nat, NEW n \in 0..m, NEW r \in Nat
    PROVE  n * r <= m * r
  <1>1. m * r = n * r + (m - n) * r
    OBVIOUS
  <1>2. n * r \in Nat /\ (m - n) * r \in Nat
    OBVIOUS
  <1>3. QED BY <1>1, <1>2

\* The first attempt starts at once.
LEMMA RetryInit == Init => RetryInductive
  <1> SUFFICES ASSUME Init PROVE RetryInductive
    OBVIOUS
  <1>1. TypeOK
    BY RetryAssumption DEF Init, TypeOK
  <1>2. InRound
    <2>1. 0 * Round = 0
      BY RoundType
    <2>2. QED BY <2>1 DEF Init, InRound, finished
  <1>3. InBudget
    BY RetryAssumption DEF Init, InBudget
  <1>4. AnswersSoonAfterBudget
    BY DEF Init, AnswersSoonAfterBudget, finished
  <1>5. QED BY <1>1, <1>2, <1>3, <1>4 DEF RetryInductive

\* The end of an attempt, if it is the last.
LEMMA LastAttempt ==
    ASSUME RetryInductive, NEW t \in 0..AttemptLimit, attempt_takes(t),
           phase' \in {"returned", "raised"}, UNCHANGED <<attempt, delay>>
    PROVE  RetryInductive'
  <1>1. /\ now + t \in Nat /\ now' = now + t /\ phase = "running"
        /\ total_budget_seconds' = total_budget_seconds
        /\ total_budget_seconds \in (Nat \ {0}) \cup {Unlimited}
    BY RetryAssumption DEF RetryInductive, TypeOK, attempt_takes
  <1>2. TypeOK'
    BY <1>1 DEF RetryInductive, TypeOK
  <1>3. InRound'
    <2>1. attempt * Round \in Nat
      BY RoundType, NextRound DEF RetryInductive, TypeOK
    <2>2. now <= attempt * Round
      BY <1>1 DEF RetryInductive, InRound
    <2>3. now' <= attempt * Round + AttemptLimit
      BY <1>1, <2>1, <2>2, RetryAssumption DEF RetryInductive, TypeOK
    <2>4. QED BY <2>3 DEF InRound, finished, Round
  <1>4. InBudget'
    BY <1>1 DEF InBudget
  <1>5. AnswersSoonAfterBudget'
    BY <1>1, RetryAssumption
       DEF RetryInductive, TypeOK, InBudget, AnswersSoonAfterBudget, finished
  <1>6. QED BY <1>2, <1>3, <1>4, <1>5 DEF RetryInductive

\* A retry that is slept for fits the budget and opens a new round.
LEMMA RetryStep ==
    ASSUME RetryInductive, retry
    PROVE  RetryInductive'
  <1>1. PICK t \in 0..AttemptLimit, d \in _backoff_delay(attempt) :
            /\ phase = "running" /\ now' = now + t /\ delay' = d
            /\ ~overruns(now + t, d)
            /\ total_budget_seconds' = total_budget_seconds
    BY DEF retry, attempt_takes
  <1>2. /\ phase' = "sleeping"
        /\ attempt' = attempt + 1
        /\ attempt + 1 \in 0..max_retries
        /\ attempt \in Nat
    BY RetryAssumption DEF retry, retries_left, RetryInductive, TypeOK
  <1>3. /\ d \in 0.._MAX_BACKOFF_SECONDS
        /\ now + t \in Nat
        /\ now \in Nat
        /\ total_budget_seconds \in Budgets \cap ((Nat \ {0}) \cup {Unlimited})
    BY RetryAssumption DEF _backoff_delay, RetryInductive, TypeOK
  <1>4. TypeOK'
    BY <1>1, <1>2, <1>3 DEF TypeOK
  <1>5. InRound'
    <2>1. (attempt + 1) * Round = attempt * Round + Round /\ attempt * Round \in Nat
      BY <1>2, RoundType, NextRound
    <2>2. now <= attempt * Round
      BY <1>1 DEF RetryInductive, InRound
    <2>3. now + t + d + SleepSlack <= attempt * Round + Round
      BY <1>3, <2>1, <2>2, RoundType, RetryAssumption
    <2>4. now' + delay' + SleepSlack <= attempt' * Round
      BY <1>1, <1>2, <2>1, <2>3
    <2>5. QED BY <1>2, <2>4 DEF InRound, finished, Round
  <1>6. InBudget'
    BY <1>1, <1>2, <1>3, RetryAssumption DEF InBudget, overruns
  <1>7. AnswersSoonAfterBudget'
    BY <1>2 DEF AnswersSoonAfterBudget, finished
  <1>8. QED BY <1>4, <1>5, <1>6, <1>7 DEF RetryInductive

\* Waking up late stays in the round and, but for the slack, in the budget.
LEMMA WakeStep ==
    ASSUME RetryInductive, wake
    PROVE  RetryInductive'
  <1>1. PICK late \in 0..SleepSlack : now' = now + delay + late
    BY DEF wake
  <1>2. /\ phase = "sleeping" /\ phase' = "running" /\ delay' = 0 /\ attempt' = attempt
        /\ total_budget_seconds' = total_budget_seconds
    BY DEF wake
  <1>3. /\ now \in Nat /\ delay \in Nat /\ now + delay + late \in Nat
        /\ total_budget_seconds \in (Nat \ {0}) \cup {Unlimited}
    BY RetryAssumption DEF RetryInductive, TypeOK
  <1>4. TypeOK'
    BY <1>1, <1>2, <1>3, RetryAssumption DEF RetryInductive, TypeOK
  <1>5. InRound'
    <2>1. attempt * Round \in Nat
      BY RoundType, NextRound DEF RetryInductive, TypeOK
    <2>2. now + delay + SleepSlack <= attempt * Round
      BY <1>2 DEF RetryInductive, InRound
    <2>3. now' <= attempt * Round
      BY <1>1, <1>3, <2>1, <2>2, RetryAssumption
    <2>4. QED BY <1>2, <2>3 DEF InRound, finished, Round
  <1>6. InBudget'
    BY <1>1, <1>2, <1>3, RetryAssumption DEF RetryInductive, InBudget
  <1>7. AnswersSoonAfterBudget'
    BY <1>2 DEF AnswersSoonAfterBudget, finished
  <1>8. QED BY <1>4, <1>5, <1>6, <1>7 DEF RetryInductive

\* A cancelled attempt or sleep ends no later than it would have.
LEMMA CancelStep ==
    ASSUME RetryInductive, cancel
    PROVE  RetryInductive'
  <1>1. /\ phase' = "raised" /\ delay' = 0 /\ attempt' = attempt
        /\ total_budget_seconds' = total_budget_seconds
    BY DEF cancel, attempt_takes
  <1>2. /\ now \in Nat /\ delay \in Nat /\ attempt \in 0..max_retries
        /\ total_budget_seconds \in Budgets
        /\ total_budget_seconds \in (Nat \ {0}) \cup {Unlimited}
        /\ attempt * Round \in Nat
    BY RetryAssumption, RoundType, NextRound DEF RetryInductive, TypeOK
  <1>3. /\ now' \in Nat
        /\ now' <= attempt * Round + AttemptLimit
        /\ total_budget_seconds # Unlimited
               => now' < total_budget_seconds + SleepSlack + AttemptLimit
    <2>1. CASE \E t \in 0..AttemptLimit : attempt_takes(t)
      BY <1>2, <2>1, RetryAssumption
         DEF attempt_takes, RetryInductive, InRound, InBudget
    <2>2. CASE /\ phase = "sleeping"
               /\ \E t \in 0..delay + SleepSlack : now' = now + t
      <3>1. PICK t \in 0..delay + SleepSlack : now' = now + t
        BY <2>2
      <3>2. /\ now + delay + SleepSlack <= attempt * Round
            /\ total_budget_seconds # Unlimited => now + delay < total_budget_seconds
        BY <2>2 DEF RetryInductive, InRound, InBudget
      <3>3. QED BY <1>2, <3>1, <3>2, RetryAssumption
    <2>3. QED BY <2>1, <2>2 DEF cancel
  <1>4. TypeOK'
    BY <1>1, <1>2, <1>3, RetryAssumption DEF TypeOK
  <1>5. InRound'
    BY <1>1, <1>3 DEF InRound, finished, Round
  <1>6. InBudget'
    BY <1>1 DEF InBudget
  <1>7. AnswersSoonAfterBudget'
    BY <1>1, <1>3 DEF AnswersSoonAfterBudget, finished
  <1>8. QED BY <1>4, <1>5, <1>6, <1>7 DEF RetryInductive

\* The invariant holds throughout, whatever the attempts and sleeps take.
THEOREM RetryInductiveHolds == Spec => []RetryInductive
  <1>1. RetryInductive /\ [Next]_retryVars => RetryInductive'
    <2> SUFFICES ASSUME RetryInductive, [Next]_retryVars PROVE RetryInductive'
      OBVIOUS
    <2>1. CASE succeed
      BY <2>1, LastAttempt DEF succeed
    <2>2. CASE fail_permanently
      BY <2>2, LastAttempt DEF fail_permanently
    <2>3. CASE give_up
      BY <2>3, LastAttempt DEF give_up
    <2>4. CASE retry
      BY <2>4, RetryStep
    <2>5. CASE wake
      BY <2>5, WakeStep
    <2>6. CASE cancel
      BY <2>6, CancelStep
    <2>7. CASE UNCHANGED retryVars
      BY <2>7 DEF retryVars, RetryInductive, TypeOK, InRound, InBudget,
                  AnswersSoonAfterBudget, finished, Round
    <2>8. QED BY <2>1, <2>2, <2>3, <2>4, <2>5, <2>6, <2>7 DEF Next
  <1>2. QED BY RetryInit, <1>1, PTL DEF Spec

\* Whatever the upstream does, a budgeted call is answered less than one attempt
\* and one late wake-up after its budget.
THEOREM AnsweredSoon == Spec => []AnswersSoonAfterBudget
  <1>1. RetryInductive => AnswersSoonAfterBudget
    BY DEF RetryInductive
  <1>2. QED BY <1>1, RetryInductiveHolds, PTL

\* The retry count bounds every call, with a budget or without.
THEOREM RetriesBound == Spec => []BoundedByRetries
  <1>1. RetryInductive => BoundedByRetries
    <2> SUFFICES ASSUME RetryInductive PROVE now <= max_retries * Round + AttemptLimit
      BY DEF BoundedByRetries
    <2>1. /\ attempt \in 0..max_retries /\ now \in Nat /\ delay \in Nat
          /\ phase \in {"running", "sleeping", "returned", "raised"}
      BY RetryAssumption DEF RetryInductive, TypeOK
    <2>2. attempt * Round <= max_retries * Round
      BY <2>1, RoundType, RoundsGrow, RetryAssumption
    <2>3. attempt * Round \in Nat /\ max_retries * Round \in Nat
      BY <2>1, RoundType, NextRound, RetryAssumption
    <2>4. now <= attempt * Round + AttemptLimit
      BY <2>1, <2>3, RetryAssumption DEF RetryInductive, InRound, finished
    <2>5. QED BY <2>1, <2>2, <2>3, <2>4, RetryAssumption
  <1>2. QED BY <1>1, RetryInductiveHolds, PTL

=============================================================================
