------------------------------ MODULE RetryBudget ------------------------------
(***************************************************************************)
(* core/retry.py: retry_async, as GoogleSheetsClient calls it.             *)
(*                                                                         *)
(* Time is counted in whole units since the call started.  An attempt takes*)
(* any time up to AttemptLimit (httpx's timeout, outside this function);   *)
(* asyncio.sleep wakes up to SleepSlack late.  uniform(0, ceiling) is any  *)
(* whole delay up to the ceiling.                                          *)
(***************************************************************************)
EXTENDS Integers

CONSTANTS
    max_retries,
    backoff_base_seconds,
    _MAX_BACKOFF_SECONDS,
    Budgets,                    \* the budgets callers pass
    Unlimited,                  \* None in the code
    AttemptLimit,
    SleepSlack

ASSUME RetryAssumption ==
    /\ max_retries \in Nat
    /\ backoff_base_seconds \in Nat
    /\ _MAX_BACKOFF_SECONDS \in Nat
    /\ AttemptLimit \in Nat
    /\ SleepSlack \in Nat
    /\ Budgets \subseteq (Nat \ {0}) \cup {Unlimited}
    /\ Unlimited \notin Nat

VARIABLES
    total_budget_seconds,   \* the argument of this call
    phase,      \* "running" an attempt, "sleeping", "returned" or "raised"
    attempt,
    now,        \* monotonic() - started
    delay       \* of the sleep under way

retryVars == <<total_budget_seconds, phase, attempt, now, delay>>

TypeOK ==
    /\ total_budget_seconds \in Budgets
    /\ phase \in {"running", "sleeping", "returned", "raised"}
    /\ attempt \in 0..max_retries
    /\ now \in Nat
    /\ delay \in 0.._MAX_BACKOFF_SECONDS

Init ==
    /\ total_budget_seconds \in Budgets
    /\ phase = "running"
    /\ attempt = 0
    /\ now = 0
    /\ delay = 0

-----------------------------------------------------------------------------
\* What _backoff_delay can return.
_backoff_delay(a) == {d \in 0.._MAX_BACKOFF_SECONDS : d <= backoff_base_seconds * 2^a}

\* Fault: the delay is not counted against the budget.
overruns_late(elapsed, d) ==
    total_budget_seconds # Unlimited /\ elapsed >= total_budget_seconds

overruns(elapsed, d) ==
    total_budget_seconds # Unlimited /\ elapsed + d >= total_budget_seconds

retries_left == attempt < max_retries

\* The time the attempt under way has taken when it ends.
attempt_takes(t) ==
    /\ phase = "running"
    /\ now' = now + t
    /\ UNCHANGED total_budget_seconds

succeed ==
    /\ \E t \in 0..AttemptLimit : attempt_takes(t)
    /\ phase' = "returned"
    /\ UNCHANGED <<attempt, delay>>

\* The failure is not transient.
fail_permanently ==
    /\ \E t \in 0..AttemptLimit : attempt_takes(t)
    /\ phase' = "raised"
    /\ UNCHANGED <<attempt, delay>>

\* A transient failure without another attempt.
give_up ==
    /\ \E t \in 0..AttemptLimit :
           /\ attempt_takes(t)
           /\ \/ ~retries_left
              \/ \E d \in _backoff_delay(attempt) : overruns(now + t, d)
    /\ phase' = "raised"
    /\ UNCHANGED <<attempt, delay>>

\* Fault: the retry is not counted.
retry_uncounted ==
    /\ retries_left
    /\ \E t \in 0..AttemptLimit, d \in _backoff_delay(attempt) :
           /\ attempt_takes(t)
           /\ ~overruns(now + t, d)
           /\ delay' = d
    /\ phase' = "sleeping"
    /\ UNCHANGED attempt

retry ==
    /\ retries_left
    /\ \E t \in 0..AttemptLimit, d \in _backoff_delay(attempt) :
           /\ attempt_takes(t)
           /\ ~overruns(now + t, d)
           /\ delay' = d
    /\ attempt' = attempt + 1
    /\ phase' = "sleeping"

wake ==
    /\ phase = "sleeping"
    /\ \E late \in 0..SleepSlack : now' = now + delay + late
    /\ phase' = "running"
    /\ delay' = 0
    /\ UNCHANGED <<total_budget_seconds, attempt>>

\* CancelledError is no Exception: it leaves the loop from the attempt or from
\* the sleep it finds it in.
cancel ==
    /\ \/ \E t \in 0..AttemptLimit : attempt_takes(t)
       \/ /\ phase = "sleeping"
          /\ \E t \in 0..delay + SleepSlack : now' = now + t
          /\ UNCHANGED total_budget_seconds
    /\ phase' = "raised"
    /\ delay' = 0
    /\ UNCHANGED attempt

Next == succeed \/ fail_permanently \/ give_up \/ retry \/ wake \/ cancel

Spec == Init /\ [][Next]_retryVars

-----------------------------------------------------------------------------
finished == phase \in {"returned", "raised"}

\* With a budget, whatever happens upstream, the caller hears an answer less
\* than one attempt (and one late wake-up) after the budget: no new attempt
\* begins beyond it (core/retry.py:71-86).
AnswersSoonAfterBudget ==
    finished /\ total_budget_seconds # Unlimited
        => now < total_budget_seconds + SleepSlack + AttemptLimit

\* One attempt with the longest wait after it.
Round == AttemptLimit + _MAX_BACKOFF_SECONDS + SleepSlack

\* With or without a budget, the retries bound the whole: a large retry count
\* cannot strand a call in a backoff (core/retry.py:31-32, 58-67).
BoundedByRetries == now <= max_retries * Round + AttemptLimit

-----------------------------------------------------------------------------
\* What makes the two bounds inductive: the time spent is that of the rounds
\* behind the current attempt, and no attempt but the first starts, or is
\* slept for, beyond the budget.
InRound ==
    /\ phase = "running" => now <= attempt * Round
    /\ phase = "sleeping" => now + delay + SleepSlack <= attempt * Round
    /\ finished => now <= attempt * Round + AttemptLimit

InBudget ==
    total_budget_seconds # Unlimited =>
        /\ phase = "running" => now < total_budget_seconds + SleepSlack
        /\ phase = "sleeping" => now + delay < total_budget_seconds

RetryInductive == TypeOK /\ InRound /\ InBudget /\ AnswersSoonAfterBudget

=============================================================================
