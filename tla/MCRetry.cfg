\* A read with a budget and a write without one; an attempt may outlast the budget.
SPECIFICATION Spec
CONSTANTS
    Unlimited = Unlimited
    max_retries = 3
    backoff_base_seconds = 1
    _MAX_BACKOFF_SECONDS = 2
    Budgets = {6, Unlimited}
    AttemptLimit = 7
    SleepSlack = 1
INVARIANTS AnswersSoonAfterBudget BoundedByRetries
\* The call ends with an answer or an exception.
CHECK_DEADLOCK FALSE
