------------------------------ MODULE SheetsClient ------------------------------
(***************************************************************************)
(* integrations/sheets/client.py: GoogleSheetsClient with a service account*)
(* as it is wired for the Interactions sheet.  Each task is one get_values *)
(* or append_values: retry_async round attempts, and an attempt is the     *)
(* credentials (AccessToken, which the tasks share) and then the request.  *)
(*                                                                         *)
(* The event loop runs what is ready before the clock moves: only waiting  *)
(* for upstream, or sleeping, takes time.                                  *)
(***************************************************************************)
EXTENDS AccessToken

CONSTANTS
    max_retries,
    backoff_base_seconds,
    _MAX_BACKOFF_SECONDS,
    Unlimited,                  \* this client has no wall-clock budget
    RequestLimit,               \* the longest a request can last
    SleepSlack,                 \* how late a sleep can end
    LastStart                   \* no call starts later (a bound)

ASSUME ClientAssumption ==
    {max_retries, backoff_base_seconds, _MAX_BACKOFF_SECONDS,
     RequestLimit, SleepSlack, LastStart} \subseteq Nat

VARIABLE calls

clientVars == <<tokenVars, calls>>

Call == [phase : {"none", "credentials", "request", "sleeping", "returned", "raised"},
         attempt : 0..max_retries,
         started : Nat,
         at : Nat,          \* when its attempt or its sleep last began or ended
         delay : 0.._MAX_BACKOFF_SECONDS]

ClientTypeOK == TypeOK /\ calls \in [Tasks -> Call]

ClientInit ==
    /\ Init
    /\ calls = [t \in Tasks |-> [phase |-> "none", attempt |-> 0,
                                 started |-> 0, at |-> 0, delay |-> 0]]

\* One task's call, as core/retry.py sees it.
Retry(t) == INSTANCE RetryBudget WITH
    Budgets <- {Unlimited},
    total_budget_seconds <- Unlimited,
    AttemptLimit <- Cardinality(Tasks) * ExchangeLimit + RequestLimit,
    now <- calls[t].at - calls[t].started,
    attempt <- calls[t].attempt,
    delay <- calls[t].delay,
    phase <- IF calls[t].phase \in {"none", "credentials", "request"}
             THEN "running" ELSE calls[t].phase

-----------------------------------------------------------------------------
in_phase(t, phase) == calls[t].phase = phase

moved(t, phase) == calls' = [calls EXCEPT ![t].phase = phase]

ended(t, phase) == calls' = [calls EXCEPT ![t].phase = phase, ![t].at = now, ![t].delay = 0]

\* An attempt asks for credentials: those of a warm cache it has at once.
asking(t, call) ==
    /\ ask(t)
    /\ calls' = [calls EXCEPT ![t] =
           [call EXCEPT !.phase = IF warm THEN "request" ELSE "credentials"]]

\* get_values() or append_values(), with rows to append.
start(t) ==
    /\ in_phase(t, "none")
    /\ now <= LastStart
    /\ asking(t, [calls[t] EXCEPT !.started = now, !.at = now])

\* Fault: the sleep is not awaited.
woken_at_once(t) == calls[t].at

woken(t) == calls[t].at + calls[t].delay

wake(t) ==
    /\ in_phase(t, "sleeping")
    /\ now >= woken(t)
    /\ asking(t, [calls[t] EXCEPT !.at = now, !.delay = 0])

authorised(t) ==
    /\ find_refreshed(t) \/ exchange_succeeds(t)
    /\ moved(t, "request")

\* Fault: a retry starts the count again.
again_uncounted(t) ==
    /\ Retry(t)!retries_left
    /\ \E d \in Retry(t)!_backoff_delay(calls[t].attempt) :
           calls' = [calls EXCEPT ![t].phase = "sleeping", ![t].at = now, ![t].delay = d]

\* The attempt failed, and is_transient says that another may succeed.
again(t) ==
    /\ Retry(t)!retries_left
    /\ \E d \in Retry(t)!_backoff_delay(calls[t].attempt) :
           calls' = [calls EXCEPT ![t].phase = "sleeping", ![t].attempt = @ + 1,
                                  ![t].at = now, ![t].delay = d]

\* A failure of the attempt, of either kind: retried only while retries are left.
attempt_failed(t) == again(t) \/ ended(t, "raised")

\* A timeout, an unreachable endpoint or a 5xx is transient; a refusal or an
\* unreadable answer is not.
unauthorised(t) ==
    /\ exchange_fails(t)
    /\ attempt_failed(t)

\* A 200 whose body can be read.
request_succeeds(t) ==
    /\ in_phase(t, "request")
    /\ ended(t, "returned")
    /\ UNCHANGED tokenVars

\* _status_error, a timeout, httpx's HTTPError or an unreadable 200.
request_fails(t) ==
    /\ in_phase(t, "request")
    /\ attempt_failed(t)
    /\ UNCHANGED tokenVars

\* The readiness probe that makes the call runs out of time.
cancelled(t) ==
    /\ IF in_phase(t, "credentials")
       THEN cancel(t)
       ELSE calls[t].phase \in {"request", "sleeping"} /\ UNCHANGED tokenVars
    /\ ended(t, "raised")

\* Time passes while every task waits, and never beyond what it waits for.
elapse ==
    /\ tick
    /\ queue # <<>> => exchange # Idle
    /\ \A t \in Tasks :
           /\ in_phase(t, "request") => now < held[t].at + RequestLimit
           /\ in_phase(t, "sleeping") => now < woken(t) + SleepSlack
    /\ UNCHANGED calls

ClientNext ==
    \/ \E t \in Tasks :
           \/ start(t)
           \/ wake(t)
           \/ authorised(t)
           \/ unauthorised(t)
           \/ request_succeeds(t)
           \/ request_fails(t)
           \/ cancelled(t)
    \/ begin_exchange /\ UNCHANGED calls
    \/ issue /\ UNCHANGED calls
    \/ elapse

\* What the event loop, upstream and the clock do unasked.
Onward ==
    \/ \E t \in Tasks :
           \/ wake(t)
           \/ authorised(t)
           \/ unauthorised(t)
           \/ request_succeeds(t)
           \/ request_fails(t)
    \/ begin_exchange /\ UNCHANGED calls
    \/ issue /\ UNCHANGED calls
    \/ elapse

ClientSpec == ClientInit /\ [][ClientNext]_clientVars /\ WF_clientVars(Onward)

-----------------------------------------------------------------------------
\* Each call is a retry_async whose attempt may last one exchange for every task
\* at the lock and a request: the queue for the token cannot stretch it further
\* (integrations/sheets/client.py:90-149, core/retry.py:58-97).
ImplementsRetry ==
    /\ \A t \in Tasks : Retry(t)!Init
    /\ [][\A t \in Tasks : Retry(t)!Next \/ UNCHANGED Retry(t)!retryVars]_clientVars

\* A request never outlives the token it carries, if the token's lifetime exceeds
\* the margin (integrations/sheets/auth.py:41-42: a call never stalls on an
\* expiry race).
TokenOutlivesRequest ==
    \A t \in Tasks :
        in_phase(t, "request") /\ held[t].token.lifetime > _REFRESH_MARGIN_SECONDS
            => now <= held[t].token.ends

\* What makes it inductive, with the token's own invariant: whoever is at its request
\* was handed a token no longer ago than a request can last
\* (integrations/sheets/client.py:151-175, 207-230).
ClientInductive ==
    /\ ClientTypeOK
    /\ TokenInductive
    /\ \A t \in Tasks : in_phase(t, "request") =>
           /\ held[t] # NoToken
           /\ held[t].at <= now
           /\ now <= held[t].at + RequestLimit

\* When the wait for the token was last counted.
counted == IF exchange = Idle THEN now ELSE exchange.began

\* From the lock on an exchange is left for each place: what a task has waited, with
\* what it may still wait, is no more than an exchange for every task.
PlacesInTime ==
    \A i \in DOMAIN queue :
        counted - calls[queue[i]].at + i * ExchangeLimit <= Cardinality(Tasks) * ExchangeLimit

\* A call waits for credentials just when it is at the lock, its request began within
\* that time, and its sleep ends in time.
InTime(t) ==
    /\ in_phase(t, "credentials") <=> waiting(t)
    /\ calls[t].started <= calls[t].at /\ calls[t].at <= now
    /\ in_phase(t, "none") => calls[t].at = 0 /\ calls[t].attempt = 0
    /\ ~in_phase(t, "sleeping") => calls[t].delay = 0
    /\ in_phase(t, "request") => held[t].at - calls[t].at <= Cardinality(Tasks) * ExchangeLimit
    /\ in_phase(t, "sleeping") => now <= woken(t) + SleepSlack

\* What makes every call a retry_async, with the invariant above
\* (integrations/sheets/auth.py:95-121, core/retry.py:58-97).
CallInductive == PlacesInTime /\ \A t \in Tasks : InTime(t)

\* Whatever fails, every call ends: it answers or raises
\* (integrations/sheets/client.py:85-149).
EveryCallEnds ==
    \A t \in Tasks : ~in_phase(t, "none") ~> calls[t].phase \in {"returned", "raised"}

=============================================================================
