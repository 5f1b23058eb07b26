# Verification of the voice claims agent

TLA+ models of the backend under `backend/app`: a FastAPI service behind a
telephone voice platform. The platform calls a webhook when a call starts,
whenever the language model wants a tool run, and when the call ends; the
service keeps one session per call in memory, reads customers and claims from
Google Sheets, and files one row per finished call in an Interactions sheet.

TLC checks the models on small instances and TLAPS proves the statements that
carry the most weight for every instance. Paths below are relative to
`backend/app`.

## 1. The system

| Part | State it keeps | Operations |
|---|---|---|
| Session (`models/session.py`, `models/enums.py`) | an immutable record: status, customer, attempts, claim, escalation, outcome | `with_*` transitions, each returns a new record |
| Session store (`services/session_store.py`) | dictionary call id -> session | `get`, `save`, `discard` |
| Authentication (`services/authentication.py`, `tools/authentication_tools.py`, `integrations/sheets/customers.py`) | none of its own | `start_call`, `submit_phone`, `submit_verification`, `complete` |
| Authorization and claims (`services/authorization.py`, `services/claims.py`, `tools/claim_status.py`, `integrations/sheets/claims.py`) | none | `require_authenticated`, `get_claim_status` |
| FAQ tool (`tools/faq_tool.py`) | topics noted on the session | `search_faq`, which may quote a claim number |
| Escalation and safety (`services/escalation.py`, `tools/representative_tool.py`, `tools/safety_interceptor.py`, `services/safety.py`) | the last `history_limit` escalations | `request_representative`, `intercept` |
| Conversation (`services/conversation.py`, `agents/specialists.py`, `tools/registry.py`) | none | dispatch of call-started, tool-calls and call-ended events |
| Post-call filing (`services/postcall.py`, `services/summary.py`, `integrations/sheets/interactions.py`) | the calls known to be on file (bounded) | `record_call`, `save` |
| Sheets client and retries (`integrations/sheets/client.py`, `core/retry.py`) | none | read with retries, append with retries |
| Access token (`integrations/sheets/auth.py`) | cached token, its expiry, a lock | `credentials` |
| Readiness (`integrations/registry.py`, `api/health.py`) | cached probe result, a lock | `check_all`, `cached_check_all` |
| Webhook translation (`integrations/voice_platform.py`, `api/v1/voice.py`) | none | payload to event, results to response |
| FAQ retrieval (`services/faq.py`), telephone numbers (`core/phone.py`), sheet rows (`integrations/sheets/rows.py`) | read-only | pure functions |
| Wiring (`core/config.py`, `main.py`, `integrations/factory.py`, `services/container.py`, `services/guidance.py`) | what a process is made of, decided once | `lifespan`, `build_data_integration`, `build_services`, the loaders |
| Metrics (`core/metrics.py`) | counters with labels, latency summaries | `increment`, `observe`, `snapshot` with the derived rates |
| Failure catalogue (`core/failures.py`, `core/errors.py`, `integrations/sheets/failures.py`) | a table | the class of a code, whether it is retried |
| Emergency detection, spoken guidance, logging, other HTTP surface | tables, contextvars | see section 8 |

### How the parts interact

Everything runs on one asyncio event loop. The platform may have several
webhooks of a call open at once; nothing in the service serialises them. A
handler reads the session, and gives up the loop only while it waits for Google
Sheets (the store's own lock surrounds a dictionary access and is never
contended, so `get`, `save` and `discard` never suspend). When it resumes it goes
on with the copy of the session it read *before* the wait, and saves that copy.
The tool calls inside one webhook run one after the other, so for the shared
state they are successive deliveries.

### What is hard

- **Stale copies.** Between a handler's read and its save another handler of
  the same call may have verified the caller, spent an attempt, locked the
  call or ended it. Whatever is saved must still respect the authorization
  boundary.
- **Budgets.** Three wrong answers lock the call: no off-by-one, no attempt lost
  or charged for an upstream failure.
- **The end of a call is delivered at least twice** (a status update and a
  report), may be redelivered, overlaps other handlers, and is retried against a
  store that may have accepted a row whose acknowledgement was lost; the process may
  restart in between and forgets everything it held.
- **Partial failure.** Any read or write may fail at any wait; sessions must
  be released and checks abandoned all the same.
- **Time.** Retries with jittered backoff under a wall-clock budget; a cached
  token with an expiry, refreshed under a lock by tasks that may be cancelled.

### What makes each part correct

- Sessions and authentication: a session that says AUTHENTICATED was verified,
  on this call, for this customer; the budget is exact; a caller whose record was found can
  go on verifying until it is spent, whatever fails on the way.
- Claims and FAQ: nothing about a claim is said or filed before its owner is
  verified on the call.
- Escalation: an escalated call stays escalated.
- Filing: one row per call; the guard never suppresses the only row; the
  session is released however filing fails.
- Retries: a bound on the time a caller waits, with and without a budget.
- Token: handed out with its margin ahead of it, so that no request outlives the token it
  carries; a token that still serves is never replaced; nobody is stuck at the lock.
- Sheets client: each call is a bounded retry whose attempts include the queue for the
  token, and it ends.
- Webhook: production handles nothing without its secret, and whoever lacks it learns
  nothing else.
- Wiring: a process starts with what was filled in and nothing less.
- Failures: nothing that goes wrong upstream is told as the absence of a record, and what is
  retried is what may pass by itself.
- Tool calls: each one asked for is run once, screened, and answered with its own line,
  whatever became of the others of its turn.
- Readiness: nothing older than its time to live is told, nobody checks more often than
  that, and waits are bounded.
- Lookups: one spelling per telephone number; a sheet may be rearranged or hold
  malformed rows without anybody else noticing; the latest claim is told; every knowledge file
  is answered from when a caller uses its words.

## 2. Modules

| Module | Models |
|---|---|
| `SessionState` | `models/session.py` and the enums: the record, its predicates, each `with_*` transition as an operator; the derived outcome and sentiment |
| `CallState` | the variables handlers share, `get`/`save`/`discard`, delivery, suspension |
| `Authentication` | call start, customer lookup, verification |
| `ClaimAccess` | the authorization check, `get_claim_status`, the claim number in an FAQ answer |
| `Escalation` | representative requests and intercepted emergencies |
| `PostCall` | `_complete`, `record_call`, the read of the sheet, append attempts |
| `CallHandling` | the whole process: all of the above, interleaved, with restarts; its properties |
| `DisclosureBoundary` | abstract: what the authorization boundary promises |
| `VerificationBudget` | abstract: what the attempt budget promises |
| `RetryBudget` | `core/retry.py` with time in whole units |
| `AccessToken` | `integrations/sheets/auth.py`: cache, fair lock, exchange, cancellation |
| `SheetsClient` | `integrations/sheets/client.py` with a service account: each task a `retry_async` round token and request |
| `Wiring` | what settings and files make of a process, as operators |
| `ToolTurn` | one webhook: its body in three shapes, the loop over its tool calls, the registry, the interceptor, the answer |
| `VoiceWebhook` | `api/v1/voice.py`: a process starts and answers one webhook: secret, body, service layer, turn |
| `ReadinessCache` | the cached check of the dependencies, its lock, timeouts, cancelled requests |
| `PhoneNumber` | `core/phone.py` as operators |
| `SheetRows` | `rows.py` and the lookups of `customers.py`, `claims.py` over the rows of a sheet |
| `FaqSearch` | which knowledge files are loaded, which entry answers |
| `Metrics` | `core/metrics.py`: counters, summaries and rates, as operators |
| `UpstreamFaults` | how a read of a sheet fails, what each layer makes of it, what the catalogue says of it |
| `Selection` | what a comprehension or a substitution keeps of a sequence |
| `CallHandlingProofs`, `SerialProofs` | theorems about `CallHandling`: any overlap; one webhook of a call at a time |
| `RetryBudgetProofs`, `SheetsClientProofs`, `ReadinessProofs`, `VoiceWebhookProofs` | theorems about the module each is named for (`SheetsClientProofs` also of `AccessToken`, `VoiceWebhookProofs` of `ToolTurn`) |
| `LookupProofs` | theorems about the pure functions, through `MCLookups` |
| `DataLemmas` | lemmas on queues without repetition, induction on numbers, and the loops over a sequence |
| `MCCallHandling`, `MCRetryBudget`, `MCSheetsClient`, `MCVoiceWebhook`, `MCReadinessCache`, `MCLookups` | instances for TLC |

`SessionState` <- `CallState` <- {`Authentication`, `ClaimAccess`, `Escalation`,
`PostCall`} <- `CallHandling` (EXTENDS); `CallHandling` instantiates the two abstract
modules with a refinement mapping. `AccessToken` <- `SheetsClient`, which instantiates
`RetryBudget` once for each task: the retry loop is the abstract specification there, and
the client with its shared token implements it. `ToolTurn` <- `VoiceWebhook`, which takes
the process it runs in from `Wiring`. `PhoneNumber` <- `SheetRows`, and `MCLookups` extends
it and `FaqSearch` and instantiates `Wiring`, `Metrics` and `UpstreamFaults`. `PhoneNumber`,
`SheetRows` and `FaqSearch` take `Selection`.
`CallHandling` takes from `ToolTurn` only that the tools of a webhook are successive
deliveries, from `SheetRows` only which answers a lookup may give, and from `SheetsClient`
only that a wait ends.

### State and actions

`sessions` is the store; `handlers` the suspended coroutines, each with what it
waits for, its call, **the copy of the session it holds**, and the append
attempt; `_recorded` the repository's guard, `_records` the escalation history,
`CALLS_TOTAL` the counter; `sheet` the Interactions sheet, the only state that
survives a restart. `step` is the last authentication answer given. `verified`, `wrong`
and `disclosed` record what the environment saw, for the properties; `deliveries`
bounds the runs.

A handler that goes upstream is two actions: up to the wait
(`lookup_started`, `verification_started`, `claim_lookup_started`, `end_filing`)
and from the answer on (`lookup_answered`, `verification_answered`,
`claim_answered`, `sheet_read_answered`, `append_answered`). Each `*_answered`
offers every outcome the code distinguishes: found, not found, failed, vanished,
wrong, confirmed, retried, given up. Handlers that never go upstream are one
action. A refusal or an early return is a disjunct of its handler's action, and so is an
exception that the registry swallows after something was saved (`verification_raises`,
`comparison_raises`); a tool that raises before it has saved anything changes nothing here.

`ToolTurn` is a turn of `ConversationService.handle`: `parse_webhook`, then one
`dispatch` per round of `_run_tools` (unknown name, intercepted, arguments missing,
escalated, answered, raised), then `answer`. `fates` keeps how each invocation ended,
`results` and `transfer` are the locals of `_run_tools`. `VoiceWebhook` puts the process
round it: `start` (a deployment that may start), then for the request one of
`unauthorized`, `comparison_raises`, `unreadable_body`, `unavailable` and `handled`, in the
order of the route, then the turn, then `answered_with_200`.

`SheetsClient` gives each task one call of the client: `start`, an attempt that asks the
shared `AccessToken` for credentials (at once when the cache is warm, else by the queue at the
lock) and then makes its request, `again` or the end, `wake`. The clock moves only
while every task waits for upstream or sleeps. `ReadinessCache` follows one
prober through `cached_check_all`: the look at the cache, the queue at the lock, the second look,
the probes, each with its timeout, and the answer. `MCLookups` is a machine of one
step: it picks an input of one pure function, and the properties compare what the function
returns with what it should, stated without the function's own steps.

Every definition named `X_something` under a comment that begins "Fault:" is a plausible bug
in `X` (a dropped guard, a late comparison, a missing save). No specification uses it;
`PROJECT.json` names each one as the mutant of a run that shows a property can fail.

### Abstractions

- Names, phone numbers, spoken text, timestamps and upstream payloads are model
  values or absent. A lookup may find any customer: the sheet is the
  environment's, and may change between two reads.
- Which of a customer's claims is the most recent is left open.
- What counts as an emergency is an input (`notes_alarm`, `intercept`).
- `get_claim_status` is registered without parameters, so on the wire `expected` is
  always None; the model also offers the customer ids the tool's own signature
  accepts and its tests pass.
- A lost acknowledgement is decided when its attempt ends: the row landed or it
  did not. A row that lands after its attempt was given up, or after a restart
  interrupted it, is not modelled.
- An argument of a tool is of a class, not a text: harmless words, words that
  describe an emergency, blank, or no text at all; a reason is inside or outside the
  vocabulary. What a tool does to the session is in `CallHandling`. A secret is one of three
  strings: the right one, another, and one that is not ASCII.
- A text in `PhoneNumber` and `SheetRows` is a sequence of digits, `+`, the extension
  mark and white space; hyphens, dots and parentheses, dropped as white space is, are
  left out, and so is a text with one of them before its `+` (section 6). The limits on the
  number of digits are scaled to 3 and 4. A year has `Months` months of `Days` days.
- Words in `FaqSearch` are given: the splitting of a text and the stop words are left out. A
  keyword that is a phrase or a stop word is a word no question contains. A knowledge file is
  readable or not, has frontmatter or not, an id, keywords, and the rest (topic, answer) or not.
- The clock of `ReadinessCache` does not pass over a coroutine that can run: what is
  timed are the probes.
- In `CallHandling` a read with its retries is one wait; an append is one wait per attempt,
  since a failed attempt may leave a row. Time is modelled in `RetryBudget`,
  `AccessToken`, `SheetsClient` and `ReadinessCache` only.
- A setting in `Wiring` is absent, blank, refused by its validator, or one of a few values;
  a file is complete, incomplete in one respect, or absent. A service-account key is no JSON,
  no object, incomplete or complete.
- A rate in `Metrics` is a fraction; its rounding is left out. Counters are incremented by one.
- `UpstreamFaults` tells the HTTP statuses apart that the code does (403, 404, 429, 500, 503;
  400, 429, 500 of the token endpoint).

## 3. Runs

| Run | Instance | Checks |
|---|---|---|
| `MCSerial` | one call, one webhook at a time, all tools, lost acknowledgements, 7 deliveries | `CopiesAreCurrent`, `RowsWithinRetries`, `ImplementsBudget`, `EscalationSticks` |
| `MCOverlap` | one call, two overlapping handlers, lost acknowledgements, budget 2, 5 deliveries | `Inductive`, `VerifiedBeforeAuthenticated`, `ClaimFollowsItsOwner`, `FoundMayVerify`, `RowTellsOneStory`, `ImplementsBoundary`, `EndedCallIsFreed` |
| `MCFiling` | two calls, a guard of one, restarts, up to three append attempts | `OneRowPerCall`, `RememberedIsOnFile` |
| `MCRetry` | budget 6 or none, attempts up to 7, three retries, backoff capped at 2 | `AnswersSoonAfterBudget`, `BoundedByRetries` |
| `MCClient` | two tasks and one token, lifetimes 1 and 3 round a margin of 2, exchanges and requests of up to 1, one retry, clock up to 8 | `HandedOutInTime`, `OneExchangeEach`, `TokenOutlivesRequest`, `RefreshedOnlyWhenSpent`, `ImplementsRetry`, `EveryCallEnds` |
| `MCWebhook` | seven deployments; any secret; up to two tool calls spread over the three shapes of a body, two ids or none, every argument object | `AnsweredInFull`, `TransferKept`, `DangerEscalated`, `RunOnce`, `ProductionIsGuarded`, `RefusedFirst` |
| `MCReadiness` | two probers, two dependencies, no cache, one a slow check outlasts and one it does not | `ToldInTime`, `OncePerTtl`, `AnsweredInTime`, `NobodyIsStuck` |
| `MCLookups` | every text of up to six symbols; sheets of two customers or three claims under every order of columns; questions and three entries over four words; directories of three files over two words and a phrase; every environment and content; up to four events or durations; every way a read ends | `PhoneSpelledAlike`, `RowsColumnsMayMove`, `RowsBadRowHidesNobody`, `ClaimsLatestIsTold`, `FaqFilesAreAnswered`, `FaqBestAnswer`, `StartsAsConfigured`, `MetricsCountEverything`, `FaultsAreTold` |

Four further runs are *expected* to end with a counterexample; section 6.

What the properties mean:

- `VerifiedBeforeAuthenticated`, `ClaimFollowsItsOwner`, `FoundMayVerify`, `RowTellsOneStory` are stated of
  every session a step could still act on: the stored one **and each copy a
  suspended handler holds**. That is what makes them true of any overlap.
- `ImplementsBoundary`: every behaviour of the process is one of
  `DisclosureBoundary`: a claim is read out, and a row says "authenticated", only
  for a customer proved on that very call.
- `ImplementsBudget`: every behaviour with one webhook at a time is one of
  `VerificationBudget`: each wrong answer counts, the last of the budget locks, and
  verified and locked are final until the call ends.
- `FoundMayVerify`: no session is left in the middle of a verification without a customer to
  verify and an attempt left. This is what matters of VERIFYING, which the code does not always
  leave: an exception half way keeps it on the session (section 6).
- `CopiesAreCurrent` says why one webhook at a time is enough for the exact
  count: nobody ever holds a session that differs from the store's. `CopiesAreCurrent`,
  `ImplementsBudget` and `EscalationSticks` hold of one webhook at a time and say nothing of an
  overlap: what a stale save does there is shown by `MCLostAttempt` and bounded by `Inductive`.
- `OneRowPerCall` and `RowsWithinRetries` divide the filing promise: exactly one
  row when acknowledgements arrive and ends do not overlap; when acknowledgements
  are lost, the rows of a call stay within the attempts of a single append.
- `RowTellsOneStory`: the outcome, the sentiment and the two sentences of the summary, each
  derived from the session by its own rules, do not contradict one another, whatever order of
  lookups, answers and escalations led to the end. The customer id of the row is not among them
  (section 6).
- `AnswersSoonAfterBudget`: the budget is compared between attempts, so a caller
  waits at most one attempt and one late wake-up more.
- `HandedOutInTime`, `RefreshedOnlyWhenSpent`: a token is neither served too long nor
  replaced too soon; `TokenOutlivesRequest` is what that is for, seen from the request.
  `OneExchangeEach`: the lock is fair, and a failing or cancelled exchange releases it.
- `ImplementsRetry`: the queue for the token and the exchange do not stretch a call beyond a
  `retry_async` whose attempt lasts an exchange per task and a request; `EveryCallEnds`.
- `ProductionIsGuarded`: the check of the secret is skipped when none is configured, so this rests
  on what the process refuses to start with, a blank setting included. `RefusedFirst`: 503
  and 400 are never seen by who lacks the secret.
- `DangerEscalated`: caller's words that describe an emergency leave an EMERGENCY
  record by the interceptor or by the representative tool, whichever comes to see them.
  `AnsweredInFull` and `TransferKept` say that one tool of a turn cannot take another's
  line or its transfer. `RunOnce`: a body that repeats its calls in several
  shapes has them run once.
- `ToldInTime` and `OncePerTtl` bound staleness from both sides; `AnsweredInTime` bounds
  the wait by the probers ahead, which is what is left when a check outlasts its own
  time to live and the queue repeats it.
- The properties of `MCLookups` are laws of the functions over all its inputs, whose lengths
  are parameters that only a run bounds; the
  operators they name are next to the functions they are about. `StartsAsConfigured` joins
  three: a broken log of interactions costs only itself, a blank line of `.env` is no line, and
  every claim status has something to be said about it. `FaqFilesAreAnswered` joins loading and
  searching: of a service that starts, each file is the answer, or gives way only to one as
  narrow, when it is asked in its own words, whatever stray files surround it.
- `FaultsAreTold` follows each failure through the token, the client and the repositories: it is
  never the absence of a record, its code is one the catalogue counts as ours, and it is retried
  if and only if the code takes it to pass by itself. The catalogue itself says otherwise of
  some ends; section 6 lists them, and the property does not claim agreement with it.

### Bounds

`MaxDeliveries` (webhooks per call), `Handlers` (webhooks waiting at once),
`Events` (which webhooks a run delivers), `MaxTime` (the clocks of `AccessToken` and
`ReadinessCache`), `LastStart`, `MaxCalls`, `Types`, `Deployments`, `Secrets`, `TextLength`,
`MaxEntries`, `MaxCustomers`, `MaxClaims`, `MaxEvents` and `MaxDuration` are the only
bounds that are not the program's own.

- `MCSerial`: seven deliveries reach a lookup, three wrong answers, a further attempt, an
  escalation and the end.
- `MCOverlap`: two handlers are enough for a stale copy against a current one; the proofs
  cover any number. Budget 2 reaches the lock with two overlapping wrong answers and one
  more delivery. Two customers and two claims let a lookup replace the customer during a
  verification.
- `MCFiling`: the guard of one evicts with two calls, and four deliveries per call
  reach an end, an eviction, a new start and a second end, around a restart.
- `MCRetry`: an attempt can outlast the budget and the cap on the backoff is reached.
- `MCClient`: lifetime 1 is below the margin of 2 and 3 above it, the margin just covers an
  exchange and a request, both tasks retry once and the clock passes every expiry. A call
  lasts at most two attempts of three units and a sleep of one from a start no later than 1, so
  the clock of 8 never stops a call that has not ended.
- `MCWebhook`: two calls are enough for one to overwrite, follow or fail before another, in
  one shape or two. The deployments are production with its secret, with a blank one, with
  none and with one that is not ASCII, and local, with and without the sheets.
- `MCReadiness`: the clock of 6 covers three slow checks of 2, and the time to live of 4
  expires within it.
- `MCLookups`: six symbols reach a plus, the country code, a whole national number, a
  separator and an extension. Two customers are a usable row and a malformed one; three claims
  leave the latest first, last or between; three files hold a stray one, the required topic
  and files with equal or nested keywords; four events give every rate a share that is neither
  nothing nor all.

### Fairness

`FairSpec` of `CallHandling` is weak fairness of `answered(h)` for each handler:
httpx bounds every attempt by a timeout and `retry_async` bounds the attempts (the
bound is itself `BoundedByRetries`), so a wait ends. Nothing is assumed of
callers or the platform: no delivery is fair. `ClientSpec` is weak
fairness of `Onward`: the event loop runs what is ready, httpx bounds a request and an exchange by
its timeouts, a sleep ends, and the clock moves. New calls and cancellations are not fair.
`FairSpec` of `ReadinessCache` is weak fairness of `Resumed(p)` for each prober: the loop runs
a coroutine that is ready, and every probe runs under `asyncio.timeout`. Requests,
cancellations and the clock are not fair.

`CHECK_DEADLOCK FALSE` where callers may fall silent and the delivery
bound is reached, where calls of the client have ended, where a webhook is answered or no process
starts, where the clock stops, and where the one input of `MCLookups` is picked.

## 4. What is proved

TLAPS checks every proof to its leaves. The assumptions are the named ASSUMEs of the modules
proved about, which TLC evaluates on each run: numbers are naturals, budgets positive, `None` and
`NoToken` distinct from the data, tasks, probers and dependencies finite, each claim owned by
a customer; for the pure functions, that the marks of a telephone text are told from its digits
and from each other, that a country code said twice is still no number, that the vocabulary is
finite and holds the words of the files, that the two confidence bounds are in order and at most
1, that `None`, `NoEntry` and white space are no data, and that there is a claim status. A
theorem that needs more says so in its ASSUME.

| Theorem | Statement |
|---|---|
| `CallHandlingProofs!InductiveHolds` | `Spec => []Inductive` |
| `CallHandlingProofs!TypeCorrect` | `Spec => []TypeOK` |
| `CallHandlingProofs!VerifiedFirst` | `Spec => []VerifiedBeforeAuthenticated` |
| `CallHandlingProofs!ClaimStaysWithOwner` | `Spec => []ClaimFollowsItsOwner` |
| `CallHandlingProofs!BudgetLocks` | `Spec => []LockedAtBudget` |
| `CallHandlingProofs!FoundIsNoDeadEnd` | `Spec => []FoundMayVerify` |
| `CallHandlingProofs!OneStoryIsTold` | `Spec => []RowTellsOneStory` |
| `CallHandlingProofs!BoundaryHolds` | `Spec => ImplementsBoundary` |
| `CallHandlingProofs!GuardNeverLies` | `Spec => []RememberedIsOnFile` |
| `SerialProofs!NothingStale` | `OneAtATime`: `Spec => []CopiesAreCurrent` |
| `SerialProofs!AttemptsExact` | `OneAtATime`: `Spec => []AttemptsAreWrongAnswers` |
| `SerialProofs!BudgetHolds` | `OneAtATime`: `Spec => ImplementsBudget` |
| `SerialProofs!EscalationStays` | `OneAtATime`: `Spec => EscalationSticks` |
| `SerialProofs!RowsBounded` | `OneAtATime`: `Spec => []RowsWithinRetries` |
| `SerialProofs!OneRow` | `OneAtATime`, `~LostAcks`: `Spec => []OneRowPerCall` |
| `RetryBudgetProofs!RetryInductiveHolds` | `Spec => []RetryInductive` |
| `RetryBudgetProofs!AnsweredSoon` | `Spec => []AnswersSoonAfterBudget` |
| `RetryBudgetProofs!RetriesBound` | `Spec => []BoundedByRetries` |
| `SheetsClientProofs!ClientIsToken` | `ClientSpec => Spec` of `AccessToken` |
| `SheetsClientProofs!ClientInductiveHolds` | `ClientSpec => []ClientInductive` |
| `SheetsClientProofs!ClientTypeCorrect` | `ClientSpec => []ClientTypeOK` |
| `SheetsClientProofs!HandedOutServes` | `ClientSpec => []HandedOutInTime` |
| `SheetsClientProofs!ExchangesAreShared` | `ClientSpec => []OneExchangeEach` |
| `SheetsClientProofs!NeverReplacedEarly` | `ClientSpec => RefreshedOnlyWhenSpent` |
| `SheetsClientProofs!MarginSuffices` | `ExchangeLimit + RequestLimit <= _REFRESH_MARGIN_SECONDS`: `ClientSpec => []TokenOutlivesRequest` |
| `SheetsClientProofs!EveryWaitIsBounded` | `ClientSpec => []CallInductive` |
| `SheetsClientProofs!EveryCallIsARetry` | `ClientSpec => ImplementsRetry` |
| `ReadinessProofs!ReadinessInductiveHolds` | `Spec => []ReadinessInductive` |
| `ReadinessProofs!ReadinessTypeCorrect` | `Spec => []TypeOK` |
| `ReadinessProofs!ToldWhatIsRecent` | `Spec => []ToldInTime` |
| `ReadinessProofs!OneCheckPerTtl` | `Spec => []OncePerTtl` |
| `ReadinessProofs!WaitsAreShared` | `Spec => []AnsweredInTime` |
| `VoiceWebhookProofs!WebhookInductiveHolds` | `Spec => []WebhookInductive` |
| `VoiceWebhookProofs!ProductionStaysGuarded` | `Spec => []ProductionIsGuarded` |
| `VoiceWebhookProofs!SecretFirst` | `Spec => []RefusedFirst` |
| `VoiceWebhookProofs!TransferIsKept` | `Spec => []TransferKept` |
| `VoiceWebhookProofs!DangerIsEscalated` | `Spec => []DangerEscalated` |
| `VoiceWebhookProofs!LinesInductiveHolds` | `Spec => [](BodyInductive /\ LinesInductive)` |
| `VoiceWebhookProofs!EveryCallIsAnswered` | `Spec => []AnsweredInFull` |
| `VoiceWebhookProofs!CallsAreRunOnce` | `Spec => []RunOnce` |
| `LookupProofs!EveryNumberHasOneSpelling` | `Spec => []PhoneSpelledAlike` |
| `LookupProofs!EveryColumnIsFound` | `Spec => []RowsColumnsMayMove` |
| `LookupProofs!EveryUsableRowIsFound` | `Spec => []RowsBadRowHidesNobody` |
| `LookupProofs!EveryLatestClaimIsTold` | `Spec => []ClaimsLatestIsTold` |
| `LookupProofs!ColumnsMove` | a header with the columns of another: `ColumnsMayMove` |
| `LookupProofs!NobodyHidden` | a header with the columns, any cells: `BadRowHidesNobody` |
| `LookupProofs!LatestTold` | a header with the columns, months not first: `LatestIsTold` |
| `LookupProofs!EveryFileIsAnswered` | `Spec => []FaqFilesAreAnswered` |
| `LookupProofs!EveryQuestionFindsItsBest` | `Spec => []FaqBestAnswer` |
| `LookupProofs!EveryProcessStartsAsConfigured` | `Spec => []StartsAsConfigured` |
| `LookupProofs!EveryFaultIsTold` | `Spec => []FaultsAreTold` |
| `LookupProofs!EveryEventIsCounted` | `Spec => []MetricsCountEverything` |

Those of `CallHandlingProofs` hold for any number of calls, handlers, customers and claims, for
overlapping and serial delivery, lost acknowledgements and restarts; those of the client, of
readiness and of the webhook for any number of tasks, probers, dependencies and tool calls and
every limit, lifetime and time to live; those of `LookupProofs` for texts of any length over any
digits, sheets of any number of customers and claims, any vocabulary and number of entries, any
calendar, and any number of events. The inputs of `MCLookups` take a customer's cells from a short
list and the header from the orders of its columns; `ColumnsMove`, `NobodyHidden` and `LatestTold`
state the same for any header that has the columns and any cells over the symbols.

**The boundary.** "AUTHENTICATED implies verified" is not inductive:
a suspended handler can save its copy over the store, so the copies must be
as good as the store, and a copy becomes AUTHENTICATED at a resume, so what held
at the guard before the wait must be remembered. `Inductive` says (a) `SessionsGrounded`,
`HandlersGrounded`: each stored session and each held copy is `Grounded` in the
customers verified on its call; (b) `Fits`: a copy still satisfies what its guard
established when it was taken (a lookup's copy is not terminal, a verification's is
VERIFYING with a customer, a claim's is authenticated), which no other
handler can disturb as the copy is the handler's own; (c) `OnlyProvedLeaves`: what
was read out or filed was proved. `CallHandlingProofs` shows
that each action keeps the types, and then the rest; since `verified`
only grows, the sessions a step does not touch stay grounded. Each action is then mapped
to a step of `DisclosureBoundary` or to a stutter.

**No dead end.** A caller who was found must have an attempt left and a customer to be verified
as. The first is `LockedAtBudget`, which ties the count to the status on every copy; the second is
a conjunct of `Grounded`: the transition into CUSTOMER_FOUND sets the customer, a verification starts
only where `may_verify` holds, and no transition of a session clears its customer.

**One row, one story.** The outcome of a row and its identification sentence are derived from
different fields. They agree because `Grounded` also ties the outcome of a failed lookup to the
status it left: a session whose last lookup found somebody no longer says "not found".

**One webhook at a time.** `SerialInductive` adds to `Inductive` that nobody holds a
stale copy and that the count of each session is the number of wrong answers judged. Its
step is `OneCallAtATime`: every action touches the session of at most one call, in one of four ways
(kept, dropped, judged, rewritten without judging), and leaves at most one handler on it, which
holds what the store holds. The refinement of `VerificationBudget` and `EscalationSticks` follow
from the four ways alone. For the rows, `FilingInductive` says that a handler in its append
began with no row of the call on the sheet, has added no more than its attempts so far, and is
the only one to append for that call; `OneRow` is the same bound where a failed attempt leaves no row.

**The retries.** `InRound`: the time spent is at most one `Round`
(an attempt, the longest backoff, the slack) per attempt behind; `InBudget`: no attempt but
the first starts, and no sleep ends, beyond the budget plus the slack.

**The token.** A task is at the lock once; what it has sat through plus its place in the
queue never exceeds the number of tasks (plus the exchange under way), which is what makes the
bound on waiting inductive. A cached token is given up the margin before it ends, less
what its exchange took; `ClientInductive` carries that to the request. `MarginSuffices` names
the condition on the limits under which the margin does its work.

**Every call a retry.** An attempt of the client has no limit of its own: it may sit at the
lock behind everybody. `CallInductive` bounds what a call has waited by its place: the time
since it asked plus an exchange for each place up to its own is at most an exchange for every
task (`PlacesInTime`), and the exchange under way is charged from when it began. Leaving the
queue moves everybody behind one place up and costs at most one exchange, so the bound is kept;
when the token is handed over, what is left is the request. Each action is then a step of
`RetryBudget` with attempts of an exchange per task and a request, or a stutter of it: asking,
authorising and requesting are inside one attempt, a failure is its `attempt`, waking its `wake`.

**Readiness.** The same queue, with dates: an answer is fresh only until `began + ttl`, only the
head of the queue checks, and each prober's wait is split into the checks ahead of it. The
bound on waiting is inductive in the place in the queue, not in the number of probers.

**The webhook.** `Guarded`: the process is one that may start, and what was handled was admitted.
`TurnInductive`: at every round the transfer is settled by the escalations so far, and each
alarm seen has its record. `BodyInductive`: what is run was read from one shape of the body, whose
readable entries are a subsequence of it, so a call is run as often as that shape asks.
`LinesInductive`: after each round the line of an id is that of a later round with the same id,
and every round so far has a line; when ids are told apart, the line is the call's own. The proofs take `wired` and `starts` as they are in
`Wiring`, for every set of deployments.

**The pure functions.** Each theorem of `LookupProofs` is about a machine of one step, so its
invariant needs no strengthening; the work is in what the functions return.

- *Induction over data.* A loop of the code is a recursive function over the positions of a
  sequence. The library's induction theorems take an operator, which these provers cannot
  instantiate; `DataLemmas` states induction for a *set* of numbers instead, from the existence of
  a least element, and from it that such a function is defined everywhere by its equations
  (`LoopOver`, `Followed`) and what `only` keeps: the members that pass, in their order.
- *Telephone numbers.* Stripping twice is stripping once; the digits of a text do not change when
  its separators go; an extension after a pause is cut off where it begins. A spelling is then the
  plus, the country code and the number whichever way it was given, and a number that is already
  spelled so begins with its code, so it is left alone.
- *Sheets.* A cell is read by the position of its column's name in the header, which is a
  permutation: so a row as it was sent, without its trailing blanks, gives the same record whatever
  the order. Rows that are kept are those that are usable, in their order, so that the first
  usable row of a number stays the first when others are dropped.
- *Claims.* A date is read back from year, month and day by division, whichever of the forms it
  was written in; the loop over the claims keeps the last of those with the latest date.
- *FAQ.* After each entry the best so far is above every entry seen (`RoundKeepsBest`), where
  "above" orders the entries by how many words of the question they account for and then, by cross
  multiplication, by the share of their own words. The file decides only where both are equal.
  Asked in the words of a file, the file's entry accounts for all of them; nothing is above the best,
  so the best accounts for all of them too and is no broader (`OwnWordsAnswered`), and all of a
  question is always enough to answer (`AllIsHigh`).
- *Metrics.* An increment adds one to the total of a set of keys just when its own key is in the
  set (`Incremented`), first or not; by induction each total is the number of events that count
  towards it, and each rate the fraction of two of them.

### Only model-checked

Liveness, which is out of this prover's reach: `EndedCallIsFreed`,
`EveryCallEnds` and `NobodyIsStuck`. Every invariant and every action property or refinement
that a passing run checks is a theorem; `CopiesAreCurrent`, `RowsWithinRetries`, `OneRowPerCall`,
`ImplementsBudget` and `EscalationSticks` under the hypotheses in the table, which the code
needs and the runs grant. The counterexample runs of section 6 are TLC's.

The inductive invariants and type invariants other than `Inductive` are proved and in no run of their own.

## 5. Notes on the model

- `restart` empties `sessions`, `handlers`, `_recorded`, `_records`, `CALLS_TOTAL`;
  a handler interrupted by it simply vanishes.
- `discard` also forgets `step` and `wrong`: both belong to the session that ended.
- `Configured` FALSE (no Interactions sheet) and `transfer_available` FALSE are covered
  by the proofs; the runs use the full deployment.
- A cancelled task of `SheetsClient` ends as one that raised: what becomes of a timed-out probe
  is `ReadinessCache`.

## 6. Deviations

Counterexample runs: the code disagrees with what it says of itself.

| Run | Claim | What TLC shows |
|---|---|---|
| `MCLostAttempt` | `session_store.py:43`: the lock keeps two turns "from interleaving and losing an attempt count" | two overlapping `verify_identity` webhooks read the same count; the later save erases the earlier attempt |
| `MCExhaustedEarly` | `failures.py:194`: ATTEMPTS_EXHAUSTED is "Three failed verification attempts" | a number found, a second one not found, then a verification: refused as exhausted with no wrong answer |
| `MCEmergencyForgotten` | `summary.py:99`: an emergency "is a bad call whatever else happened" | a plain request for a person after the emergency replaces the reason; the row says NEUTRAL |
| `MCEndedTwice` | `interactions.py:45`: the guard "closes the window between our read and our write within a process" | two overlapping ends of a call both read before either appends; two rows |

Further behaviours of the code that the models show and no run is spent on:

- A handler that waited while the session became terminal saves its older copy
  and opens it again (`authentication.py:160-189`, against `models/enums.py:30-32`).
  One that waited while the call was escalated takes the escalation back in the same way
  (`escalation.py:100`). Only overlapping webhooks; the boundary holds all the same.
- A verification value that is no text raises in the repository after VERIFYING was saved
  (`authentication.py:217`, `customers.py:84`), and the registry swallows it (`tools/registry.py:148`);
  so does the comparison of two values one of which is not ASCII (`customers.py:174`). The
  session then stays in VERIFYING with nothing being checked, against `models/enums.py:29` ("a
  verification value is being checked upstream"), and no attempt is charged: `verification_raises`,
  `comparison_raises`. `FoundMayVerify` is what is left: the next verification is served.
- After LOOKUP_ATTEMPTS_EXHAUSTED a further lookup is served: `submit_phone` never
  looks at the lookup budget (`authentication.py:117`, against `failures.py:150`).
- An append whose acknowledgement is lost is repeated and writes a second row
  (`client.py:131`, against `repositories.py:212-213`): `RowsWithinRetries`
  is the bound that is left.
- A tool that resumes after the end of its call puts the discarded session back
  (`authentication.py:313`, against `conversation.py:195`).
- A start redelivered after the end counts the call again (`conversation.py:102`).
- With the default timeout of 10 s a read outlasts the default budget of 6 s
  (`retry.py:51`, `config.py:44-48`): `AnswersSoonAfterBudget` is the bound that is left.
- While the token endpoint fails, each queued task makes its own exchange
  (`auth.py:100-101`): `OneExchangeEach` is the bound that is left.
- Words that describe an emergency are seen only in an argument the called tool accepts:
  `notes` on any other tool, and every argument of an unknown tool, are dropped before the
  interceptor looks (`tools/registry.py:117`, `registry.py:125`).
- `notes` that are no text make `request_representative` raise before it escalates,
  unless the reason already says EMERGENCY (`representative_tool.py:72`, against
  `escalation.py:97`, "Always succeeds").
- Two calls of one tool without ids are known by the same name, and the later line replaces
  the earlier (`voice_platform.py:200`, `conversation.py:144`): `AnsweredInFull` speaks of ids
  that are told apart.
- An extension said without a pause ("5550101234x12") is kept as digits (`phone.py:22`), and a
  national number that begins with the digits of the country code is taken to carry
  it (`phone.py:47`): `SpelledAlike` sets both aside. A bracket before the plus, as in "(+44) 20",
  makes the plus count for nothing (`phone.py:37`); such texts are outside the model.
- A slash date is read day first when it can be, so a sheet written month first may have
  the wrong claim told (`rows.py:182`, against `claims.py:117`): `LatestIsTold` sets
  that locale aside.
- Two rows with one customer id: verification reads the first (`customers.py`).
- The answer to `/ready` is 200 with no dependencies when the integration is not configured, while
  every webhook is answered 503 (`api/health.py:39`, `api/dependencies.py:38`).
- A token that was revoked is used until its cached expiry: a 401 of the sheet does not empty
  the cache (`auth.py:109`).
- What is told and retried of a failure is not always what the catalogue says of it. Missing
  columns, an empty sheet and an unreadable 200 are MALFORMED_DATA there (`failures.py:119-131`), and
  none is raised under that code: all three carry INTEGRATION_ERROR, which the catalogue has as
  transient and retried (`failures.py:102-110`), and are not retried; the unreadable body is told as
  UPSTREAM_ERROR. A refusal by the token endpoint (400) carries that code too, and 429 of that
  endpoint is not retried, while 429 of the sheet is (`auth.py:147-152`, `client.py:41`).
  `RetriedWhileItMayPass` states what the code does.
- A timeout of the token endpoint is no `IntegrationTimeoutError` (`auth.py:131-136`).
- A malformed private key is only noticed when the first assertion is signed, as a
  ValueError, after the process has started with the log of interactions wired (`factory.py:132`).
  `UpstreamFaults` and `Wiring` leave it out: a complete key signs.
- Every Markdown file of the knowledge directory is read before it is looked at (`faq.py:259-267`): a
  stray one that cannot be read, or is not UTF-8, keeps the service from starting, though files without
  frontmatter "are skipped" (`faq.py:220`).
- A keyword of several words, or a stop word, matches no token of a question and only widens its
  entry (`faq.py:51`, `faq.py:317`); a file whose keywords are those of an
  earlier file is never the answer. `FaqFilesAreAnswered` sets both aside.
- What escapes the service is answered 200 with an empty acknowledgement, which answers none of the
  tool calls (`api/v1/voice.py:88-94`). Nothing modelled escapes: what a tool raises is caught by
  the registry, so `VoiceWebhook` has no such step.
- A secret that is not ASCII, configured or presented, makes the comparison raise: 500
  (`voice_platform.py:87`).
- Two detectors of an emergency are promised, and the regular expressions of one of them
  miss "my son is trapped" (`safety.py:69-72`: a trapped person "is an emergency
  whether or not they add" anything), take "we were trapped in the flood" for the present
  (`we'?re` matches "were"), and take "my claim about the accident is still pending" for
  an emergency.
- `escalation_rate` can exceed 1, since a call may escalate twice; filings that were duplicates or
  not configured lower `postcall_persistence_success_rate`; intercepted calls and those with missing
  arguments are not counted in `tool_calls_total` (`metrics.py:150-175`, `registry.py:110-157`).
- The row of a call whose last number had no account may still name the customer of an earlier
  number, while its summary says that no account was found (`session.py:113`, `summary.py:46`).
- A tool call that is redelivered spends a second attempt or adds a second escalation: webhooks
  are not deduplicated (`conversation.py:127`).
- A row that could not be filed is lost with its session (`conversation.py:196`), as
  `docs/DEFERRED.md` 8.3 says.
- `aclose` raising at shutdown skips the clearing of the dependencies (`main.py:62-64`).
- A blank ENVIRONMENT means local, so a blank there takes the guard on the secret away
  (`config.py:114-135`).
- Probers queued behind a check that outlasts the time to live each repeat it
  (`integrations/registry.py:75`).

## 7. Plan

Done: the modules of section 2, their runs, and the theorems of section 4.

What is left, in order of what it would add:

1. A row that lands after its attempt was given up, in `PostCall`.
2. When each event is counted (only the starts of calls are: `CALLS_TOTAL`).

## 8. Not modelled

- Emergency detection (`services/safety.py`): regular expressions over English; the models take
  its verdict as an input.
- Spoken guidance and prompts (`services/voice.py`): the wording of answers. That the
  files they come from are complete is part of `Wiring`.
- Severities, detection and response texts of the failure catalogue.
- The rest of the HTTP surface, middleware and logging: request ids and envelopes, no state the
  properties depend on. The route that returns the assistant's configuration is a setup aid
  without state.
- `AuthenticationService.escalate` has no caller in the application.
- The signing of the token assertion and the API-key authorizer, which has no state.
- Scripts outside the service.
