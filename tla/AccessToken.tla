------------------------------ MODULE AccessToken ------------------------------
(***************************************************************************)
(* integrations/sheets/auth.py: ServiceAccountAuthorizer, the cached access*)
(* token every request to the Interactions sheet carries.                  *)
(*                                                                         *)
(* Tasks that find the cache cold queue for an asyncio.Lock, which is fair:*)
(* the head of the queue has the lock, and checks the cache again before it*)
(* exchanges an assertion for a token.  A task may be cancelled at any     *)
(* await (integrations/registry.py puts a timeout round a readiness probe),*)
(* and the lock is released all the same.                                  *)
(***************************************************************************)
EXTENDS Integers, Sequences, FiniteSets, SequencesExt

CONSTANTS
    Tasks,                      \* coroutines that ask for credentials
    Lifetimes,                  \* what the endpoint answers as expires_in
    _REFRESH_MARGIN_SECONDS,
    ExchangeLimit,              \* the longest an exchange can last
    NoToken,
    MaxTime                     \* the clock stops here (a bound)

ASSUME TokenAssumption ==
    /\ Lifetimes \subseteq Nat
    /\ {_REFRESH_MARGIN_SECONDS, ExchangeLimit, MaxTime} \subseteq Nat
    /\ IsFiniteSet(Tasks)

VARIABLES
    now,            \* time.time()
    _token,         \* the cached token, or NoToken
    _expires_at,
    queue,          \* tasks at the lock; the head has it
    exchange,       \* the exchange under way, or Idle
    held,           \* the token each task was last given, and when
    sat_through     \* exchanges begun since a queued task joined the queue

tokenVars == <<now, _token, _expires_at, queue, exchange, held, sat_through>>

\* A token upstream: when it runs out, and the lifetime it was issued with.
Token == [ends : Nat, lifetime : Lifetimes]

Idle == [began |-> -1, issued |-> NoToken]
Exchange == [began : Nat, issued : Token \cup {NoToken}]

\* A token, and when it was handed out.
Handed == [token : Token, at : Nat]

ASSUME NoTokenIsNone == NoToken \notin Token \cup Handed

TypeOK ==
    /\ now \in Nat
    /\ _token \in Token \cup {NoToken}
    /\ _expires_at \in Nat
    /\ queue \in Seq(Tasks)
    /\ exchange \in Exchange \cup {Idle}
    /\ held \in [Tasks -> Handed \cup {NoToken}]
    /\ sat_through \in [Tasks -> Nat]

Init ==
    /\ now = 0
    /\ _token = NoToken
    /\ _expires_at = 0
    /\ queue = <<>>
    /\ exchange = Idle
    /\ held = [t \in Tasks |-> NoToken]
    /\ sat_through = [t \in Tasks |-> 0]

-----------------------------------------------------------------------------
warm == _token # NoToken /\ now < _expires_at

waiting(t) == Contains(queue, t)

give(t, token) == held' = [held EXCEPT ![t] = [token |-> token, at |-> now]]

\* Leaving the queue, with or without a token.
leave(t) ==
    /\ \E i \in DOMAIN queue : queue[i] = t /\ queue' = RemoveAt(queue, i)
    /\ sat_through' = [sat_through EXCEPT ![t] = 0]

\* credentials(): a warm cache is answered without the lock.
ask(t) ==
    /\ ~waiting(t)
    /\ IF warm
       THEN give(t, _token) /\ UNCHANGED queue
       ELSE queue' = Append(queue, t) /\ UNCHANGED held
    /\ UNCHANGED <<now, _token, _expires_at, exchange, sat_through>>

\* The task that has the lock finds that another has refreshed the token.
find_refreshed(t) ==
    /\ queue # <<>> /\ t = Head(queue)
    /\ exchange = Idle
    /\ warm
    /\ give(t, _token)
    /\ leave(t)
    /\ UNCHANGED <<now, _token, _expires_at, exchange>>

\* Fault: the check under the lock is left out.
begin_exchange_unchecked ==
    /\ queue # <<>>
    /\ exchange = Idle
    /\ exchange' = [began |-> now, issued |-> NoToken]
    /\ sat_through' = [t \in Tasks |->
                           IF waiting(t) THEN sat_through[t] + 1 ELSE sat_through[t]]
    /\ UNCHANGED <<now, _token, _expires_at, queue, held>>

begin_exchange ==
    /\ queue # <<>>
    /\ exchange = Idle
    /\ ~warm
    /\ exchange' = [began |-> now, issued |-> NoToken]
    /\ sat_through' = [t \in Tasks |->
                           IF waiting(t) THEN sat_through[t] + 1 ELSE sat_through[t]]
    /\ UNCHANGED <<now, _token, _expires_at, queue, held>>

\* The endpoint issues a token: its lifetime runs before we have it.
issue ==
    /\ exchange # Idle
    /\ exchange.issued = NoToken
    /\ \E lifetime \in Lifetimes :
           exchange' = [exchange EXCEPT !.issued =
                            [ends |-> now + lifetime, lifetime |-> lifetime]]
    /\ UNCHANGED <<now, _token, _expires_at, queue, held, sat_through>>

\* Fault: the whole lifetime is trusted.
fresh_until_end(token) == now + token.lifetime

\* When the cache stops handing out a token received now.
fresh_until(token) ==
    now + IF token.lifetime > _REFRESH_MARGIN_SECONDS
          THEN token.lifetime - _REFRESH_MARGIN_SECONDS ELSE 0

exchange_succeeds(t) ==
    LET token == exchange.issued IN
    /\ exchange # Idle
    /\ token # NoToken
    /\ t = Head(queue)
    /\ _token' = token
    /\ _expires_at' = fresh_until(token)
    /\ exchange' = Idle
    /\ give(t, token)
    /\ leave(t)
    /\ UNCHANGED now

\* Fault: a failed exchange is repeated under the lock.
exchange_fails_inside(t) ==
    /\ exchange # Idle
    /\ t = Head(queue)
    /\ exchange' = Idle
    /\ UNCHANGED <<now, _token, _expires_at, held, queue, sat_through>>

\* A timeout, a refusal or an unreadable answer: the task fails, and the next
\* in the queue tries for itself.
exchange_fails(t) ==
    /\ exchange # Idle
    /\ t = Head(queue)
    /\ exchange' = Idle
    /\ leave(t)
    /\ UNCHANGED <<now, _token, _expires_at, held>>

\* The task is cancelled, queued or in the exchange.
cancel(t) ==
    /\ waiting(t)
    /\ exchange' = IF t = Head(queue) THEN Idle ELSE exchange
    /\ leave(t)
    /\ UNCHANGED <<now, _token, _expires_at, held>>

tick ==
    /\ now < MaxTime
    /\ exchange # Idle => now < exchange.began + ExchangeLimit
    /\ now' = now + 1
    /\ UNCHANGED <<_token, _expires_at, queue, exchange, held, sat_through>>

Next ==
    \/ \E t \in Tasks :
           \/ ask(t)
           \/ find_refreshed(t)
           \/ exchange_succeeds(t)
           \/ exchange_fails(t)
           \/ cancel(t)
    \/ begin_exchange
    \/ issue
    \/ tick

Spec == Init /\ [][Next]_tokenVars

-----------------------------------------------------------------------------
\* A token is handed out only with the margin ahead of it, less the time the
\* exchange took; one whose whole life is shorter than the margin, fresh
\* (integrations/sheets/auth.py:41-42, 117-119).
HandedOutInTime ==
    \A t \in Tasks : held[t] # NoToken =>
        LET token == held[t].token
            left  == token.ends - held[t].at + ExchangeLimit
        IN left >= _REFRESH_MARGIN_SECONDS \/ left >= token.lifetime

\* Whatever fails and whoever is cancelled, a task waits for at most one
\* exchange for each task at the lock, its own included
\* (integrations/sheets/auth.py:100-121).
OneExchangeEach == \A t \in Tasks : sat_through[t] <= Cardinality(Tasks)

\* However many find the cache cold at once, a token that still serves is never
\* replaced: the burst costs one exchange (integrations/sheets/auth.py:101-115).
RefreshedOnlyWhenSpent == [][_token' # _token => ~warm]_tokenVars

-----------------------------------------------------------------------------
\* What makes the properties inductive.  A task is at the lock once, an exchange is
\* under way for its head only while the cache is cold, and what a task has sat
\* through and the tasks ahead of it are no more than the tasks there are.
LockInductive ==
    /\ \A i, j \in DOMAIN queue : queue[i] = queue[j] => i = j
    /\ exchange # Idle => queue # <<>> /\ ~warm
    /\ \A i \in DOMAIN queue :
           sat_through[queue[i]] + i <=
               Cardinality(Tasks) + IF exchange # Idle THEN 1 ELSE 0
    /\ \A t \in Tasks : ~waiting(t) => sat_through[t] = 0

\* A token received now has at least this much of its life left, and the cache gives
\* it up with the margin ahead of it, less the time the exchange took.
TimesInductive ==
    /\ exchange # Idle => exchange.began <= now /\ now <= exchange.began + ExchangeLimit
    /\ exchange # Idle /\ exchange.issued # NoToken =>
           exchange.issued.ends >= exchange.began + exchange.issued.lifetime
    /\ _token # NoToken =>
           \/ _expires_at <= now
           \/ _expires_at <= _token.ends + ExchangeLimit - _REFRESH_MARGIN_SECONDS

\* The inductive invariant of the cached token (integrations/sheets/auth.py:95-121).
TokenInductive == TypeOK /\ LockInductive /\ TimesInductive /\ HandedOutInTime

=============================================================================
