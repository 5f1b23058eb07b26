--------------------------- MODULE ReadinessCache ---------------------------
(***************************************************************************)
(* integrations/registry.py: the readiness answer, a check of every        *)
(* dependency that is made at most once per ttl_seconds and shared between *)
(* the probers of GET /ready.                                              *)
(*                                                                         *)
(* A prober that finds no fresh answer queues for an asyncio.Lock, which is*)
(* fair: the head of the queue has the lock.  A prober may go away at any  *)
(* await (core/middleware.py: Starlette cancels the request).  Time is in  *)
(* whole units.                                                            *)
(***************************************************************************)
EXTENDS Integers, Sequences, FiniteSets, SequencesExt

CONSTANTS
    Probers,                    \* requests to /ready
    _dependencies,              \* what is registered at startup
    Ttls,                       \* the settings of readiness_cache_seconds checked
    _PROBE_TIMEOUT_SECONDS,
    None,
    MaxTime                     \* the clock stops here (a bound)

ASSUME ReadinessAssumption ==
    /\ Ttls \subseteq Nat
    /\ {_PROBE_TIMEOUT_SECONDS, MaxTime} \subseteq Nat
    /\ IsFiniteSet(Probers)

VARIABLES
    now,            \* time.monotonic()
    ttl_seconds,
    _cache,         \* the last check made under the lock, or None
    queue,          \* probers at the lock; the head has it
    checks,         \* the check each prober is making, or None
    arrived,        \* when each waiting prober asked, or None
    replies         \* what each prober was last told, and how old it was

vars == <<now, ttl_seconds, _cache, queue, checks, arrived, replies>>

\* What the statuses of one check come to: when it began, when the first of
\* its dependencies reported, and whether all that did are healthy.
Answer == [began : Nat, oldest : Nat \cup {None}, is_ready : BOOLEAN]
Check == [pending : SUBSET _dependencies, answer : Answer]

\* What a prober was told.
Reply == [began : Nat, age : Nat, is_ready : BOOLEAN]

ASSUME NoneIsNothing == None \notin Nat \cup Answer \cup Check \cup Reply

TypeOK ==
    /\ now \in Nat
    /\ ttl_seconds \in Ttls
    /\ _cache \in Answer \cup {None}
    /\ queue \in Seq(Probers)
    /\ checks \in [Probers -> Check \cup {None}]
    /\ arrived \in [Probers -> Nat \cup {None}]
    /\ replies \in [Probers -> Reply \cup {None}]

Init ==
    /\ now = 0
    /\ ttl_seconds \in Ttls
    /\ _cache = None
    /\ queue = <<>>
    /\ checks = [p \in Probers |-> None]
    /\ arrived = [p \in Probers |-> None]
    /\ replies = [p \in Probers |-> None]

-----------------------------------------------------------------------------
waiting(p) == arrived[p] # None

fresh == _cache # None /\ now - _cache.began < ttl_seconds

\* ready: 200 or 503.
reply(p, answer) ==
    replies' = [replies EXCEPT ![p] =
                   [began |-> answer.began, is_ready |-> answer.is_ready,
                    age |-> IF answer.oldest = None THEN 0 ELSE now - answer.oldest]]

\* A prober that has to wait is told nothing yet.
wait(p) ==
    /\ arrived' = [arrived EXCEPT ![p] = now]
    /\ replies' = [replies EXCEPT ![p] = None]

\* Fault: the lock is kept.
leave_locked(p) ==
    /\ UNCHANGED queue
    /\ checks' = [checks EXCEPT ![p] = None]
    /\ arrived' = [arrived EXCEPT ![p] = None]

\* Answered or cancelled: a prober that has the lock lets go of it.
leave(p) ==
    /\ IF Contains(queue, p)
       THEN \E i \in DOMAIN queue : queue[i] = p /\ queue' = RemoveAt(queue, i)
       ELSE UNCHANGED queue
    /\ checks' = [checks EXCEPT ![p] = None]
    /\ arrived' = [arrived EXCEPT ![p] = None]

\* check_all: every dependency is probed at once; without any, all is well.
check_all(p) ==
    checks' = [checks EXCEPT ![p] =
                  [pending |-> _dependencies,
                   answer |-> [began |-> now, oldest |-> None, is_ready |-> TRUE]]]

\* cached_check_all up to the lock: without a ttl everybody checks for himself.
ready(p) ==
    /\ ~waiting(p)
    /\ \/ /\ ttl_seconds <= 0
          /\ check_all(p)
          /\ wait(p)
          /\ UNCHANGED queue
       \/ /\ ttl_seconds > 0 /\ fresh
          /\ reply(p, _cache)
          /\ UNCHANGED <<queue, checks, arrived>>
       \/ /\ ttl_seconds > 0 /\ ~fresh
          /\ queue' = Append(queue, p)
          /\ wait(p)
          /\ UNCHANGED checks
    /\ UNCHANGED <<now, ttl_seconds, _cache>>

has_lock(p) == queue # <<>> /\ p = Head(queue) /\ checks[p] = None

\* Another prober refreshed the answer while this one queued.
find_refreshed(p) ==
    /\ has_lock(p)
    /\ fresh
    /\ reply(p, _cache)
    /\ leave(p)
    /\ UNCHANGED <<now, ttl_seconds, _cache>>

\* Fault: the answer is not looked at again under the lock.
begin_check_unseen(p) ==
    /\ has_lock(p)
    /\ check_all(p)
    /\ UNCHANGED <<now, ttl_seconds, _cache, queue, arrived, replies>>

begin_check(p) ==
    /\ has_lock(p)
    /\ ~fresh
    /\ check_all(p)
    /\ UNCHANGED <<now, ttl_seconds, _cache, queue, arrived, replies>>

\* Fault: the dependencies are probed in turn.
due_in_turn(p) ==
    checks[p].answer.began + _PROBE_TIMEOUT_SECONDS * Cardinality(_dependencies)

\* When the timeout round each probe of a check ends it.
due(p) == checks[p].answer.began + _PROBE_TIMEOUT_SECONDS

reported(answer, healthy) ==
    [began |-> answer.began,
     oldest |-> IF answer.oldest = None THEN now ELSE answer.oldest,
     is_ready |-> answer.is_ready /\ healthy]

\* _probe: the dependency answers, raises or is timed out; the last two are
\* unhealthy statuses.
probe_ends(p, d) ==
    /\ checks[p] # None
    /\ d \in checks[p].pending
    /\ \E healthy \in BOOLEAN :
           checks' = [checks EXCEPT ![p] =
                         [pending |-> @.pending \ {d},
                          answer |-> reported(@.answer, healthy)]]
    /\ UNCHANGED <<now, ttl_seconds, _cache, queue, arrived, replies>>

\* Fault: the answer is dated by its arrival.
cached_late(p) == [checks[p].answer EXCEPT !.began = now]

\* What is kept: the statuses, dated before the check began.
cached(p) == checks[p].answer

\* All probes have reported.
check_ends(p) ==
    /\ checks[p] # None
    /\ checks[p].pending = {}
    /\ _cache' = IF ttl_seconds > 0 THEN cached(p) ELSE _cache
    /\ reply(p, checks[p].answer)
    /\ leave(p)
    /\ UNCHANGED <<now, ttl_seconds>>

\* The request is cancelled: a check under way is lost.
cancel(p) ==
    /\ waiting(p)
    /\ leave(p)
    /\ UNCHANGED <<now, ttl_seconds, _cache, replies>>

\* Time passes while everybody waits: a prober that can run does so within the
\* unit of time, and no probe outlasts its timeout.
tick ==
    /\ now < MaxTime
    /\ \A p \in Probers :
           /\ ~has_lock(p)
           /\ checks[p] # None => checks[p].pending # {} /\ now < due(p)
    /\ now' = now + 1
    /\ UNCHANGED <<ttl_seconds, _cache, queue, checks, arrived, replies>>

\* What the event loop runs for a prober without anybody asking.
Resumed(p) ==
    \/ find_refreshed(p)
    \/ begin_check(p)
    \/ \E d \in _dependencies : probe_ends(p, d)
    \/ check_ends(p)

Next ==
    \/ \E p \in Probers : ready(p) \/ Resumed(p) \/ cancel(p)
    \/ tick

Spec == Init /\ [][Next]_vars

\* The loop runs a coroutine that can run, and each probe has its timeout.
\* Requests, cancellations and the clock promise nothing.
FairSpec == Spec /\ \A p \in Probers : WF_vars(Resumed(p))

-----------------------------------------------------------------------------
\* No prober is told something older than the ttl or than its own check took,
\* although the check it is told of may have been slow (registry.py:66-69,
\* "a few seconds of staleness is a fair trade").
ToldInTime ==
    \A p \in Probers : replies[p] # None =>
        replies[p].age < ttl_seconds \/ replies[p].age <= _PROBE_TIMEOUT_SECONDS

\* With a ttl one check runs at a time, and none begins within the ttl of the
\* beginning of the last one that was completed (registry.py:75, "at most once
\* per ttl_seconds").
OncePerTtl ==
    ttl_seconds > 0 =>
        \A p \in Probers : checks[p] # None =>
            /\ \A q \in Probers \ {p} : checks[q] = None
            /\ \A q \in Probers : replies[q] # None =>
                   checks[p].answer.began >= replies[q].began + ttl_seconds

\* A prober waits for the checks ahead of it and its own: the probers that wait
\* share the worst case, they do not multiply it by their dependencies
\* (registry.py:59-63).
AnsweredInTime ==
    \A p \in Probers : waiting(p) =>
        now - arrived[p] <= _PROBE_TIMEOUT_SECONDS * Cardinality(Probers)

\* What makes the three inductive.  Who waits is at the lock, once, or, without a ttl,
\* has a check of its own; at the lock only the head has one, and only while no
\* answer is fresh.
LockInductive ==
    /\ \A i, j \in DOMAIN queue : queue[i] = queue[j] => i = j
    /\ ttl_seconds = 0 => queue = <<>>
    /\ \A p \in Probers :
           /\ Contains(queue, p) => waiting(p)
           /\ waiting(p) /\ ttl_seconds > 0 => Contains(queue, p)
           /\ waiting(p) /\ ttl_seconds = 0 => checks[p] # None
           /\ checks[p] # None => waiting(p)
           /\ checks[p] # None /\ ttl_seconds > 0 =>
                  queue # <<>> /\ p = Head(queue) /\ ~fresh

\* What an answer was made of is no older than its beginning.
dated(answer) ==
    /\ answer.began <= now
    /\ answer.oldest # None => answer.began <= answer.oldest /\ answer.oldest <= now

\* A check is within its timeout, what is cached is behind it by the ttl, and what
\* anybody was told is no newer than what is cached.
DatesInductive ==
    /\ _cache # None => dated(_cache)
    /\ \A p \in Probers :
           /\ checks[p] # None =>
                  /\ dated(checks[p].answer)
                  /\ now <= due(p)
                  /\ ttl_seconds > 0 /\ _cache # None =>
                         checks[p].answer.began >= _cache.began + ttl_seconds
           /\ replies[p] # None /\ ttl_seconds > 0 =>
                  _cache # None /\ replies[p].began <= _cache.began

\* Whoever is behind in the queue has a check to wait for each prober ahead of it,
\* the first of them begun when the head's was, or now.
WaitsInductive ==
    /\ \A i \in DOMAIN queue :
           LET head == Head(queue)
               first == IF checks[head] # None THEN checks[head].answer.began ELSE now
           IN first + _PROBE_TIMEOUT_SECONDS * i
                  <= arrived[queue[i]] + _PROBE_TIMEOUT_SECONDS * Cardinality(Probers)
    /\ ttl_seconds = 0 =>
           \A p \in Probers : checks[p] # None => arrived[p] = checks[p].answer.began

\* The inductive invariant of the readiness answer (integrations/registry.py:59-95).
ReadinessInductive ==
    TypeOK /\ ToldInTime /\ LockInductive /\ DatesInductive /\ WaitsInductive

\* Nobody waits for the lock for ever, however checks fail or are cancelled.
NobodyIsStuck == \A p \in Probers : waiting(p) ~> ~waiting(p)

=============================================================================
