---------------------------- MODULE ReadinessProofs ----------------------------
(***************************************************************************)
(* The readiness answer, for every number of probers and dependencies and  *)
(* every ttl and timeout: what is told is recent, one check is made per    *)
(* ttl, and a prober waits for no more than one check of each prober.      *)
(***************************************************************************)
EXTENDS ReadinessCache, DataLemmas

\* The numbers of the configuration.
LEMMA Numbers ==
    /\ _PROBE_TIMEOUT_SECONDS \in Nat /\ Ttls \subseteq Nat
    /\ Cardinality(Probers) \in Nat
  <1>1. IsFiniteSet(Probers)
    BY ReadinessAssumption
  <1>2. Cardinality(Probers) \in Nat
    BY <1>1, FS_CardinalityType
  <1>3. QED BY <1>2, ReadinessAssumption

\* Products with the timeout.
LEMMA Products ==
    ASSUME NEW i \in Nat, NEW j \in Nat
    PROVE  /\ _PROBE_TIMEOUT_SECONDS * i \in Nat
           /\ _PROBE_TIMEOUT_SECONDS * (i + 1)
                  = _PROBE_TIMEOUT_SECONDS * i + _PROBE_TIMEOUT_SECONDS
           /\ i <= j => _PROBE_TIMEOUT_SECONDS * i <= _PROBE_TIMEOUT_SECONDS * j
           /\ i >= 1 => _PROBE_TIMEOUT_SECONDS <= _PROBE_TIMEOUT_SECONDS * i
  <1> DEFINE P == _PROBE_TIMEOUT_SECONDS
  <1>1. P \in Nat
    BY Numbers
  <1> HIDE DEF P
  <1>2. P * i \in Nat /\ P * (i + 1) = P * i + P
    BY <1>1
  <1>3. ASSUME NEW k \in Nat, NEW l \in Nat, k <= l PROVE P * k <= P * l
    <2>1. l - k \in Nat /\ P * (l - k) \in Nat
      BY <1>1, <1>3
    <2>2. P * l = P * k + P * (l - k)
      BY <1>1
    <2>3. P * k \in Nat
      BY <1>1
    <2>4. QED BY <2>1, <2>2, <2>3
  <1>4. i >= 1 => P * 1 <= P * i
    BY <1>3
  <1>5. P * 1 = P
    BY <1>1
  <1>6. QED BY <1>2, <1>3, <1>4, <1>5 DEF P

\* What the variables hold.
LEMMA Held ==
    ASSUME TypeOK
    PROVE  /\ now \in Nat /\ ttl_seconds \in Nat /\ ttl_seconds \in Ttls
           /\ queue \in Seq(Probers)
           /\ \A answer \in Answer : answer # None /\ answer.began \in Nat
                                     /\ answer.oldest \in Nat \cup {None}
           /\ \A check \in Check : check # None /\ check.answer \in Answer
           /\ \A p \in Probers :
                  /\ checks[p] \in Check \cup {None}
                  /\ arrived[p] \in Nat \cup {None}
                  /\ replies[p] \in Reply \cup {None}
  <1>1. \A answer \in Answer : answer # None /\ answer.began \in Nat
                               /\ answer.oldest \in Nat \cup {None}
    BY NoneIsNothing DEF Answer
  <1>2. \A check \in Check : check # None /\ check.answer \in Answer
    BY NoneIsNothing DEF Check
  <1>3. QED BY <1>1, <1>2, Numbers DEF TypeOK

\* An answer that is told while it is fresh, or when its check has just ended.
LEMMA ToldWhileFresh ==
    ASSUME TypeOK, ToldInTime, NEW p \in Probers, NEW answer \in Answer,
           reply(p, answer), ttl_seconds' = ttl_seconds, dated(answer),
           now - answer.began < ttl_seconds \/ now <= answer.began + _PROBE_TIMEOUT_SECONDS
    PROVE  /\ replies' \in [Probers -> Reply \cup {None}]
           /\ replies'[p].began = answer.began
           /\ \A q \in Probers \ {p} : replies'[q] = replies[q]
           /\ ToldInTime'
  <1> DEFINE age == IF answer.oldest = None THEN 0 ELSE now - answer.oldest
             told == [began |-> answer.began, is_ready |-> answer.is_ready, age |-> age]
  <1>1. /\ now \in Nat /\ answer.began \in Nat /\ answer.oldest \in Nat \cup {None}
        /\ ttl_seconds \in Nat /\ answer.is_ready \in BOOLEAN
        /\ _PROBE_TIMEOUT_SECONDS \in Nat
    BY Held, Numbers DEF Answer
  <1>2. age \in Nat
    BY <1>1 DEF dated
  <1>3. age < ttl_seconds \/ age <= _PROBE_TIMEOUT_SECONDS
    BY <1>1 DEF dated
  <1>4. told \in Reply
    BY <1>1, <1>2 DEF Reply
  <1>5. replies' = [replies EXCEPT ![p] = told]
    BY DEF reply
  <1>6. told.age = age /\ told.began = answer.began
    OBVIOUS
  <1> HIDE DEF age, told
  <1>7. /\ replies' \in [Probers -> Reply \cup {None}]
        /\ replies'[p] = told
        /\ \A q \in Probers \ {p} : replies'[q] = replies[q]
    BY <1>4, <1>5 DEF TypeOK
  <1>8. ToldInTime'
    BY <1>3, <1>6, <1>7 DEF ToldInTime
  <1>9. QED BY <1>6, <1>7, <1>8

\* The queue, the checks and the arrivals after a prober has left.
LEMMA Left ==
    ASSUME TypeOK, LockInductive, NEW p \in Probers, leave(p)
    PROVE  /\ queue' \in Seq(Probers)
           /\ \A i, j \in DOMAIN queue' : queue'[i] = queue'[j] => i = j
           /\ \A q \in Probers : Contains(queue', q) <=> Contains(queue, q) /\ q # p
           /\ queue = <<>> => queue' = <<>>
           /\ queue # <<>> /\ p # Head(queue) =>
                  queue' # <<>> /\ Head(queue') = Head(queue)
           /\ \A j \in DOMAIN queue' : \E k \in DOMAIN queue :
                  /\ queue'[j] = queue[k] /\ queue[k] # p /\ j <= k
                  /\ p = Head(queue) => k = j + 1
           /\ checks' \in [Probers -> Check \cup {None}] /\ checks'[p] = None
           /\ arrived' \in [Probers -> Nat \cup {None}] /\ arrived'[p] = None
           /\ \A q \in Probers \ {p} : checks'[q] = checks[q] /\ arrived'[q] = arrived[q]
  <1>1. /\ queue \in Seq(Probers)
        /\ \A i, j \in DOMAIN queue : queue[i] = queue[j] => i = j
        /\ checks' = [checks EXCEPT ![p] = None]
        /\ arrived' = [arrived EXCEPT ![p] = None]
    BY DEF TypeOK, LockInductive, leave
  <1>2. /\ checks' \in [Probers -> Check \cup {None}] /\ checks'[p] = None
        /\ arrived' \in [Probers -> Nat \cup {None}] /\ arrived'[p] = None
        /\ \A q \in Probers \ {p} : checks'[q] = checks[q] /\ arrived'[q] = arrived[q]
    BY <1>1 DEF TypeOK
  <1>3. CASE ~Contains(queue, p)
    <2>1. queue' = queue
      BY <1>3 DEF leave
    <2>2. \A k \in DOMAIN queue : queue[k] # p
      BY <1>1, <1>3 DEF Contains
    <2>3. queue # <<>> => p # Head(queue)
      BY <1>1, <2>2
    <2>4. QED BY <1>1, <1>2, <1>3, <2>1, <2>2, <2>3
  <1>4. CASE Contains(queue, p)
    <2>1. PICK i \in DOMAIN queue : queue[i] = p /\ queue' = RemoveAt(queue, i)
      BY <1>4 DEF leave
    <2> DEFINE q == queue
               r == RemoveAt(q, i)
    <2>2. q \in Seq(Probers) /\ i \in DOMAIN q /\ \A j, k \in DOMAIN q : q[j] = q[k] => j = k
      BY <1>1
    <2> HIDE DEF q
    <2>3. /\ r \in Seq(Probers) /\ DOMAIN r = 1..(Len(q) - 1)
          /\ \A j \in 1..(Len(q) - 1) : r[j] = IF j < i THEN q[j] ELSE q[j + 1]
          /\ \A u \in Probers : Contains(r, u) <=> Contains(q, u) /\ u # q[i]
      BY <2>2, Removed
    <2> HIDE DEF r
    <2>4. r = queue' /\ q = queue
      BY <2>1 DEF q, r
    <2>5. /\ queue' \in Seq(Probers) /\ DOMAIN queue' = 1..(Len(queue) - 1)
          /\ DOMAIN queue = 1..Len(queue) /\ Len(queue) \in Nat
          /\ \A j \in 1..(Len(queue) - 1) :
                 queue'[j] = IF j < i THEN queue[j] ELSE queue[j + 1]
          /\ \A u \in Probers : Contains(queue', u) <=> Contains(queue, u) /\ u # p
      BY <1>1, <2>1, <2>3, <2>4
    <2>6. ASSUME NEW j \in DOMAIN queue'
          PROVE  \E k \in DOMAIN queue :
                     /\ queue'[j] = queue[k] /\ queue[k] # p /\ j <= k
                     /\ p = Head(queue) => k = j + 1
                     /\ k = IF j < i THEN j ELSE j + 1
      <3>1. PICK k \in DOMAIN queue : queue'[j] = queue[k] /\ k = IF j < i THEN j ELSE j + 1
        BY <2>5
      <3>2. k # i /\ j <= k
        BY <2>5, <3>1
      <3>3. queue[k] # p
        BY <1>1, <2>1, <3>2
      <3>4. ASSUME p = Head(queue) PROVE k = j + 1
        <4>1. queue[1] = queue[i] /\ 1 \in DOMAIN queue
          BY <1>1, <2>1, <2>5, <3>4
        <4>2. i = 1
          BY <1>1, <4>1
        <4>3. QED BY <2>5, <3>1, <4>2
      <3>5. QED BY <3>1, <3>2, <3>3, <3>4
    <2>7. ASSUME NEW j \in DOMAIN queue', NEW k \in DOMAIN queue', queue'[j] = queue'[k]
          PROVE  j = k
      <3>1. PICK m \in DOMAIN queue : queue'[j] = queue[m] /\ m = IF j < i THEN j ELSE j + 1
        BY <2>6
      <3>2. PICK n \in DOMAIN queue : queue'[k] = queue[n] /\ n = IF k < i THEN k ELSE k + 1
        BY <2>6
      <3>3. m = n
        BY <1>1, <2>7, <3>1, <3>2
      <3>4. QED BY <2>5, <3>1, <3>2, <3>3
    <2>8. ASSUME p # Head(queue) PROVE queue' # <<>> /\ Head(queue') = Head(queue)
      <3>1. i # 1 /\ 1 < i /\ 1 \in DOMAIN queue'
        BY <1>1, <2>1, <2>5, <2>8
      <3>2. queue'[1] = queue[1]
        BY <2>5, <3>1
      <3>3. QED BY <2>5, <3>1, <3>2
    <2>9. queue # <<>>
      BY <2>1
    <2>10. QED BY <1>2, <2>5, <2>6, <2>7, <2>8, <2>9
  <1>5. QED BY <1>3, <1>4

\* Whoever leaves the lock leaves the others to it.
LEMMA LeftLock ==
    ASSUME TypeOK, LockInductive, NEW p \in Probers, leave(p), waiting(p),
           UNCHANGED <<now, ttl_seconds>>,
           _cache' = _cache \/ checks[p] # None
    PROVE  LockInductive'
  <1>1. /\ \A i, j \in DOMAIN queue' : queue'[i] = queue'[j] => i = j
        /\ \A q \in Probers : Contains(queue', q) <=> Contains(queue, q) /\ q # p
        /\ queue = <<>> => queue' = <<>>
        /\ queue # <<>> /\ p # Head(queue) =>
               queue' # <<>> /\ Head(queue') = Head(queue)
        /\ checks'[p] = None /\ arrived'[p] = None
        /\ \A q \in Probers \ {p} : checks'[q] = checks[q] /\ arrived'[q] = arrived[q]
    BY Left
  <1>2. ASSUME NEW q \in Probers, checks'[q] # None, ttl_seconds > 0
        PROVE  queue' # <<>> /\ q = Head(queue') /\ ~fresh'
    <2>1. q # p /\ checks[q] # None
      BY <1>1, <1>2
    <2>2. queue # <<>> /\ q = Head(queue) /\ ~fresh
      BY <1>2, <2>1 DEF LockInductive
    <2>3. checks[p] = None
      BY <1>2, <2>1, <2>2 DEF LockInductive
    <2>4. ~fresh'
      BY <2>2, <2>3 DEF fresh
    <2>5. QED BY <1>1, <2>1, <2>2, <2>4
  <1>3. \A q \in Probers :
            /\ Contains(queue', q) => waiting(q)'
            /\ waiting(q)' /\ ttl_seconds > 0 => Contains(queue', q)
            /\ waiting(q)' /\ ttl_seconds = 0 => checks'[q] # None
            /\ checks'[q] # None => waiting(q)'
    BY <1>1 DEF LockInductive, waiting
  <1>4. QED BY <1>1, <1>2, <1>3 DEF LockInductive

\* Whoever leaves shortens the wait of those behind.
LEMMA LeftWaits ==
    ASSUME TypeOK, LockInductive, DatesInductive, WaitsInductive,
           NEW p \in Probers, leave(p), UNCHANGED <<now, ttl_seconds>>
    PROVE  WaitsInductive'
  <1> DEFINE P == _PROBE_TIMEOUT_SECONDS
             N == Cardinality(Probers)
             first == IF checks[Head(queue)] # None
                      THEN checks[Head(queue)].answer.began ELSE now
             first_then == IF checks'[Head(queue')] # None
                           THEN checks'[Head(queue')].answer.began ELSE now
  <1>1. /\ queue' \in Seq(Probers)
        /\ \A q \in Probers : Contains(queue', q) <=> Contains(queue, q) /\ q # p
        /\ queue = <<>> => queue' = <<>>
        /\ queue # <<>> /\ p # Head(queue) =>
               queue' # <<>> /\ Head(queue') = Head(queue)
        /\ \A j \in DOMAIN queue' : \E k \in DOMAIN queue :
               /\ queue'[j] = queue[k] /\ queue[k] # p /\ j <= k
               /\ p = Head(queue) => k = j + 1
        /\ checks'[p] = None
        /\ \A q \in Probers \ {p} : checks'[q] = checks[q] /\ arrived'[q] = arrived[q]
    BY Left
  <1>2. now \in Nat /\ P \in Nat /\ N \in Nat /\ ttl_seconds \in Nat /\ queue \in Seq(Probers)
    BY Held, Numbers
  <1>3. ASSUME NEW j \in DOMAIN queue'
        PROVE  first_then + P * j <= arrived'[queue'[j]] + P * N
    <2>1. PICK k \in DOMAIN queue :
              /\ queue'[j] = queue[k] /\ queue[k] # p /\ j <= k
              /\ p = Head(queue) => k = j + 1
      BY <1>1
    <2>2. /\ queue # <<>> /\ Head(queue) \in Probers /\ queue[k] \in Probers
          /\ j \in Nat /\ k \in Nat /\ ttl_seconds > 0
          /\ queue' # <<>> /\ Head(queue') \in Probers /\ Contains(queue', Head(queue'))
      <3>1. queue # <<>> /\ queue' # <<>> /\ j \in Nat /\ k \in Nat
        BY <1>1, <1>2
      <3>2. Head(queue) \in Probers /\ Head(queue') \in Probers /\ queue[k] \in Probers
        BY <1>1, <1>2, <3>1
      <3>3. Contains(queue', Head(queue'))
        BY <1>1, <3>1 DEF Contains
      <3>4. ttl_seconds > 0
        BY <1>2, <3>1 DEF LockInductive
      <3>5. QED BY <3>1, <3>2, <3>3, <3>4
    <2>3. first + P * k <= arrived[queue[k]] + P * N
      BY DEF WaitsInductive
    <2>4. arrived'[queue'[j]] = arrived[queue[k]] /\ arrived[queue[k]] \in Nat
      <3>1. Contains(queue, queue[k])
        BY <1>2, <2>1 DEF Contains
      <3>2. arrived[queue[k]] # None
        BY <2>2, <3>1 DEF LockInductive, waiting
      <3>3. QED BY <1>1, <2>1, <2>2, <3>2, Held
    <2>5. first \in Nat /\ now <= first + P
      <3>1. CASE checks[Head(queue)] # None
        <4>1. checks[Head(queue)].answer.began \in Nat
          BY <2>2, <3>1, Held
        <4>2. now <= checks[Head(queue)].answer.began + P
          BY <2>2, <3>1 DEF DatesInductive, due
        <4>3. QED BY <3>1, <4>1, <4>2
      <3>2. CASE checks[Head(queue)] = None
        BY <1>2, <3>2
      <3>3. QED BY <3>1, <3>2
    <2> HIDE DEF first
    <2>6. CASE p = Head(queue)
      <3>1. checks'[Head(queue')] = None
        <4>1. Head(queue') # p
          BY <1>1, <2>2
        <4>2. checks[Head(queue')] = None
          BY <2>2, <2>6, <4>1 DEF LockInductive
        <4>3. QED BY <1>1, <2>2, <4>1, <4>2
      <3>2. first_then = now
        BY <3>1
      <3>3. P * k = P * j + P /\ P * j \in Nat
        BY <2>1, <2>2, <2>6, Products
      <3> HIDE DEF first_then, P, N
      <3>4. P * N \in Nat
        BY <1>2
      <3>5. QED BY <1>2, <2>3, <2>4, <2>5, <3>2, <3>3, <3>4
    <2>7. CASE p # Head(queue)
      <3>1. first_then = first
        BY <1>1, <2>2, <2>7 DEF first
      <3>2. P * j <= P * k /\ P * j \in Nat /\ P * k \in Nat
        BY <2>1, <2>2, Products
      <3> HIDE DEF first_then, P, N
      <3>3. P * N \in Nat
        BY <1>2
      <3>4. QED BY <2>3, <2>4, <2>5, <3>1, <3>2, <3>3
    <2>8. QED BY <2>6, <2>7
  <1>4. ttl_seconds' = 0 =>
            \A q \in Probers : checks'[q] # None => arrived'[q] = checks'[q].answer.began
    BY <1>1 DEF WaitsInductive
  <1>5. QED BY <1>3, <1>4 DEF WaitsInductive

-----------------------------------------------------------------------------
\* Nobody has asked.
LEMMA InitStep == Init => ReadinessInductive
  <1> SUFFICES ASSUME Init PROVE ReadinessInductive
    OBVIOUS
  <1>1. TypeOK /\ ToldInTime
    BY DEF Init, TypeOK, ToldInTime
  <1>2. LockInductive
    BY DEF Init, LockInductive, waiting, Contains
  <1>3. DatesInductive /\ WaitsInductive
    BY DEF Init, DatesInductive, WaitsInductive
  <1>4. QED BY <1>1, <1>2, <1>3 DEF ReadinessInductive

\* A prober that is answered from the cache.
LEMMA FreshReply ==
    ASSUME ReadinessInductive, fresh, NEW p \in Probers, reply(p, _cache), ttl_seconds > 0,
           UNCHANGED <<now, ttl_seconds, _cache>>,
           \A q \in Probers : checks'[q] # None => checks'[q] = checks[q]
    PROVE  /\ replies' \in [Probers -> Reply \cup {None}]
           /\ ToldInTime'
           /\ DatesInductive'
  <1>1. /\ TypeOK /\ ToldInTime /\ DatesInductive /\ _cache \in Answer
        /\ dated(_cache) /\ now - _cache.began < ttl_seconds
    BY DEF ReadinessInductive, TypeOK, DatesInductive, fresh
  <1>2. /\ replies' \in [Probers -> Reply \cup {None}]
        /\ replies'[p].began = _cache.began
        /\ \A q \in Probers \ {p} : replies'[q] = replies[q]
        /\ ToldInTime'
    BY <1>1, ToldWhileFresh
  <1>3. _cache # None /\ _cache.began \in Nat
    BY <1>1, Held
  <1>4. DatesInductive'
    BY <1>1, <1>2, <1>3 DEF DatesInductive, dated, due
  <1>5. QED BY <1>2, <1>4

\* The head of the queue finds what another has checked.
LEMMA FindRefreshedStep ==
    ASSUME ReadinessInductive, NEW p \in Probers, find_refreshed(p)
    PROVE  ReadinessInductive'
  <1>1. /\ TypeOK /\ ToldInTime /\ LockInductive /\ DatesInductive /\ WaitsInductive
        /\ has_lock(p) /\ fresh /\ reply(p, _cache) /\ leave(p)
        /\ UNCHANGED <<now, ttl_seconds, _cache>>
    BY DEF ReadinessInductive, find_refreshed
  <1>2. /\ queue # <<>> /\ p = Head(queue) /\ Contains(queue, p) /\ waiting(p)
        /\ ttl_seconds > 0
    <2>1. queue # <<>> /\ p = Head(queue) /\ Contains(queue, p)
      BY <1>1, Held DEF has_lock, Contains
    <2>2. QED BY <1>1, <2>1, Held DEF LockInductive
  <1>3. /\ queue' \in Seq(Probers) /\ checks' \in [Probers -> Check \cup {None}]
        /\ arrived' \in [Probers -> Nat \cup {None}] /\ checks'[p] = None
        /\ \A q \in Probers \ {p} : checks'[q] = checks[q]
    BY <1>1, Left
  <1>4. replies' \in [Probers -> Reply \cup {None}] /\ ToldInTime' /\ DatesInductive'
    BY <1>1, <1>2, <1>3, FreshReply
  <1>5. LockInductive' /\ WaitsInductive'
    BY <1>1, <1>2, LeftLock, LeftWaits
  <1>6. TypeOK'
    BY <1>1, <1>3, <1>4 DEF TypeOK, Answer, Check, Reply
  <1>7. QED BY <1>4, <1>5, <1>6 DEF ReadinessInductive

\* A check is over: it is cached and told.
LEMMA CheckEndsStep ==
    ASSUME ReadinessInductive, NEW p \in Probers, check_ends(p)
    PROVE  ReadinessInductive'
  <1> DEFINE answer == checks[p].answer
  <1>1. /\ TypeOK /\ ToldInTime /\ LockInductive /\ DatesInductive /\ WaitsInductive
        /\ checks[p] # None /\ reply(p, answer) /\ leave(p)
        /\ _cache' = (IF ttl_seconds > 0 THEN answer ELSE _cache)
        /\ UNCHANGED <<now, ttl_seconds>>
    BY DEF ReadinessInductive, check_ends, cached
  <1>2. /\ answer \in Answer /\ answer # None /\ answer.began \in Nat
        /\ ttl_seconds \in Nat /\ now \in Nat
    BY <1>1, Held
  <1>3. /\ dated(answer) /\ now <= answer.began + _PROBE_TIMEOUT_SECONDS /\ waiting(p)
        /\ ttl_seconds > 0 /\ _cache # None => answer.began >= _cache.began + ttl_seconds
    BY <1>1 DEF DatesInductive, LockInductive, due
  <1> HIDE DEF answer
  <1>4. /\ queue' \in Seq(Probers) /\ checks' \in [Probers -> Check \cup {None}]
        /\ arrived' \in [Probers -> Nat \cup {None}] /\ checks'[p] = None
        /\ \A q \in Probers \ {p} : checks'[q] = checks[q]
    BY <1>1, Left
  <1>5. /\ replies' \in [Probers -> Reply \cup {None}]
        /\ replies'[p].began = answer.began
        /\ \A q \in Probers \ {p} : replies'[q] = replies[q]
        /\ ToldInTime'
    BY <1>1, <1>2, <1>3, ToldWhileFresh
  <1>6. LockInductive' /\ WaitsInductive'
    BY <1>1, <1>3, LeftLock, LeftWaits
  <1>7. CASE ttl_seconds > 0
    <2>1. _cache' = answer
      BY <1>1, <1>7
    <2>2. \A q \in Probers : checks'[q] = None
      BY <1>1, <1>4, <1>7 DEF LockInductive
    <2>3. ASSUME NEW q \in Probers, replies'[q] # None
          PROVE  replies'[q].began <= answer.began
      <3>1. CASE q = p
        BY <1>2, <1>5, <3>1
      <3>2. CASE q # p
        <4>1. replies[q] # None /\ replies'[q] = replies[q]
          BY <1>5, <2>3, <3>2
        <4>2. replies[q].began \in Nat
          BY <1>1, <4>1, Held DEF Reply
        <4>3. _cache # None /\ replies[q].began <= _cache.began
          BY <1>1, <1>7, <4>1 DEF DatesInductive
        <4>4. _cache.began \in Nat
          BY <1>1, <4>3, Held DEF TypeOK
        <4>5. QED BY <1>2, <1>3, <1>7, <4>1, <4>2, <4>3, <4>4
      <3>3. QED BY <3>1, <3>2
    <2>4. DatesInductive'
      BY <1>1, <1>2, <1>3, <2>1, <2>2, <2>3 DEF DatesInductive, dated
    <2>5. TypeOK'
      BY <1>1, <1>2, <1>4, <1>5, <2>1 DEF TypeOK, Answer, Check, Reply
    <2>6. QED BY <1>5, <1>6, <2>4, <2>5 DEF ReadinessInductive
  <1>8. CASE ttl_seconds = 0
    <2>1. _cache' = _cache
      BY <1>1, <1>8
    <2>2. DatesInductive'
      BY <1>1, <1>4, <1>8, <2>1 DEF DatesInductive, dated, due
    <2>3. TypeOK'
      BY <1>1, <1>4, <1>5, <2>1 DEF TypeOK, Answer, Check, Reply
    <2>4. QED BY <1>5, <1>6, <2>2, <2>3 DEF ReadinessInductive
  <1>9. QED BY <1>2, <1>7, <1>8

\* A request is cancelled, and its check with it.
LEMMA GiveUpStep ==
    ASSUME ReadinessInductive, NEW p \in Probers, cancel(p)
    PROVE  ReadinessInductive'
  <1>1. /\ TypeOK /\ ToldInTime /\ LockInductive /\ DatesInductive /\ WaitsInductive
        /\ waiting(p) /\ leave(p) /\ UNCHANGED <<now, ttl_seconds, _cache, replies>>
    BY DEF ReadinessInductive, cancel
  <1>2. /\ queue' \in Seq(Probers) /\ checks' \in [Probers -> Check \cup {None}]
        /\ arrived' \in [Probers -> Nat \cup {None}] /\ checks'[p] = None
        /\ \A q \in Probers \ {p} : checks'[q] = checks[q]
    BY <1>1, Left
  <1>3. LockInductive' /\ WaitsInductive'
    BY <1>1, LeftLock, LeftWaits
  <1>4. DatesInductive' /\ ToldInTime'
    BY <1>1, <1>2 DEF DatesInductive, dated, due, ToldInTime
  <1>5. TypeOK'
    BY <1>1, <1>2 DEF TypeOK, Answer, Check, Reply
  <1>6. QED BY <1>3, <1>4, <1>5 DEF ReadinessInductive

-----------------------------------------------------------------------------
\* The check a prober begins.
LEMMA CheckBegins ==
    ASSUME TypeOK, NEW p \in Probers, check_all(p)
    PROVE  /\ checks' \in [Probers -> Check \cup {None}]
           /\ checks'[p] # None /\ checks'[p].answer.began = now
           /\ checks'[p].answer.oldest = None
           /\ \A q \in Probers \ {p} : checks'[q] = checks[q]
  <1> DEFINE begun == [pending |-> _dependencies,
                       answer |-> [began |-> now, oldest |-> None, is_ready |-> TRUE]]
  <1>1. begun \in Check
    BY Held DEF Check, Answer
  <1>2. begun # None /\ begun.answer.began = now /\ begun.answer.oldest = None
    BY <1>1, Held
  <1>3. checks' = [checks EXCEPT ![p] = begun] /\ checks \in [Probers -> Check \cup {None}]
    BY DEF check_all, TypeOK
  <1> HIDE DEF begun
  <1>4. QED BY <1>1, <1>2, <1>3

\* A prober that arrives: it checks for itself, is answered, or queues.
LEMMA ReadyStep ==
    ASSUME ReadinessInductive, NEW p \in Probers, ready(p)
    PROVE  ReadinessInductive'
  <1>1. /\ TypeOK /\ ToldInTime /\ LockInductive /\ DatesInductive /\ WaitsInductive
        /\ ~waiting(p) /\ UNCHANGED <<now, ttl_seconds, _cache>>
        /\ now \in Nat /\ ttl_seconds \in Nat /\ _PROBE_TIMEOUT_SECONDS \in Nat
        /\ now # None
    BY Held, Numbers, NoneIsNothing DEF ReadinessInductive, ready
  <1>2. ASSUME wait(p)
        PROVE  /\ arrived' \in [Probers -> Nat \cup {None}] /\ arrived'[p] = now
               /\ \A q \in Probers \ {p} : arrived'[q] = arrived[q] /\ replies'[q] = replies[q]
               /\ replies' \in [Probers -> Reply \cup {None}] /\ replies'[p] = None
               /\ ToldInTime'
    <2>1. /\ arrived' = [arrived EXCEPT ![p] = now] /\ replies' = [replies EXCEPT ![p] = None]
          /\ arrived \in [Probers -> Nat \cup {None}] /\ replies \in [Probers -> Reply \cup {None}]
      BY <1>1, <1>2 DEF wait, TypeOK
    <2>2. /\ arrived' \in [Probers -> Nat \cup {None}] /\ arrived'[p] = now
          /\ \A q \in Probers \ {p} : arrived'[q] = arrived[q] /\ replies'[q] = replies[q]
          /\ replies' \in [Probers -> Reply \cup {None}] /\ replies'[p] = None
      BY <1>1, <2>1
    <2>3. ToldInTime'
      BY <1>1, <2>2 DEF ToldInTime
    <2>4. QED BY <2>2, <2>3
  <1>3. CASE ttl_seconds = 0 /\ check_all(p) /\ wait(p) /\ UNCHANGED queue
    <2>1. /\ checks' \in [Probers -> Check \cup {None}]
          /\ checks'[p] # None /\ checks'[p].answer.began = now
          /\ checks'[p].answer.oldest = None
          /\ \A q \in Probers \ {p} : checks'[q] = checks[q]
      BY <1>1, <1>3, CheckBegins
    <2>2. queue = <<>> /\ queue' = <<>> /\ \A q \in Probers : ~Contains(queue', q)
      BY <1>1, <1>3 DEF LockInductive, Contains
    <2>3. LockInductive'
      BY <1>1, <1>2, <1>3, <2>1, <2>2 DEF LockInductive, waiting
    <2>4. DatesInductive'
      BY <1>1, <1>2, <1>3, <2>1 DEF DatesInductive, dated, due
    <2>5. WaitsInductive'
      BY <1>1, <1>2, <1>3, <2>1, <2>2 DEF WaitsInductive
    <2>6. TypeOK'
      BY <1>1, <1>2, <1>3, <2>1 DEF TypeOK, Answer, Check, Reply
    <2>7. QED BY <1>2, <1>3, <2>3, <2>4, <2>5, <2>6 DEF ReadinessInductive
  <1>4. CASE ttl_seconds > 0 /\ fresh /\ reply(p, _cache) /\ UNCHANGED <<queue, checks, arrived>>
    <2>1. replies' \in [Probers -> Reply \cup {None}] /\ ToldInTime' /\ DatesInductive'
      BY <1>1, <1>4, FreshReply
    <2>2. LockInductive' /\ WaitsInductive'
      BY <1>1, <1>4 DEF LockInductive, WaitsInductive, waiting, fresh
    <2>3. TypeOK'
      BY <1>1, <1>4, <2>1 DEF TypeOK, Answer, Check, Reply
    <2>4. QED BY <2>1, <2>2, <2>3 DEF ReadinessInductive
  <1>5. CASE /\ ttl_seconds > 0 /\ ~fresh /\ queue' = Append(queue, p) /\ wait(p)
             /\ UNCHANGED checks
    <2>1. /\ queue \in Seq(Probers) /\ queue' \in Seq(Probers) /\ Len(queue) \in Nat
          /\ DOMAIN queue = 1..Len(queue) /\ DOMAIN queue' = 1..(Len(queue) + 1)
          /\ Len(queue') = Len(queue) + 1
          /\ \A i \in 1..Len(queue) : queue'[i] = queue[i]
          /\ queue'[Len(queue) + 1] = p
      BY <1>1, <1>5 DEF TypeOK
    <2>2. ~Contains(queue, p) /\ checks[p] = None
      BY <1>1 DEF LockInductive
    <2>3. \A i \in 1..Len(queue) : queue[i] # p
      BY <2>2 DEF Contains
    <2>4. \A i, j \in DOMAIN queue' : queue'[i] = queue'[j] => i = j
      BY <1>1, <2>1, <2>3 DEF LockInductive
    <2>5. \A q \in Probers : Contains(queue', q) <=> Contains(queue, q) \/ q = p
      BY <2>1 DEF Contains
    <2>6. queue' # <<>> /\ (queue # <<>> => Head(queue') = Head(queue))
      BY <2>1
    <2>7. LockInductive'
      BY <1>1, <1>2, <1>5, <2>2, <2>4, <2>5, <2>6 DEF LockInductive, waiting, fresh
    <2>8. DatesInductive'
      BY <1>1, <1>2, <1>5 DEF DatesInductive, dated, due
    <2>9. Len(queue) + 1 <= Cardinality(Probers)
      <3> DEFINE q == queue'
      <3>1. q \in Seq(Probers) /\ \A i, j \in DOMAIN q : q[i] = q[j] => i = j
        BY <2>1, <2>4
      <3>2. Len(q) = Len(queue) + 1 /\ IsFiniteSet(Probers)
        BY <2>1, ReadinessAssumption
      <3> HIDE DEF q
      <3>3. Len(q) <= Cardinality(Probers)
        BY <3>1, <3>2, QueueFits
      <3>4. QED BY <3>2, <3>3
    <2> DEFINE P == _PROBE_TIMEOUT_SECONDS
               first == IF checks[Head(queue')] # None
                        THEN checks[Head(queue')].answer.began ELSE now
    <2>10. first \in Nat /\ first <= now
      <3>1. Head(queue') \in Probers
        BY <2>1, <2>6
      <3>2. CASE checks[Head(queue')] # None
        BY <1>1, <3>1, <3>2, Held DEF DatesInductive, dated
      <3>3. QED BY <1>1, <3>2
    <2>11. ASSUME NEW i \in DOMAIN queue'
           PROVE  first + P * i <= arrived'[queue'[i]] + P * Cardinality(Probers)
      <3>1. CASE i \in 1..Len(queue)
        <4>1. Head(queue') = Head(queue) /\ queue[i] \in Probers \ {p}
          BY <2>1, <2>3, <2>6, <3>1
        <4>2. first + P * i <= arrived[queue[i]] + P * Cardinality(Probers)
          BY <1>1, <2>1, <3>1, <4>1 DEF WaitsInductive
        <4>3. arrived'[queue'[i]] = arrived[queue[i]]
          BY <1>2, <1>5, <2>1, <3>1, <4>1
        <4>4. QED BY <4>2, <4>3
      <3>2. CASE i = Len(queue) + 1
        <4>1. arrived'[queue'[i]] = now
          BY <1>2, <1>5, <2>1, <3>2
        <4>2. /\ i \in Nat /\ P * i <= P * Cardinality(Probers) /\ P * i \in Nat
              /\ P * Cardinality(Probers) \in Nat
          BY <2>1, <2>9, <3>2, Numbers, Products
        <4> HIDE DEF P, first
        <4>3. QED BY <1>1, <2>10, <4>1, <4>2
      <3>3. QED BY <2>1, <3>1, <3>2
    <2>12. WaitsInductive'
      BY <1>1, <1>5, <2>11 DEF WaitsInductive
    <2>13. TypeOK'
      BY <1>1, <1>2, <1>5, <2>1 DEF TypeOK, Answer, Check, Reply
    <2>14. QED BY <1>2, <1>5, <2>7, <2>8, <2>12, <2>13 DEF ReadinessInductive
  <1>6. QED BY <1>1, <1>3, <1>4, <1>5 DEF ready

\* The head of the queue begins a check.
LEMMA BeginCheckStep ==
    ASSUME ReadinessInductive, NEW p \in Probers, begin_check(p)
    PROVE  ReadinessInductive'
  <1>1. /\ TypeOK /\ ToldInTime /\ LockInductive /\ DatesInductive /\ WaitsInductive
        /\ has_lock(p) /\ ~fresh /\ check_all(p)
        /\ UNCHANGED <<now, ttl_seconds, _cache, queue, arrived, replies>>
        /\ now \in Nat /\ ttl_seconds \in Nat /\ _PROBE_TIMEOUT_SECONDS \in Nat
    BY Held, Numbers DEF ReadinessInductive, begin_check
  <1>2. /\ queue # <<>> /\ p = Head(queue) /\ Contains(queue, p) /\ waiting(p)
        /\ ttl_seconds > 0 /\ checks[p] = None
    <2>1. queue # <<>> /\ p = Head(queue) /\ Contains(queue, p)
      BY <1>1, Held DEF has_lock, Contains
    <2>2. QED BY <1>1, <2>1 DEF LockInductive, has_lock
  <1>3. /\ checks' \in [Probers -> Check \cup {None}]
        /\ checks'[p] # None /\ checks'[p].answer.began = now
        /\ checks'[p].answer.oldest = None
        /\ \A q \in Probers \ {p} : checks'[q] = checks[q]
    BY <1>1, CheckBegins
  <1>4. LockInductive'
    BY <1>1, <1>2, <1>3 DEF LockInductive, waiting, fresh
  <1>5. _cache # None => now >= _cache.began + ttl_seconds
    <2>1. _cache # None => _cache.began \in Nat
      BY <1>1, Held DEF TypeOK
    <2>2. QED BY <1>1, <2>1 DEF fresh
  <1>6. DatesInductive'
    BY <1>1, <1>3, <1>5 DEF DatesInductive, dated, due
  <1>7. WaitsInductive'
    BY <1>1, <1>2, <1>3 DEF WaitsInductive
  <1>8. ToldInTime'
    BY <1>1 DEF ToldInTime
  <1>9. TypeOK'
    BY <1>1, <1>3 DEF TypeOK, Answer, Check, Reply
  <1>10. QED BY <1>4, <1>6, <1>7, <1>8, <1>9 DEF ReadinessInductive

\* A dependency has reported.
LEMMA ProbeEndsStep ==
    ASSUME ReadinessInductive, NEW p \in Probers, NEW d \in _dependencies, probe_ends(p, d)
    PROVE  ReadinessInductive'
  <1>1. /\ TypeOK /\ ToldInTime /\ LockInductive /\ DatesInductive /\ WaitsInductive
        /\ checks[p] # None
        /\ UNCHANGED <<now, ttl_seconds, _cache, queue, arrived, replies>>
        /\ now \in Nat /\ now # None
    BY Held, NoneIsNothing DEF ReadinessInductive, probe_ends
  <1>2. PICK healthy \in BOOLEAN :
            checks' = [checks EXCEPT ![p] =
                          [pending |-> @.pending \ {d},
                           answer |-> reported(@.answer, healthy)]]
    BY DEF probe_ends
  <1>3. checks \in [Probers -> Check \cup {None}] /\ checks[p] \in Check
    BY <1>1, Held DEF TypeOK
  <1> DEFINE was == checks[p].answer
             oldest == IF was.oldest = None THEN now ELSE was.oldest
             answer == [began |-> was.began, oldest |-> oldest,
                        is_ready |-> was.is_ready /\ healthy]
             check == [pending |-> checks[p].pending \ {d}, answer |-> answer]
  <1>4. /\ was \in Answer /\ was.began \in Nat /\ was.oldest \in Nat \cup {None}
        /\ was.is_ready \in BOOLEAN
    BY <1>3 DEF Check, Answer
  <1>5. check \in Check
    <2>1. answer \in Answer
      BY <1>1, <1>4 DEF Answer
    <2>2. checks[p].pending \ {d} \in SUBSET _dependencies
      BY <1>3 DEF Check
    <2>3. QED BY <2>1, <2>2 DEF Check
  <1>6. checks' = [checks EXCEPT ![p] = check]
    BY <1>2, <1>3 DEF reported
  <1>7. /\ check.answer.began = was.began /\ check.answer.oldest = oldest /\ check # None
    BY <1>5, NoneIsNothing
  <1>8. was.began <= now /\ oldest \in Nat /\ was.began <= oldest /\ oldest <= now
    BY <1>1, <1>4 DEF DatesInductive, dated
  <1> HIDE DEF check, answer, oldest
  <1>9. /\ checks' \in [Probers -> Check \cup {None}] /\ checks'[p] = check
        /\ \A q \in Probers \ {p} : checks'[q] = checks[q]
    BY <1>3, <1>5, <1>6
  <1>10. \A q \in Probers : /\ checks'[q] # None <=> checks[q] # None
                            /\ checks[q] # None =>
                                   checks'[q].answer.began = checks[q].answer.began
    BY <1>1, <1>7, <1>9
  <1>11. LockInductive'
    BY <1>1, <1>10 DEF LockInductive, waiting, fresh
  <1>12. DatesInductive'
    <2>1. ASSUME NEW q \in Probers, checks'[q] # None
          PROVE  /\ dated(checks[q].answer)'
                 /\ now' <= due(q)'
                 /\ ttl_seconds' > 0 /\ _cache' # None =>
                        checks'[q].answer.began >= _cache'.began + ttl_seconds'
      <3>1. dated(checks[q].answer)'
        BY <1>1, <1>7, <1>8, <1>9, <2>1 DEF DatesInductive, dated
      <3>2. now' <= due(q)'
        BY <1>1, <1>10, <2>1 DEF DatesInductive, due
      <3>3. QED BY <1>1, <1>10, <2>1, <3>1, <3>2 DEF DatesInductive
    <2>2. QED BY <1>1, <2>1 DEF DatesInductive, dated
  <1>13. WaitsInductive'
    <2>1. queue # <<>> => Head(queue) \in Probers
      BY <1>1, Held
    <2>2. \A i \in DOMAIN queue : queue # <<>>
      BY <1>1, Held
    <2>3. QED BY <1>1, <1>10, <2>1, <2>2 DEF WaitsInductive
  <1>14. ToldInTime'
    BY <1>1 DEF ToldInTime
  <1>15. TypeOK'
    BY <1>1, <1>9 DEF TypeOK, Answer, Check, Reply
  <1>16. QED BY <1>11, <1>12, <1>13, <1>14, <1>15 DEF ReadinessInductive

\* Time passes while everybody waits.
LEMMA TickStep ==
    ASSUME ReadinessInductive, tick
    PROVE  ReadinessInductive'
  <1>1. /\ TypeOK /\ ToldInTime /\ LockInductive /\ DatesInductive /\ WaitsInductive
        /\ now' = now + 1 /\ now \in Nat /\ ttl_seconds \in Nat
        /\ UNCHANGED <<ttl_seconds, _cache, queue, checks, arrived, replies>>
        /\ \A p \in Probers : ~has_lock(p) /\ (checks[p] # None => now < due(p))
        /\ _PROBE_TIMEOUT_SECONDS \in Nat
    BY Held, Numbers DEF ReadinessInductive, tick
  <1>2. fresh' => fresh
    <2>1. _cache # None => _cache.began \in Nat
      BY <1>1, Held DEF TypeOK
    <2>2. QED BY <1>1, <2>1 DEF fresh
  <1>3. LockInductive'
    BY <1>1, <1>2 DEF LockInductive, waiting
  <1>4. \A answer \in Answer : dated(answer) => dated(answer)'
    BY <1>1, Held DEF dated
  <1>5. DatesInductive'
    <2>1. _cache # None => dated(_cache)'
      BY <1>1, <1>4 DEF DatesInductive, TypeOK
    <2>2. ASSUME NEW p \in Probers, checks[p] # None
          PROVE  dated(checks[p].answer)' /\ now + 1 <= due(p)
      <3>1. checks[p].answer \in Answer /\ checks[p].answer.began \in Nat
        BY <1>1, <2>2, Held
      <3>2. dated(checks[p].answer)'
        BY <1>1, <1>4, <2>2, <3>1 DEF DatesInductive
      <3>3. QED BY <1>1, <2>2, <3>1, <3>2 DEF due
    <2>3. QED BY <1>1, <2>1, <2>2 DEF DatesInductive, dated, due
  <1>6. queue # <<>> => checks[Head(queue)] # None
    BY <1>1, Held DEF has_lock
  <1>7. \A i \in DOMAIN queue : queue # <<>>
    BY <1>1, Held
  <1>8. WaitsInductive'
    BY <1>1, <1>6, <1>7 DEF WaitsInductive
  <1>9. ToldInTime'
    BY <1>1 DEF ToldInTime
  <1>10. TypeOK'
    BY <1>1 DEF TypeOK, Answer, Check, Reply
  <1>11. QED BY <1>3, <1>5, <1>8, <1>9, <1>10 DEF ReadinessInductive

\* A step of somebody else.
LEMMA Stutter ==
    ASSUME ReadinessInductive, UNCHANGED vars
    PROVE  ReadinessInductive'
  <1>1. /\ TypeOK /\ ToldInTime /\ LockInductive /\ DatesInductive /\ WaitsInductive
        /\ UNCHANGED <<now, ttl_seconds, _cache, queue, checks, arrived, replies>>
    BY DEF ReadinessInductive, vars
  <1>2. TypeOK' /\ ToldInTime'
    BY <1>1 DEF TypeOK, ToldInTime, Answer, Check, Reply
  <1>3. LockInductive' /\ WaitsInductive'
    BY <1>1 DEF LockInductive, WaitsInductive, waiting, fresh
  <1>4. DatesInductive'
    BY <1>1 DEF DatesInductive, dated, due
  <1>5. QED BY <1>2, <1>3, <1>4 DEF ReadinessInductive

\* No step breaks the invariant.
LEMMA ReadinessStep == ReadinessInductive /\ [Next]_vars => ReadinessInductive'
  BY ReadyStep, FindRefreshedStep, BeginCheckStep, ProbeEndsStep, CheckEndsStep, GiveUpStep,
     TickStep, Stutter DEF Next, Resumed

-----------------------------------------------------------------------------
\* The inductive invariant of the readiness answer (integrations/registry.py:59-95).
THEOREM ReadinessInductiveHolds == Spec => []ReadinessInductive
  <1>1. QED BY InitStep, ReadinessStep, PTL DEF Spec

\* Every variable keeps its type.
THEOREM ReadinessTypeCorrect == Spec => []TypeOK
  <1>1. ReadinessInductive => TypeOK
    BY DEF ReadinessInductive
  <1>2. QED BY <1>1, ReadinessInductiveHolds, PTL

\* What a prober is told is recent, for every ttl and timeout
\* (integrations/registry.py:66-69).
THEOREM ToldWhatIsRecent == Spec => []ToldInTime
  <1>1. ReadinessInductive => ToldInTime
    BY DEF ReadinessInductive
  <1>2. QED BY <1>1, ReadinessInductiveHolds, PTL

\* However many probers there are, one check is made per ttl
\* (integrations/registry.py:75).
THEOREM OneCheckPerTtl == Spec => []OncePerTtl
  <1>1. ReadinessInductive => OncePerTtl
    <2> SUFFICES ASSUME ReadinessInductive, ttl_seconds > 0, NEW p \in Probers, checks[p] # None
                 PROVE  /\ \A q \in Probers \ {p} : checks[q] = None
                        /\ \A q \in Probers : replies[q] # None =>
                               checks[p].answer.began >= replies[q].began + ttl_seconds
      BY DEF OncePerTtl
    <2>1. TypeOK /\ LockInductive /\ DatesInductive /\ ttl_seconds \in Nat
      BY Held DEF ReadinessInductive
    <2>2. \A q \in Probers \ {p} : checks[q] = None
      BY <2>1 DEF LockInductive
    <2>3. ASSUME NEW q \in Probers, replies[q] # None
          PROVE  checks[p].answer.began >= replies[q].began + ttl_seconds
      <3>1. _cache # None /\ replies[q].began <= _cache.began
        BY <2>1, <2>3 DEF DatesInductive
      <3>2. checks[p].answer.began >= _cache.began + ttl_seconds
        BY <2>1, <3>1 DEF DatesInductive
      <3>3. _cache.began \in Nat /\ replies[q].began \in Nat /\ checks[p].answer.began \in Nat
        BY <2>1, <2>3, <3>1, Held DEF TypeOK, Reply
      <3>4. QED BY <2>1, <3>1, <3>2, <3>3
    <2>4. QED BY <2>2, <2>3
  <1>2. QED BY <1>1, ReadinessInductiveHolds, PTL

\* However many probers wait, each waits for no more than one check of every prober
\* there is (integrations/registry.py:59-63).
THEOREM WaitsAreShared == Spec => []AnsweredInTime
  <1> DEFINE P == _PROBE_TIMEOUT_SECONDS
             N == Cardinality(Probers)
  <1>1. ReadinessInductive => AnsweredInTime
    <2> SUFFICES ASSUME ReadinessInductive, NEW p \in Probers, waiting(p)
                 PROVE  now - arrived[p] <= P * N
      BY DEF AnsweredInTime
    <2>1. /\ TypeOK /\ LockInductive /\ DatesInductive /\ WaitsInductive
          /\ now \in Nat /\ ttl_seconds \in Nat /\ queue \in Seq(Probers)
          /\ arrived[p] \in Nat /\ P \in Nat /\ N \in Nat
      BY Held, Numbers DEF ReadinessInductive, waiting
    <2>2. CASE ttl_seconds > 0
      <3>1. PICK i \in DOMAIN queue : queue[i] = p
        BY <2>1, <2>2 DEF LockInductive, Contains
      <3>2. i \in Nat /\ i >= 1 /\ queue # <<>> /\ Head(queue) \in Probers
        BY <2>1, <3>1
      <3> DEFINE first == IF checks[Head(queue)] # None
                          THEN checks[Head(queue)].answer.began ELSE now
      <3>3. first + P * i <= arrived[p] + P * N
        BY <2>1, <3>1 DEF WaitsInductive
      <3>4. first \in Nat /\ now <= first + P
        <4>1. CASE checks[Head(queue)] # None
          <5>1. checks[Head(queue)].answer.began \in Nat
            BY <2>1, <3>2, <4>1, Held
          <5>2. now <= checks[Head(queue)].answer.began + P
            BY <2>1, <3>2, <4>1 DEF DatesInductive, due
          <5>3. QED BY <4>1, <5>1, <5>2
        <4>2. CASE checks[Head(queue)] = None
          BY <2>1, <4>2
        <4>3. QED BY <4>1, <4>2
      <3>5. P <= P * i /\ P * i \in Nat /\ P * N \in Nat
        BY <2>1, <3>2, Products
      <3> HIDE DEF first, P, N
      <3>6. QED BY <2>1, <3>3, <3>4, <3>5
    <2>3. CASE ttl_seconds = 0
      <3>1. checks[p] # None
        BY <2>1, <2>3 DEF LockInductive
      <3>2. arrived[p] = checks[p].answer.began /\ now <= checks[p].answer.began + P
        BY <2>1, <2>3, <3>1 DEF WaitsInductive, DatesInductive, due
      <3>3. P <= P * N /\ P * N \in Nat
        <4>1. N # 0
          BY ReadinessAssumption, FS_EmptySet
        <4>2. N >= 1
          BY <2>1, <4>1
        <4>3. QED BY <2>1, <4>2, Products
      <3> HIDE DEF P, N
      <3>4. QED BY <2>1, <3>2, <3>3
    <2>4. QED BY <2>1, <2>2, <2>3
  <1>2. QED BY <1>1, ReadinessInductiveHolds, PTL

=============================================================================
