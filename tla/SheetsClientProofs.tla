-------------------------- MODULE SheetsClientProofs --------------------------
(***************************************************************************)
(* The cached access token, for every set of tasks, every lifetime, margin *)
(* and limit: what is handed out still serves, a token that serves is never*)
(* replaced, a task sits through no more exchanges than there are tasks,   *)
(* no request of the client outlives the token it carries, and each call   *)
(* of the client is a retry_async whose attempts are bounded.              *)
(***************************************************************************)
EXTENDS SheetsClient, DataLemmas

\* There are finitely many tasks.
LEMMA TasksAreCounted == Cardinality(Tasks) \in Nat
  BY TokenAssumption, FS_CardinalityType

\* Whoever leaves the lock, with an exchange or from behind one, nobody else loses.
LEMMA LockLeft ==
    ASSUME TypeOK, LockInductive, NEW t \in Tasks, leave(t),
           \/ exchange = Idle /\ exchange' = Idle
           \/ exchange # Idle /\ exchange' = Idle /\ t = Head(queue)
           \/ exchange # Idle /\ exchange' = exchange /\ t # Head(queue),
           exchange' # Idle => ~warm'
    PROVE  LockInductive'
  <1>1. PICK i \in DOMAIN queue : queue[i] = t /\ queue' = RemoveAt(queue, i)
    BY DEF leave
  <1>2. /\ queue \in Seq(Tasks) /\ sat_through \in [Tasks -> Nat]
        /\ \A j, k \in DOMAIN queue : queue[j] = queue[k] => j = k
    BY DEF TypeOK, LockInductive
  <1>3. /\ queue' \in Seq(Tasks) /\ DOMAIN queue' = 1..(Len(queue) - 1)
        /\ \A j \in 1..(Len(queue) - 1) :
               queue'[j] = IF j < i THEN queue[j] ELSE queue[j + 1]
        /\ \A u \in Tasks : Contains(queue', u) <=> Contains(queue, u) /\ u # queue[i]
    <2> DEFINE q == queue
               r == RemoveAt(q, i)
    <2>1. q \in Seq(Tasks) /\ i \in DOMAIN q /\ \A j, k \in DOMAIN q : q[j] = q[k] => j = k
      BY <1>2
    <2> HIDE DEF q
    <2>2. /\ r \in Seq(Tasks) /\ DOMAIN r = 1..(Len(q) - 1)
          /\ \A j \in 1..(Len(q) - 1) : r[j] = IF j < i THEN q[j] ELSE q[j + 1]
          /\ \A u \in Tasks : Contains(r, u) <=> Contains(q, u) /\ u # q[i]
      BY <2>1, Removed
    <2> HIDE DEF r
    <2>3. r = queue' /\ q = queue
      BY <1>1 DEF q, r
    <2>4. QED BY <2>2, <2>3
  <1>4. ASSUME NEW j \in DOMAIN queue', NEW k \in DOMAIN queue', queue'[j] = queue'[k]
        PROVE  j = k
    <2>1. j \in 1..(Len(queue) - 1) /\ k \in 1..(Len(queue) - 1) /\ Len(queue) \in Nat
          /\ i \in 1..Len(queue)
      BY <1>2, <1>3
    <2>2. DOMAIN queue = 1..Len(queue)
      BY <1>2
    <2>3. PICK m \in DOMAIN queue : queue'[j] = queue[m] /\ m = IF j < i THEN j ELSE j + 1
      BY <1>3, <2>1, <2>2
    <2>4. PICK n \in DOMAIN queue : queue'[k] = queue[n] /\ n = IF k < i THEN k ELSE k + 1
      BY <1>3, <2>1, <2>2
    <2>5. m = n
      BY <1>2, <1>4, <2>3, <2>4
    <2>6. QED BY <2>1, <2>3, <2>4, <2>5
  <1>5. exchange' # Idle' => queue' # <<>> /\ ~warm'
    <2> SUFFICES ASSUME exchange' # Idle PROVE queue' # <<>> /\ ~warm'
      BY DEF Idle
    <2>1. t # Head(queue)
      OBVIOUS
    <2>2. i # 1
      BY <1>1, <1>2, <2>1
    <2>3. 1 \in DOMAIN queue'
      BY <1>2, <1>3, <2>2
    <2>4. QED BY <2>3
  <1>6. \A u \in Tasks : ~Contains(queue', u) => sat_through'[u] = 0
    BY <1>1, <1>2, <1>3 DEF leave, LockInductive, waiting
  <1>7. ASSUME NEW j \in DOMAIN queue'
        PROVE  sat_through'[queue'[j]] + j <=
                   Cardinality(Tasks) + IF exchange' # Idle THEN 1 ELSE 0
    <2>1. PICK k \in DOMAIN queue : k # i /\ queue'[j] = queue[k]
                                    /\ k = IF j < i THEN j ELSE j + 1
      BY <1>2, <1>3
    <2>2. queue[k] \in Tasks /\ queue[k] # t /\ sat_through'[queue[k]] = sat_through[queue[k]]
      BY <1>1, <1>2, <2>1 DEF leave
    <2>3. sat_through[queue[k]] + k <= Cardinality(Tasks) + IF exchange # Idle THEN 1 ELSE 0
      BY DEF LockInductive
    <2>4. sat_through[queue[k]] \in Nat /\ k \in Nat /\ j \in Nat
      BY <1>2, <1>3, <2>2
    <2>5. CASE exchange # Idle /\ exchange' = Idle /\ t = Head(queue)
      <3>1. i = 1
        BY <1>1, <1>2, <2>5
      <3>2. k = j + 1
        BY <1>3, <2>1, <3>1
      <3>3. QED BY <2>1, <2>2, <2>3, <2>4, <2>5, <3>2, TasksAreCounted
    <2>6. CASE exchange = Idle /\ exchange' = Idle
      BY <2>1, <2>2, <2>3, <2>4, <2>6, TasksAreCounted
    <2>7. CASE exchange # Idle /\ exchange' = exchange
      BY <2>1, <2>2, <2>3, <2>4, <2>7, TasksAreCounted
    <2>8. QED BY <2>5, <2>6, <2>7
  <1>8. QED BY <1>4, <1>5, <1>6, <1>7 DEF LockInductive, waiting, Idle

-----------------------------------------------------------------------------
\* Nothing is cached and nobody asks.
LEMMA InitStep == Init => TokenInductive
  <1> SUFFICES ASSUME Init PROVE TokenInductive
    OBVIOUS
  <1>1. TypeOK
    BY DEF Init, TypeOK
  <1>2. LockInductive
    BY DEF Init, LockInductive, waiting
  <1>3. TimesInductive /\ HandedOutInTime
    BY DEF Init, TimesInductive, HandedOutInTime
  <1>4. QED BY <1>1, <1>2, <1>3 DEF TokenInductive

\* The numbers of the configuration, and what a token and an exchange are made of.
LEMMA Numbers ==
    /\ _REFRESH_MARGIN_SECONDS \in Nat /\ ExchangeLimit \in Nat /\ MaxTime \in Nat
    /\ Lifetimes \subseteq Nat
    /\ \A token \in Token : token.ends \in Nat /\ token.lifetime \in Nat /\ token # NoToken
    /\ Idle \notin Exchange
    /\ \A e \in Exchange : e.began \in Nat /\ e.issued \in Token \cup {NoToken}
  <1>1. /\ _REFRESH_MARGIN_SECONDS \in Nat /\ ExchangeLimit \in Nat /\ MaxTime \in Nat
        /\ Lifetimes \subseteq Nat
    BY TokenAssumption
  <1>2. \A token \in Token : token.ends \in Nat /\ token.lifetime \in Nat /\ token # NoToken
    BY <1>1, NoTokenIsNone DEF Token
  <1>3. Idle \notin Exchange
    BY DEF Idle, Exchange
  <1>4. \A e \in Exchange : e.began \in Nat /\ e.issued \in Token \cup {NoToken}
    BY DEF Exchange
  <1>5. QED BY <1>1, <1>2, <1>3, <1>4

\* A token that is handed out with enough of its life ahead of it.
LEMMA GivenInTime ==
    ASSUME TypeOK, HandedOutInTime, NEW t \in Tasks, NEW token \in Token, give(t, token),
           LET left == token.ends - now + ExchangeLimit
           IN left >= _REFRESH_MARGIN_SECONDS \/ left >= token.lifetime
    PROVE  /\ held' \in [Tasks -> Handed \cup {NoToken}]
           /\ HandedOutInTime'
  <1>1. /\ held \in [Tasks -> Handed \cup {NoToken}]
        /\ now \in Nat
    BY DEF TypeOK
  <1>2. /\ held' \in [Tasks -> Handed \cup {NoToken}]
        /\ held'[t] = [token |-> token, at |-> now]
        /\ \A u \in Tasks \ {t} : held'[u] = held[u]
    BY <1>1 DEF give, Handed
  <1>3. ASSUME NEW u \in Tasks, held'[u] # NoToken
        PROVE  LET left == held'[u].token.ends - held'[u].at + ExchangeLimit
               IN left >= _REFRESH_MARGIN_SECONDS \/ left >= held'[u].token.lifetime
    <2>1. CASE u = t
      BY <1>2, <2>1
    <2>2. CASE u # t
      BY <1>2, <1>3, <2>2 DEF HandedOutInTime
    <2>3. QED BY <2>1, <2>2
  <1>4. QED BY <1>2, <1>3 DEF HandedOutInTime

\* A cached token that is warm has enough of its life ahead of it.
LEMMA WarmServes ==
    ASSUME TypeOK, TimesInductive, warm
    PROVE  /\ _token \in Token
           /\ _token.ends - now + ExchangeLimit >= _REFRESH_MARGIN_SECONDS
  <1>1. /\ _token \in Token /\ _token.ends \in Nat /\ now \in Nat /\ _expires_at \in Nat
        /\ ExchangeLimit \in Nat /\ _REFRESH_MARGIN_SECONDS \in Nat
    BY Numbers DEF TypeOK, warm
  <1>2. _expires_at <= _token.ends + ExchangeLimit - _REFRESH_MARGIN_SECONDS /\ now < _expires_at
    BY <1>1 DEF TimesInductive, warm
  <1>3. QED BY <1>1, <1>2

\* Leaving the lock keeps the types of what it touches.
LEMMA LeaveTypes ==
    ASSUME TypeOK, LockInductive, NEW t \in Tasks, leave(t)
    PROVE  queue' \in Seq(Tasks) /\ sat_through' \in [Tasks -> Nat]
  <1>1. PICK i \in DOMAIN queue : queue' = RemoveAt(queue, i)
    BY DEF leave
  <1>2. queue \in Seq(Tasks) /\ \A j, k \in DOMAIN queue : queue[j] = queue[k] => j = k
    BY DEF TypeOK, LockInductive
  <1>3. queue' \in Seq(Tasks)
    BY <1>1, <1>2, Removed
  <1>4. QED BY <1>3 DEF TypeOK, leave

-----------------------------------------------------------------------------
\* A warm cache is answered, a cold one is queued for.
LEMMA AskStep ==
    ASSUME TokenInductive, NEW t \in Tasks, ask(t)
    PROVE  TokenInductive'
  <1>1. /\ TypeOK /\ LockInductive /\ TimesInductive /\ HandedOutInTime
        /\ UNCHANGED <<now, _token, _expires_at, exchange, sat_through>>
        /\ warm' = warm
    BY DEF TokenInductive, ask, warm
  <1>2. TimesInductive'
    BY <1>1 DEF TimesInductive, Idle
  <1>3. CASE warm
    <2>1. give(t, _token) /\ queue' = queue
      BY <1>3 DEF ask
    <2>2. /\ held' \in [Tasks -> Handed \cup {NoToken}]
          /\ HandedOutInTime'
      BY <1>1, <1>3, <2>1, WarmServes, GivenInTime
    <2>3. TypeOK'
      BY <1>1, <2>1, <2>2 DEF TypeOK, Token, Handed, Exchange, Idle
    <2>4. LockInductive'
      BY <1>1, <2>1 DEF LockInductive, waiting, Idle
    <2>5. QED BY <1>2, <2>2, <2>3, <2>4 DEF TokenInductive
  <1>4. CASE ~warm
    <2>1. queue' = Append(queue, t) /\ held' = held /\ ~waiting(t)
      BY <1>4 DEF ask
    <2>2. /\ queue \in Seq(Tasks) /\ queue' \in Seq(Tasks) /\ Len(queue) \in Nat
          /\ DOMAIN queue = 1..Len(queue) /\ DOMAIN queue' = 1..(Len(queue) + 1)
          /\ \A i \in 1..Len(queue) : queue'[i] = queue[i]
          /\ queue'[Len(queue) + 1] = t
      BY <1>1, <2>1 DEF TypeOK
    <2>3. TypeOK'
      BY <1>1, <2>1, <2>2 DEF TypeOK, Token, Handed, Exchange, Idle
    <2>4. \A i \in 1..Len(queue) : queue[i] # t
      BY <2>1 DEF waiting, Contains
    <2>5. \A i, j \in DOMAIN queue' : queue'[i] = queue'[j] => i = j
      BY <1>1, <2>2, <2>4 DEF LockInductive
    <2>6. Len(queue) + 1 <= Cardinality(Tasks)
      <3> DEFINE q == queue'
      <3>1. q \in Seq(Tasks) /\ \A i, j \in DOMAIN q : q[i] = q[j] => i = j
        BY <2>2, <2>5
      <3>2. Len(q) = Len(queue) + 1
        BY <2>1, <2>2
      <3> HIDE DEF q
      <3>3. Len(q) <= Cardinality(Tasks)
        BY <3>1, QueueFits, TokenAssumption
      <3>4. QED BY <3>2, <3>3
    <2>7. sat_through[t] = 0 /\ sat_through \in [Tasks -> Nat]
      BY <1>1, <2>1 DEF LockInductive, TypeOK
    <2>8. ASSUME NEW i \in DOMAIN queue'
          PROVE  sat_through[queue'[i]] + i <=
                     Cardinality(Tasks) + IF exchange # Idle THEN 1 ELSE 0
      <3>1. CASE i \in 1..Len(queue)
        BY <1>1, <2>2, <3>1 DEF LockInductive
      <3>2. CASE i = Len(queue) + 1
        BY <2>2, <2>6, <2>7, <3>2, TasksAreCounted
      <3>3. i \in 1..Len(queue) \/ i = Len(queue) + 1
        BY <2>2
      <3>4. QED BY <3>1, <3>2, <3>3
    <2>9. \A u \in Tasks : ~Contains(queue', u) => ~Contains(queue, u)
      <3>1. Len(queue') = Len(queue) + 1
        BY <2>1, <2>2
      <3>2. QED BY <2>2, <3>1 DEF Contains
    <2>10. queue' # <<>>
      BY <2>2
    <2>11. LockInductive'
      BY <1>1, <2>5, <2>8, <2>9, <2>10 DEF LockInductive, waiting, Idle
    <2>12. HandedOutInTime'
      BY <1>1, <2>1 DEF HandedOutInTime
    <2>13. QED BY <1>2, <2>3, <2>11, <2>12 DEF TokenInductive
  <1>5. QED BY <1>3, <1>4

\* The head of the queue finds what another has fetched.
LEMMA FindRefreshedStep ==
    ASSUME TokenInductive, NEW t \in Tasks, find_refreshed(t)
    PROVE  TokenInductive'
  <1>1. /\ TypeOK /\ LockInductive /\ TimesInductive /\ HandedOutInTime
        /\ UNCHANGED <<now, _token, _expires_at, exchange>>
        /\ warm /\ exchange = Idle /\ give(t, _token) /\ leave(t)
    BY DEF TokenInductive, find_refreshed
  <1>2. TimesInductive'
    BY <1>1 DEF TimesInductive, Idle
  <1>3. LockInductive'
    BY <1>1, LockLeft
  <1>4. /\ held' \in [Tasks -> Handed \cup {NoToken}]
        /\ HandedOutInTime'
    BY <1>1, WarmServes, GivenInTime
  <1>5. queue' \in Seq(Tasks) /\ sat_through' \in [Tasks -> Nat]
    BY <1>1, LeaveTypes
  <1>6. TypeOK'
    BY <1>1, <1>4, <1>5 DEF TypeOK, Token, Handed, Exchange, Idle
  <1>7. QED BY <1>2, <1>3, <1>4, <1>6 DEF TokenInductive

\* The exchange begins, and everybody in the queue sits through it.
LEMMA BeginExchangeStep ==
    ASSUME TokenInductive, begin_exchange
    PROVE  TokenInductive'
  <1>1. /\ TypeOK /\ LockInductive /\ TimesInductive /\ HandedOutInTime
        /\ UNCHANGED <<now, _token, _expires_at, queue, held>>
        /\ queue # <<>> /\ exchange = Idle /\ ~warm /\ ~warm'
        /\ exchange' = [began |-> now, issued |-> NoToken]
        /\ sat_through' = [t \in Tasks |->
                               IF waiting(t) THEN sat_through[t] + 1 ELSE sat_through[t]]
    BY DEF TokenInductive, begin_exchange, warm
  <1>2. /\ now \in Nat /\ queue \in Seq(Tasks) /\ sat_through \in [Tasks -> Nat]
        /\ ExchangeLimit \in Nat
    BY <1>1, Numbers DEF TypeOK
  <1>3. exchange' \in Exchange /\ exchange' # Idle
    BY <1>1, <1>2, Numbers DEF Exchange
  <1>4. TimesInductive'
    BY <1>1, <1>2 DEF TimesInductive
  <1>5. HandedOutInTime'
    BY <1>1 DEF HandedOutInTime
  <1>6. ASSUME NEW i \in DOMAIN queue
        PROVE  sat_through'[queue[i]] + i <= Cardinality(Tasks) + 1
    <2>1. queue[i] \in Tasks /\ waiting(queue[i]) /\ i \in Nat
      BY <1>2 DEF waiting, Contains
    <2>2. sat_through[queue[i]] + i <= Cardinality(Tasks)
      BY <1>1, TasksAreCounted DEF LockInductive
    <2>3. sat_through'[queue[i]] = sat_through[queue[i]] + 1
      BY <1>1, <2>1
    <2>4. QED BY <1>2, <2>1, <2>2, <2>3, TasksAreCounted
  <1>7. \A u \in Tasks : ~waiting(u) => sat_through'[u] = 0
    BY <1>1 DEF LockInductive
  <1>8. LockInductive'
    BY <1>1, <1>3, <1>6, <1>7 DEF LockInductive, waiting, Idle
  <1>9. sat_through' \in [Tasks -> Nat]
    BY <1>1, <1>2
  <1>10. TypeOK'
    BY <1>1, <1>3, <1>9 DEF TypeOK, Token, Handed, Exchange
  <1>11. QED BY <1>4, <1>5, <1>8, <1>10 DEF TokenInductive

\* The endpoint issues a token of any lifetime.
LEMMA IssueStep ==
    ASSUME TokenInductive, issue
    PROVE  TokenInductive'
  <1>1. /\ TypeOK /\ LockInductive /\ TimesInductive /\ HandedOutInTime
        /\ UNCHANGED <<now, _token, _expires_at, queue, held, sat_through>>
        /\ exchange # Idle /\ warm' = warm
    BY DEF TokenInductive, issue, warm
  <1>2. PICK lifetime \in Lifetimes :
            exchange' = [exchange EXCEPT !.issued =
                            [ends |-> now + lifetime, lifetime |-> lifetime]]
    BY DEF issue
  <1>3. exchange \in Exchange /\ now \in Nat /\ lifetime \in Nat
    BY <1>1, Numbers DEF TypeOK
  <1>4. [ends |-> now + lifetime, lifetime |-> lifetime] \in Token
    BY <1>3 DEF Token
  <1>5. /\ exchange' \in Exchange /\ exchange'.began = exchange.began
        /\ exchange'.issued = [ends |-> now + lifetime, lifetime |-> lifetime]
    BY <1>2, <1>3, <1>4 DEF Exchange
  <1>6. exchange' # Idle
    BY <1>5, Numbers
  <1>7. TimesInductive'
    BY <1>1, <1>3, <1>5, Numbers DEF TimesInductive
  <1>8. LockInductive'
    BY <1>1, <1>6 DEF LockInductive, waiting, Idle
  <1>9. HandedOutInTime'
    BY <1>1 DEF HandedOutInTime
  <1>10. TypeOK'
    BY <1>1, <1>5 DEF TypeOK, Token, Handed, Exchange
  <1>11. QED BY <1>7, <1>8, <1>9, <1>10 DEF TokenInductive

\* The token arrives while it still has its lifetime, less the exchange.
LEMMA ExchangeSucceedsStep ==
    ASSUME TokenInductive, NEW t \in Tasks, exchange_succeeds(t)
    PROVE  TokenInductive'
  <1> DEFINE token == exchange.issued
  <1>1. /\ TypeOK /\ LockInductive /\ TimesInductive /\ HandedOutInTime
        /\ exchange # Idle /\ token # NoToken /\ t = Head(queue)
        /\ _token' = token /\ _expires_at' = fresh_until(token) /\ exchange' = Idle
        /\ give(t, token) /\ leave(t) /\ now' = now
    BY DEF TokenInductive, exchange_succeeds
  <1>2. /\ exchange \in Exchange /\ token \in Token /\ now \in Nat
        /\ token.ends \in Nat /\ token.lifetime \in Nat /\ exchange.began \in Nat
        /\ ExchangeLimit \in Nat /\ _REFRESH_MARGIN_SECONDS \in Nat
    BY <1>1, Numbers DEF TypeOK
  <1> HIDE DEF token
  <1>3. /\ token.ends >= exchange.began + token.lifetime
        /\ now <= exchange.began + ExchangeLimit
    BY <1>1, <1>2 DEF TimesInductive, token
  <1>4. token.ends - now + ExchangeLimit >= token.lifetime
    BY <1>2, <1>3
  <1>5. /\ held' \in [Tasks -> Handed \cup {NoToken}]
        /\ HandedOutInTime'
    BY <1>1, <1>2, <1>4, GivenInTime
  <1>6. /\ _expires_at' \in Nat
        /\ \/ _expires_at' <= now
           \/ _expires_at' <= token.ends + ExchangeLimit - _REFRESH_MARGIN_SECONDS
    BY <1>1, <1>2, <1>4 DEF fresh_until
  <1>7. TimesInductive'
    BY <1>1, <1>6 DEF TimesInductive, Idle
  <1>8. exchange' = Idle /\ Idle' = Idle
    BY <1>1 DEF Idle
  <1>9. LockInductive'
    BY <1>1, <1>8, LockLeft
  <1>10. queue' \in Seq(Tasks) /\ sat_through' \in [Tasks -> Nat]
    BY <1>1, LeaveTypes
  <1>11. TypeOK'
    BY <1>1, <1>2, <1>5, <1>6, <1>10 DEF TypeOK, Token, Handed, Exchange, Idle
  <1>12. QED BY <1>5, <1>7, <1>9, <1>11 DEF TokenInductive

\* A task that leaves with nothing, and takes the exchange along if it was its own.
LEMMA NothingGotten ==
    ASSUME TokenInductive, NEW t \in Tasks, leave(t),
           UNCHANGED <<now, _token, _expires_at, held>>,
           \/ exchange' = Idle /\ (exchange = Idle \/ t = Head(queue))
           \/ exchange # Idle /\ exchange' = exchange /\ t # Head(queue)
    PROVE  TokenInductive'
  <1>1. TypeOK /\ LockInductive /\ TimesInductive /\ HandedOutInTime /\ warm' = warm
    BY DEF TokenInductive, warm
  <1>2. exchange' # Idle => ~warm'
    BY <1>1 DEF LockInductive
  <1>3. LockInductive'
    BY <1>1, <1>2, LockLeft
  <1>4. TimesInductive'
    BY <1>1 DEF TimesInductive, Idle
  <1>5. HandedOutInTime'
    BY <1>1 DEF HandedOutInTime
  <1>6. queue' \in Seq(Tasks) /\ sat_through' \in [Tasks -> Nat]
    BY <1>1, LeaveTypes
  <1>7. TypeOK'
    BY <1>1, <1>6 DEF TypeOK, Token, Handed, Exchange, Idle
  <1>8. QED BY <1>3, <1>4, <1>5, <1>7 DEF TokenInductive

\* The exchange fails.
LEMMA ExchangeFailsStep ==
    ASSUME TokenInductive, NEW t \in Tasks, exchange_fails(t)
    PROVE  TokenInductive'
  BY NothingGotten DEF exchange_fails

\* A task is cancelled.
LEMMA CancelStep ==
    ASSUME TokenInductive, NEW t \in Tasks, cancel(t)
    PROVE  TokenInductive'
  BY NothingGotten DEF cancel

\* Time passes, never beyond the limit of an exchange.
LEMMA TickStep ==
    ASSUME TokenInductive, tick
    PROVE  TokenInductive'
  <1>1. /\ TypeOK /\ LockInductive /\ TimesInductive /\ HandedOutInTime
        /\ UNCHANGED <<_token, _expires_at, queue, exchange, held, sat_through>>
        /\ now' = now + 1 /\ (exchange # Idle => now < exchange.began + ExchangeLimit)
    BY DEF TokenInductive, tick
  <1>2. now \in Nat /\ _expires_at \in Nat
    BY <1>1 DEF TypeOK
  <1>3. exchange # Idle => exchange.began \in Nat /\ ExchangeLimit \in Nat
    BY <1>1, Numbers DEF TypeOK
  <1>4. warm' => warm
    BY <1>1, <1>2 DEF warm
  <1>5. LockInductive'
    BY <1>1, <1>4 DEF LockInductive, waiting, Idle
  <1>6. TimesInductive'
    BY <1>1, <1>2, <1>3 DEF TimesInductive, Idle
  <1>7. HandedOutInTime'
    BY <1>1 DEF HandedOutInTime
  <1>8. TypeOK'
    BY <1>1, <1>2 DEF TypeOK, Token, Handed, Exchange, Idle
  <1>9. QED BY <1>5, <1>6, <1>7, <1>8 DEF TokenInductive

\* A step that leaves the token alone.
LEMMA TokenUntouched ==
    ASSUME TokenInductive, UNCHANGED tokenVars
    PROVE  TokenInductive'
  <1>1. /\ TypeOK /\ LockInductive /\ TimesInductive /\ HandedOutInTime
        /\ UNCHANGED <<now, _token, _expires_at, queue, exchange, held, sat_through>>
    BY DEF TokenInductive, tokenVars
  <1>2. TypeOK'
    BY <1>1 DEF TypeOK, Token, Handed, Exchange, Idle
  <1>3. LockInductive'
    BY <1>1 DEF LockInductive, waiting, warm, Idle
  <1>4. TimesInductive'
    BY <1>1 DEF TimesInductive, Idle
  <1>5. HandedOutInTime'
    BY <1>1 DEF HandedOutInTime
  <1>6. QED BY <1>2, <1>3, <1>4, <1>5 DEF TokenInductive

\* No step breaks the invariant of the token.
LEMMA TokenStep == TokenInductive /\ [Next]_tokenVars => TokenInductive'
  BY AskStep, FindRefreshedStep, BeginExchangeStep, IssueStep, ExchangeSucceedsStep,
     ExchangeFailsStep, CancelStep, TickStep, TokenUntouched DEF Next

\* The inductive invariant of the cached token (integrations/sheets/auth.py:95-121).
THEOREM TokenInductiveHolds == Spec => []TokenInductive
  <1>1. QED BY InitStep, TokenStep, PTL DEF Spec

-----------------------------------------------------------------------------
\* To the token, a client is tasks that ask, are cancelled or wait.
LEMMA ClientStepIsTokenStep == [ClientNext]_clientVars => [Next]_tokenVars
  <1> SUFFICES ASSUME [ClientNext]_clientVars PROVE [Next]_tokenVars
    OBVIOUS
  <1>1. CASE UNCHANGED clientVars
    BY <1>1 DEF clientVars
  <1>2. CASE begin_exchange \/ issue \/ tick
    BY <1>2 DEF Next
  <1>3. CASE elapse
    BY <1>2, <1>3 DEF elapse
  <1>4. ASSUME NEW t \in Tasks,
               \/ start(t) \/ wake(t) \/ authorised(t) \/ unauthorised(t)
               \/ request_succeeds(t) \/ request_fails(t) \/ cancelled(t)
        PROVE  [Next]_tokenVars
    <2>1. ask(t) \/ find_refreshed(t) \/ exchange_succeeds(t) \/ exchange_fails(t)
          \/ cancel(t) \/ UNCHANGED tokenVars
      BY <1>4 DEF start, wake, asking, authorised, unauthorised, request_succeeds,
         request_fails, cancelled
    <2>2. QED BY <2>1 DEF Next
  <1>5. QED BY <1>1, <1>2, <1>3, <1>4 DEF ClientNext

\* A client uses the token as its tasks may (integrations/sheets/client.py:151-165).
THEOREM ClientIsToken == ClientSpec => Spec
  <1>1. ClientInit => Init
    BY DEF ClientInit
  <1>2. QED BY <1>1, ClientStepIsTokenStep, PTL DEF ClientSpec, Spec

\* What a task is handed serves it for the margin, less the exchange, for every
\* lifetime and margin (integrations/sheets/auth.py:41-42, 117-119).
THEOREM HandedOutServes == ClientSpec => []HandedOutInTime
  <1>1. TokenInductive => HandedOutInTime
    BY DEF TokenInductive
  <1>2. QED BY <1>1, ClientIsToken, TokenInductiveHolds, PTL

\* Nobody sits through more exchanges than there are tasks, however many there are
\* and however they fail or are cancelled (integrations/sheets/auth.py:100-121).
THEOREM ExchangesAreShared == ClientSpec => []OneExchangeEach
  <1>1. TokenInductive => OneExchangeEach
    <2> SUFFICES ASSUME TokenInductive, NEW t \in Tasks
                 PROVE  sat_through[t] <= Cardinality(Tasks)
      BY DEF OneExchangeEach
    <2>1. TypeOK /\ LockInductive /\ sat_through[t] \in Nat
      BY DEF TokenInductive, TypeOK
    <2>2. CASE waiting(t)
      <3>1. PICK i \in DOMAIN queue : queue[i] = t /\ i >= 1
        BY <2>1, <2>2 DEF waiting, Contains, TypeOK
      <3>2. sat_through[t] + i <= Cardinality(Tasks) + 1
        BY <2>1, <3>1, TasksAreCounted DEF LockInductive, TypeOK
      <3>3. i \in Nat
        BY <2>1, <3>1 DEF TypeOK
      <3>4. QED BY <2>1, <3>1, <3>2, <3>3, TasksAreCounted
    <2>3. CASE ~waiting(t)
      BY <2>1, <2>3, TasksAreCounted DEF LockInductive
    <2>4. QED BY <2>2, <2>3
  <1>2. QED BY <1>1, ClientIsToken, TokenInductiveHolds, PTL

\* A token that still serves is never replaced (integrations/sheets/auth.py:101-115).
THEOREM NeverReplacedEarly == ClientSpec => RefreshedOnlyWhenSpent
  <1>1. TokenInductive /\ [Next]_tokenVars => [_token' # _token => ~warm]_tokenVars
    <2> SUFFICES ASSUME TokenInductive, Next, _token' # _token PROVE ~warm
      BY DEF tokenVars
    <2>1. exchange # Idle
      BY DEF Next, ask, find_refreshed, begin_exchange, issue, exchange_succeeds,
         exchange_fails, cancel, tick
    <2>2. QED BY <2>1 DEF TokenInductive, LockInductive
  <1>2. QED BY <1>1, ClientIsToken, TokenInductiveHolds, PTL DEF Spec, RefreshedOnlyWhenSpent

-----------------------------------------------------------------------------
\* Whoever is handed a token is handed it now.
LEMMA GivenNow ==
    ASSUME TypeOK, NEW t \in Tasks, NEW token, give(t, token)
    PROVE  /\ held'[t] = [token |-> token, at |-> now] /\ held'[t].at = now
           /\ \A u \in Tasks \ {t} : held'[u] = held[u]
  BY DEF TypeOK, give

\* A step of one call that leaves the calls well typed.
LEMMA CallStep ==
    ASSUME ClientInductive, TokenInductive', NEW t \in Tasks, now' = now,
           calls' \in [Tasks -> Call],
           \A u \in Tasks \ {t} : calls'[u] = calls[u] /\ held'[u] = held[u],
           \/ calls'[t].phase # "request"
           \/ \E token \in Token : held'[t] = [token |-> token, at |-> now]
    PROVE  ClientInductive'
  <1>1. now \in Nat /\ RequestLimit \in Nat /\ TypeOK'
    BY ClientAssumption DEF ClientInductive, ClientTypeOK, TypeOK, TokenInductive
  <1>2. ASSUME NEW u \in Tasks, calls'[u].phase = "request"
        PROVE  held'[u] # NoToken /\ held'[u].at <= now' /\ now' <= held'[u].at + RequestLimit
    <2>1. CASE u # t
      BY <1>2, <2>1 DEF ClientInductive, in_phase
    <2>2. CASE u = t
      <3>1. PICK token \in Token : held'[t] = [token |-> token, at |-> now]
        BY <1>2, <2>2
      <3>2. held'[u].at = now /\ held'[u].token = token
        BY <2>2, <3>1
      <3>3. held'[u] # NoToken
        <4>1. held'[u] \in Handed
          BY <1>1, <2>2, <3>1 DEF Handed
        <4>2. QED BY <4>1, NoTokenIsNone
      <3>4. QED BY <1>1, <3>2, <3>3
    <2>3. QED BY <2>1, <2>2
  <1>3. QED BY <1>1, <1>2 DEF ClientInductive, ClientTypeOK, in_phase

\* A call that has ended.
LEMMA CallEnds ==
    ASSUME ClientInductive, NEW t \in Tasks, NEW phase \in {"returned", "raised"},
           ended(t, phase)
    PROVE  /\ calls' \in [Tasks -> Call]
           /\ calls'[t].phase # "request"
           /\ \A u \in Tasks \ {t} : calls'[u] = calls[u]
  <1>1. calls \in [Tasks -> Call] /\ calls[t] \in Call /\ now \in Nat
    BY DEF ClientInductive, ClientTypeOK, TypeOK
  <1>2. 0 \in 0.._MAX_BACKOFF_SECONDS
    BY ClientAssumption
  <1>3. [calls[t] EXCEPT !.phase = phase, !.at = now, !.delay = 0] \in Call
    BY <1>1, <1>2 DEF Call
  <1>4. calls' = [calls EXCEPT ![t] =
            [calls[t] EXCEPT !.phase = phase, !.at = now, !.delay = 0]]
    BY <1>1 DEF ended
  <1>5. QED BY <1>1, <1>3, <1>4 DEF Call

\* An attempt failed: another follows it while retries are left.
LEMMA AttemptFails ==
    ASSUME ClientInductive, NEW t \in Tasks, attempt_failed(t)
    PROVE  /\ calls' \in [Tasks -> Call]
           /\ calls'[t].phase # "request"
           /\ \A u \in Tasks \ {t} : calls'[u] = calls[u]
  <1>1. /\ calls \in [Tasks -> Call] /\ calls[t] \in Call /\ now \in Nat
        /\ max_retries \in Nat /\ _MAX_BACKOFF_SECONDS \in Nat
    BY ClientAssumption DEF ClientInductive, ClientTypeOK, TypeOK
  <1>2. CASE again(t)
    <2>1. calls[t].attempt < max_retries
      BY <1>2 DEF again, Retry!retries_left
    <2>2. PICK d \in Retry(t)!_backoff_delay(calls[t].attempt) :
              calls' = [calls EXCEPT ![t].phase = "sleeping", ![t].attempt = @ + 1,
                                     ![t].at = now, ![t].delay = d]
      BY <1>2 DEF again
    <2>3. d \in 0.._MAX_BACKOFF_SECONDS
      BY <2>2 DEF Retry!_backoff_delay
    <2>4. calls[t].attempt + 1 \in 0..max_retries
      BY <1>1, <2>1 DEF Call
    <2>5. [calls[t] EXCEPT !.phase = "sleeping", !.attempt = @ + 1, !.at = now, !.delay = d]
              \in Call
      BY <1>1, <2>3, <2>4 DEF Call
    <2>6. calls' = [calls EXCEPT ![t] =
              [calls[t] EXCEPT !.phase = "sleeping", !.attempt = @ + 1, !.at = now,
                               !.delay = d]]
      BY <1>1, <2>2
    <2>7. QED BY <1>1, <2>5, <2>6 DEF Call
  <1>3. CASE ended(t, "raised")
    BY <1>3, CallEnds
  <1>4. QED BY <1>2, <1>3 DEF attempt_failed

\* An attempt asks for credentials, and has those of a warm cache at once.
LEMMA AskingStep ==
    ASSUME ClientInductive, TokenInductive', NEW t \in Tasks, NEW call \in Call,
           asking(t, call)
    PROVE  ClientInductive'
  <1>1. /\ TokenInductive /\ TypeOK /\ TimesInductive /\ calls \in [Tasks -> Call]
        /\ ask(t) /\ now' = now
    BY DEF ClientInductive, ClientTypeOK, TokenInductive, asking, ask
  <1> DEFINE phase == IF warm THEN "request" ELSE "credentials"
             asked == [call EXCEPT !.phase = phase]
  <1>2. asked \in Call /\ asked.phase = phase
    BY DEF Call
  <1>3. calls' = [calls EXCEPT ![t] = asked]
    BY DEF asking
  <1> HIDE DEF asked
  <1>4. /\ calls' \in [Tasks -> Call] /\ calls'[t].phase = phase
        /\ \A u \in Tasks \ {t} : calls'[u] = calls[u]
    BY <1>1, <1>2, <1>3
  <1>5. CASE warm
    <2>1. give(t, _token) /\ _token \in Token
      BY <1>1, <1>5, WarmServes DEF ask
    <2>2. held'[t] = [token |-> _token, at |-> now] /\ \A u \in Tasks \ {t} : held'[u] = held[u]
      BY <1>1, <2>1, GivenNow
    <2>3. QED BY <1>1, <1>4, <2>1, <2>2, CallStep
  <1>6. CASE ~warm
    <2>1. held' = held
      BY <1>1, <1>6 DEF ask
    <2>2. calls'[t].phase # "request"
      BY <1>4, <1>6
    <2>3. QED BY <1>1, <1>4, <2>1, <2>2, CallStep
  <1>7. QED BY <1>5, <1>6

\* A task has its credentials, and its request begins.
LEMMA AuthorisedStep ==
    ASSUME ClientInductive, TokenInductive', NEW t \in Tasks, authorised(t)
    PROVE  ClientInductive'
  <1>1. /\ TokenInductive /\ TypeOK /\ TimesInductive /\ LockInductive
        /\ calls \in [Tasks -> Call] /\ calls[t] \in Call
    BY DEF ClientInductive, ClientTypeOK, TokenInductive
  <1>2. [calls[t] EXCEPT !.phase = "request"] \in Call
    BY <1>1 DEF Call
  <1>3. calls' = [calls EXCEPT ![t] = [calls[t] EXCEPT !.phase = "request"]]
    BY <1>1 DEF authorised, moved
  <1>4. calls' \in [Tasks -> Call] /\ \A u \in Tasks \ {t} : calls'[u] = calls[u]
    BY <1>1, <1>2, <1>3
  <1>5. PICK token \in Token : give(t, token) /\ now' = now
    <2>1. CASE find_refreshed(t)
      BY <1>1, <2>1, WarmServes DEF find_refreshed
    <2>2. CASE exchange_succeeds(t)
      BY <1>1, <2>2, Numbers DEF exchange_succeeds, TypeOK
    <2>3. QED BY <2>1, <2>2 DEF authorised
  <1>6. held'[t] = [token |-> token, at |-> now] /\ \A u \in Tasks \ {t} : held'[u] = held[u]
    BY <1>1, <1>5, GivenNow
  <1>7. QED BY <1>4, <1>5, <1>6, CallStep

\* An attempt or a call is over, and nobody is handed anything.
LEMMA OverStep ==
    ASSUME ClientInductive, TokenInductive', NEW t \in Tasks,
           attempt_failed(t) \/ ended(t, "returned") \/ ended(t, "raised"),
           exchange_fails(t) \/ cancel(t) \/ UNCHANGED tokenVars
    PROVE  ClientInductive'
  <1>1. /\ calls' \in [Tasks -> Call]
        /\ calls'[t].phase # "request"
        /\ \A u \in Tasks \ {t} : calls'[u] = calls[u]
    BY CallEnds, AttemptFails
  <1>2. now' = now /\ held' = held
    BY DEF exchange_fails, cancel, tokenVars
  <1>3. QED BY <1>1, <1>2, CallStep

\* Time passes, never beyond the limit of a request.
LEMMA ElapseStep ==
    ASSUME ClientInductive, TokenInductive', elapse
    PROVE  ClientInductive'
  <1>1. /\ now' = now + 1 /\ UNCHANGED <<held, calls>>
        /\ \A t \in Tasks : in_phase(t, "request") => now < held[t].at + RequestLimit
    BY DEF elapse, tick
  <1>2. now \in Nat /\ RequestLimit \in Nat /\ held \in [Tasks -> Handed \cup {NoToken}]
    BY ClientAssumption DEF ClientInductive, ClientTypeOK, TypeOK
  <1>3. ASSUME NEW t \in Tasks, in_phase(t, "request")
        PROVE  held[t] # NoToken /\ held[t].at <= now + 1 /\ now + 1 <= held[t].at + RequestLimit
    <2>1. held[t] # NoToken /\ held[t].at <= now /\ now < held[t].at + RequestLimit
      BY <1>1, <1>3 DEF ClientInductive
    <2>2. held[t].at \in Nat
      BY <1>2, <2>1 DEF Handed
    <2>3. QED BY <1>2, <2>1, <2>2
  <1>4. QED BY <1>1, <1>3 DEF ClientInductive, ClientTypeOK, TokenInductive, in_phase

\* A step of the token that hands out nothing, or no step at all.
LEMMA CallsUntouched ==
    ASSUME ClientInductive, TokenInductive', UNCHANGED <<now, held, calls>>
    PROVE  ClientInductive'
  BY DEF ClientInductive, ClientTypeOK, TokenInductive, in_phase

\* No step breaks the invariant of the client.
LEMMA ClientStep == ClientInductive /\ [ClientNext]_clientVars => ClientInductive'
  <1> SUFFICES ASSUME ClientInductive, [ClientNext]_clientVars PROVE ClientInductive'
    OBVIOUS
  <1>1. TokenInductive'
    BY ClientStepIsTokenStep, TokenStep DEF ClientInductive
  <1>2. ASSUME NEW t \in Tasks, calls[t] \in Call, now \in Nat, start(t) \/ wake(t)
        PROVE  ClientInductive'
    <2>1. 0 \in 0.._MAX_BACKOFF_SECONDS
      BY ClientAssumption
    <2>2. [calls[t] EXCEPT !.started = now, !.at = now] \in Call
      BY <1>2 DEF Call
    <2>3. [calls[t] EXCEPT !.at = now, !.delay = 0] \in Call
      BY <1>2, <2>1 DEF Call
    <2>4. QED BY <1>1, <1>2, <2>2, <2>3, AskingStep DEF start, wake
  <1>3. ASSUME NEW t \in Tasks,
               \/ start(t) \/ wake(t) \/ authorised(t) \/ unauthorised(t)
               \/ request_succeeds(t) \/ request_fails(t) \/ cancelled(t)
        PROVE  ClientInductive'
    <2>1. CASE start(t) \/ wake(t)
      BY <1>2, <2>1 DEF ClientInductive, ClientTypeOK, TypeOK
    <2>2. CASE authorised(t)
      BY <1>1, <2>2, AuthorisedStep
    <2>3. CASE unauthorised(t)
      BY <1>1, <2>3, OverStep DEF unauthorised
    <2>4. CASE request_succeeds(t) \/ request_fails(t)
      BY <1>1, <2>4, OverStep DEF request_succeeds, request_fails
    <2>5. CASE cancelled(t)
      BY <1>1, <2>5, OverStep DEF cancelled
    <2>6. QED BY <1>3, <2>1, <2>2, <2>3, <2>4, <2>5
  <1>4. CASE (begin_exchange \/ issue) /\ UNCHANGED calls
    BY <1>1, <1>4, CallsUntouched DEF begin_exchange, issue
  <1>5. CASE elapse
    BY <1>1, <1>5, ElapseStep
  <1>6. CASE UNCHANGED clientVars
    BY <1>1, <1>6, CallsUntouched DEF clientVars, tokenVars
  <1>7. QED BY <1>3, <1>4, <1>5, <1>6 DEF ClientNext

\* No call has been made.
LEMMA ClientInitStep == ClientInit => ClientInductive
  <1> SUFFICES ASSUME ClientInit PROVE ClientInductive
    OBVIOUS
  <1>1. TokenInductive
    BY InitStep DEF ClientInit
  <1>2. calls \in [Tasks -> Call] /\ \A t \in Tasks : calls[t].phase = "none"
    BY ClientAssumption DEF ClientInit, Call
  <1>3. QED BY <1>1, <1>2 DEF ClientInductive, ClientTypeOK, TokenInductive, in_phase

\* The inductive invariant of a client and its token
\* (integrations/sheets/client.py:85-249, integrations/sheets/auth.py:95-121).
THEOREM ClientInductiveHolds == ClientSpec => []ClientInductive
  <1>1. QED BY ClientInitStep, ClientStep, PTL DEF ClientSpec

\* No call makes more attempts than its retries allow, or sleeps for longer than the
\* longest backoff (core/retry.py:58-97).
THEOREM ClientTypeCorrect == ClientSpec => []ClientTypeOK
  <1>1. ClientInductive => ClientTypeOK
    BY DEF ClientInductive
  <1>2. QED BY <1>1, ClientInductiveHolds, PTL

\* When the margin covers an exchange and a request, no request outlives the token
\* it carries (integrations/sheets/auth.py:41-42).
THEOREM MarginSuffices ==
    ASSUME ExchangeLimit + RequestLimit <= _REFRESH_MARGIN_SECONDS
    PROVE  ClientSpec => []TokenOutlivesRequest
  <1>1. ClientInductive => TokenOutlivesRequest
    <2> SUFFICES ASSUME ClientInductive, NEW t \in Tasks, in_phase(t, "request"),
                        held[t].token.lifetime > _REFRESH_MARGIN_SECONDS
                 PROVE  now <= held[t].token.ends
      BY DEF TokenOutlivesRequest
    <2>1. /\ held[t] # NoToken /\ now <= held[t].at + RequestLimit
          /\ held[t] \in Handed /\ now \in Nat /\ RequestLimit \in Nat
      BY ClientAssumption DEF ClientInductive, ClientTypeOK, TypeOK
    <2>2. /\ held[t].at \in Nat /\ held[t].token.ends \in Nat
          /\ held[t].token.lifetime \in Nat
          /\ ExchangeLimit \in Nat /\ _REFRESH_MARGIN_SECONDS \in Nat
      BY <2>1, Numbers DEF Handed
    <2>3. LET left == held[t].token.ends - held[t].at + ExchangeLimit
          IN left >= _REFRESH_MARGIN_SECONDS \/ left >= held[t].token.lifetime
      BY <2>1 DEF ClientInductive, TokenInductive, HandedOutInTime
    <2>4. QED BY <2>1, <2>2, <2>3
  <1>2. QED BY <1>1, ClientInductiveHolds, PTL

-----------------------------------------------------------------------------
(* Every call is a retry_async. *)

\* More places, more exchanges.
LEMMA Places ==
    ASSUME NEW i \in Nat, NEW j \in Nat, NEW e \in Nat
    PROVE  /\ i * e \in Nat
           /\ i <= j => i * e <= j * e
           /\ (i + 1) * e = i * e + e
  OBVIOUS

\* What the queue is without one of its tasks.
LEMMA QueueLeft ==
    ASSUME TypeOK, LockInductive, NEW t \in Tasks, leave(t)
    PROVE  \E i \in DOMAIN queue :
               /\ queue[i] = t
               /\ \A j \in DOMAIN queue' : \E k \in DOMAIN queue :
                      /\ k = IF j < i THEN j ELSE j + 1
                      /\ queue'[j] = queue[k] /\ queue[k] \in Tasks \ {t}
               /\ \A u \in Tasks : Contains(queue', u) <=> Contains(queue, u) /\ u # t
  <1>1. PICK i \in DOMAIN queue : queue[i] = t /\ queue' = RemoveAt(queue, i)
    BY DEF leave
  <1>2. queue \in Seq(Tasks) /\ \A j, k \in DOMAIN queue : queue[j] = queue[k] => j = k
    BY DEF TypeOK, LockInductive
  <1> DEFINE q == queue
             r == RemoveAt(q, i)
  <1>3. q \in Seq(Tasks) /\ i \in DOMAIN q /\ \A j, k \in DOMAIN q : q[j] = q[k] => j = k
    BY <1>2
  <1> HIDE DEF q
  <1>4. /\ r \in Seq(Tasks) /\ DOMAIN r = 1..(Len(q) - 1)
        /\ \A j \in 1..(Len(q) - 1) : r[j] = IF j < i THEN q[j] ELSE q[j + 1]
        /\ \A u \in Tasks : Contains(r, u) <=> Contains(q, u) /\ u # q[i]
    BY <1>3, Removed
  <1> HIDE DEF r
  <1>5. DOMAIN q = 1..Len(q) /\ Len(q) \in Nat /\ q[i] = t /\ r = queue'
    BY <1>1, <1>3 DEF q, r
  <1>6. ASSUME NEW j \in DOMAIN r
        PROVE  \E k \in DOMAIN q : /\ k = IF j < i THEN j ELSE j + 1
                                   /\ r[j] = q[k] /\ q[k] \in Tasks \ {t}
    <2> DEFINE k == IF j < i THEN j ELSE j + 1
    <2>1. k \in DOMAIN q /\ k # i /\ r[j] = q[k]
      BY <1>3, <1>4, <1>5
    <2>2. q[k] \in Tasks /\ q[k] # t
      BY <1>3, <1>5, <2>1
    <2>3. QED BY <2>1, <2>2
  <1>7. QED BY <1>1, <1>4, <1>5, <1>6 DEF q

\* The numbers of the calls.
LEMMA CallNumbers ==
    ASSUME ClientInductive, NEW t \in Tasks
    PROVE  /\ now \in Nat /\ ExchangeLimit \in Nat /\ RequestLimit \in Nat
           /\ SleepSlack \in Nat /\ max_retries \in Nat /\ _MAX_BACKOFF_SECONDS \in Nat
           /\ Cardinality(Tasks) \in Nat /\ Cardinality(Tasks) * ExchangeLimit \in Nat
           /\ calls \in [Tasks -> Call] /\ calls[t] \in Call
           /\ calls[t].started \in Nat /\ calls[t].at \in Nat /\ calls[t].delay \in Nat
           /\ calls[t].attempt \in Nat
           /\ counted \in Nat /\ counted <= now
           /\ exchange # Idle => now <= counted + ExchangeLimit
  <1>1. /\ now \in Nat /\ calls \in [Tasks -> Call] /\ calls[t] \in Call
        /\ exchange \in Exchange \cup {Idle} /\ TimesInductive
    BY DEF ClientInductive, ClientTypeOK, TypeOK, TokenInductive
  <1>2. /\ ExchangeLimit \in Nat /\ RequestLimit \in Nat
        /\ SleepSlack \in Nat /\ max_retries \in Nat /\ _MAX_BACKOFF_SECONDS \in Nat
    BY ClientAssumption, Numbers
  <1>3. /\ calls[t].started \in Nat /\ calls[t].at \in Nat /\ calls[t].delay \in Nat
        /\ calls[t].attempt \in Nat
    BY <1>1, <1>2 DEF Call
  <1>4. Cardinality(Tasks) \in Nat /\ Cardinality(Tasks) * ExchangeLimit \in Nat
    BY <1>2, TasksAreCounted, Places
  <1>5. /\ counted \in Nat /\ counted <= now
        /\ exchange # Idle => now <= counted + ExchangeLimit
    BY <1>1, Numbers DEF counted, TimesInductive
  <1>6. QED BY <1>1, <1>2, <1>3, <1>4, <1>5

\* Whoever leaves the lock, nobody waits longer for it.
LEMMA PlacesLeft ==
    ASSUME ClientInductive, CallInductive, NEW t \in Tasks, leave(t), now' = now,
           \A u \in Tasks \ {t} : calls'[u] = calls[u],
           \/ exchange = Idle /\ exchange' = Idle
           \/ exchange # Idle /\ exchange' = Idle /\ t = Head(queue)
           \/ exchange # Idle /\ exchange' = exchange
    PROVE  PlacesInTime'
  <1>1. TypeOK /\ LockInductive
    BY DEF ClientInductive, TokenInductive
  <1>2. PICK i \in DOMAIN queue :
            /\ queue[i] = t
            /\ \A j \in DOMAIN queue' : \E k \in DOMAIN queue :
                   /\ k = IF j < i THEN j ELSE j + 1
                   /\ queue'[j] = queue[k] /\ queue[k] \in Tasks \ {t}
            /\ \A u \in Tasks : Contains(queue', u) <=> Contains(queue, u) /\ u # t
    BY <1>1, QueueLeft
  <1> SUFFICES ASSUME NEW j \in DOMAIN queue'
               PROVE  counted' - calls'[queue'[j]].at + j * ExchangeLimit
                          <= Cardinality(Tasks) * ExchangeLimit
    BY DEF PlacesInTime
  <1>3. PICK k \in DOMAIN queue :
            /\ k = IF j < i THEN j ELSE j + 1
            /\ queue'[j] = queue[k] /\ queue[k] \in Tasks \ {t}
    BY <1>2
  <1>4. i \in Nat /\ k \in Nat /\ i \in 1..Len(queue) /\ j \in Nat
    <2>1. queue \in Seq(Tasks) /\ queue' \in Seq(Tasks)
      BY <1>1, LeaveTypes DEF TypeOK
    <2>2. QED BY <2>1
  <1> DEFINE at == calls[queue[k]].at
             E == ExchangeLimit
             all == Cardinality(Tasks) * ExchangeLimit
  <1>5. /\ counted - at + k * E <= all
        /\ calls'[queue'[j]].at = at
    BY <1>3 DEF CallInductive, PlacesInTime
  <1>6. /\ now \in Nat /\ E \in Nat /\ all \in Nat /\ at \in Nat /\ counted \in Nat
        /\ exchange # Idle => now <= counted + E
    BY <1>3, CallNumbers
  <1>7. j * E \in Nat /\ k * E \in Nat /\ j * E <= k * E
        /\ (k = j + 1 => k * E = j * E + E)
    BY <1>3, <1>4, <1>6, Places
  <1>8. CASE counted' = counted
    <2> HIDE DEF at, E, all
    <2>1. counted' - at + j * E <= all
      BY <1>5, <1>6, <1>7, <1>8
    <2>2. QED BY <1>5, <2>1 DEF at, E, all
  <1>9. CASE exchange # Idle /\ exchange' = Idle /\ t = Head(queue)
    <2>1. i = 1
      <3>1. queue[1] = t /\ 1 \in DOMAIN queue
        BY <1>1, <1>4, <1>9 DEF TypeOK
      <3>2. QED BY <1>1, <1>2, <3>1 DEF LockInductive
    <2>2. k * E = j * E + E
      BY <1>3, <1>4, <1>7, <2>1
    <2>3. counted' = now
      BY <1>9 DEF counted, Idle
    <2> HIDE DEF at, E, all
    <2>4. counted' - at + j * E <= all
      BY <1>5, <1>6, <1>7, <1>9, <2>2, <2>3
    <2>5. QED BY <1>5, <2>4 DEF at, E, all
  <1>10. exchange' = exchange => counted' = counted
    BY DEF counted, Idle
  <1>11. QED BY <1>8, <1>9, <1>10

\* Whoever asks takes the last place there is.
LEMMA PlacesAsked ==
    ASSUME ClientInductive, ClientInductive', CallInductive, NEW t \in Tasks, ask(t),
           \A u \in Tasks \ {t} : calls'[u] = calls[u],
           calls'[t].at = now
    PROVE  PlacesInTime'
  <1>1. /\ TypeOK /\ LockInductive /\ LockInductive' /\ TypeOK'
        /\ ~waiting(t) /\ UNCHANGED <<now, exchange>> /\ counted' = counted
    BY DEF ClientInductive, TokenInductive, ask, counted, Idle
  <1>2. \A u \in Tasks : /\ counted \in Nat /\ counted <= now /\ now \in Nat
                         /\ Cardinality(Tasks) \in Nat /\ ExchangeLimit \in Nat
    BY CallNumbers
  <1>3. \A i \in DOMAIN queue : queue[i] \in Tasks /\ queue[i] # t
    BY <1>1 DEF TypeOK, waiting, Contains
  <1>4. CASE queue' = queue
    <2>1. \A i \in DOMAIN queue : calls'[queue[i]] = calls[queue[i]]
      BY <1>3
    <2>2. QED BY <1>1, <1>4, <2>1 DEF CallInductive, PlacesInTime
  <1>5. CASE queue' = Append(queue, t)
    <2>1. /\ queue \in Seq(Tasks) /\ Len(queue) \in Nat
          /\ DOMAIN queue = 1..Len(queue) /\ DOMAIN queue' = 1..(Len(queue) + 1)
          /\ \A i \in 1..Len(queue) : queue'[i] = queue[i]
          /\ queue'[Len(queue) + 1] = t
      BY <1>1, <1>5 DEF TypeOK
    <2>2. Len(queue) + 1 <= Cardinality(Tasks)
      <3> DEFINE q == queue'
      <3>1. q \in Seq(Tasks) /\ \A i, j \in DOMAIN q : q[i] = q[j] => i = j
        BY <1>1 DEF TypeOK, LockInductive
      <3>2. Len(q) = Len(queue) + 1
        BY <1>5, <2>1
      <3> HIDE DEF q
      <3>3. Len(q) <= Cardinality(Tasks)
        BY <3>1, QueueFits, TokenAssumption
      <3>4. QED BY <3>2, <3>3
    <2>3. ASSUME NEW i \in DOMAIN queue'
          PROVE  counted' - calls'[queue'[i]].at + i * ExchangeLimit
                     <= Cardinality(Tasks) * ExchangeLimit
      <3>1. CASE i \in 1..Len(queue)
        <4>1. queue'[i] = queue[i] /\ calls'[queue[i]] = calls[queue[i]]
          BY <1>3, <2>1, <3>1
        <4>2. QED BY <1>1, <2>1, <3>1, <4>1 DEF CallInductive, PlacesInTime
      <3>2. CASE i = Len(queue) + 1
        <4>1. calls'[queue'[i]].at = now
          BY <2>1, <3>2
        <4>2. i * ExchangeLimit \in Nat
              /\ i * ExchangeLimit <= Cardinality(Tasks) * ExchangeLimit
              /\ Cardinality(Tasks) * ExchangeLimit \in Nat
          <5>1. i \in Nat /\ i <= Cardinality(Tasks)
            BY <2>1, <2>2, <3>2
          <5>2. QED BY <1>2, <5>1, Places
        <4>3. QED BY <1>1, <1>2, <4>1, <4>2
      <3>3. i \in 1..Len(queue) \/ i = Len(queue) + 1
        BY <2>1
      <3>4. QED BY <3>1, <3>2, <3>3
    <2>4. QED BY <2>3 DEF PlacesInTime
  <1>6. QED BY <1>4, <1>5 DEF ask

\* Nobody comes or goes, and the wait is counted again at most when it ends.
LEMMA PlacesKept ==
    ASSUME CallInductive, queue' = queue,
           \A u \in Tasks : calls'[u].at = calls[u].at,
           ClientInductive, counted' = counted \/ queue = <<>>
    PROVE  PlacesInTime'
  <1>1. queue \in Seq(Tasks)
    BY DEF ClientInductive, ClientTypeOK, TypeOK
  <1>2. CASE counted' = counted
    <2>1. \A i \in DOMAIN queue : calls'[queue[i]].at = calls[queue[i]].at
      BY <1>1
    <2>2. QED BY <1>2, <2>1 DEF CallInductive, PlacesInTime
  <1>3. CASE queue = <<>>
    <2>1. DOMAIN queue' = {}
      BY <1>3
    <2>2. QED BY <2>1 DEF PlacesInTime
  <1>4. QED BY <1>2, <1>3

\* A step of one call, in time itself, leaves the others in time.
LEMMA OthersInTime ==
    ASSUME CallInductive, NEW t \in Tasks, now' = now, PlacesInTime', InTime(t)',
           \A u \in Tasks \ {t} : /\ calls'[u] = calls[u] /\ held'[u] = held[u]
                                  /\ Contains(queue', u) <=> Contains(queue, u)
    PROVE  CallInductive'
  <1>1. ASSUME NEW u \in Tasks \ {t} PROVE InTime(u)'
    <2>1. InTime(u) /\ u \in Tasks
      BY DEF CallInductive
    <2>2. QED BY <2>1 DEF InTime, in_phase, waiting, woken
  <1>2. QED BY <1>1 DEF CallInductive

\* A call that starts or wakes.
LEMMA AskedInTime ==
    ASSUME ClientInductive, ClientInductive', CallInductive, NEW t \in Tasks,
           NEW call \in Call, asking(t, call),
           call.started <= now, call.at = now, call.delay = 0
    PROVE  CallInductive'
  <1>1. /\ ask(t) /\ ~waiting(t) /\ now' = now /\ calls \in [Tasks -> Call]
        /\ TypeOK /\ TimesInductive /\ now \in Nat
        /\ Cardinality(Tasks) * ExchangeLimit \in Nat
    BY CallNumbers DEF asking, ask, ClientInductive, ClientTypeOK, TokenInductive
  <1> DEFINE phase == IF warm THEN "request" ELSE "credentials"
             asked == [call EXCEPT !.phase = phase]
  <1>2. /\ asked \in Call /\ asked.phase = phase /\ asked.started = call.started
        /\ asked.at = now /\ asked.delay = 0
    BY DEF Call
  <1>3. calls' = [calls EXCEPT ![t] = asked]
    BY DEF asking
  <1> HIDE DEF asked
  <1>4. calls'[t] = asked /\ \A u \in Tasks \ {t} : calls'[u] = calls[u]
    BY <1>1, <1>2, <1>3
  <1>5. PlacesInTime'
    BY <1>1, <1>2, <1>4, PlacesAsked
  <1>6. CASE warm
    <2>1. give(t, _token) /\ _token \in Token /\ queue' = queue
      BY <1>1, <1>6, WarmServes DEF ask
    <2>2. held'[t].at = now /\ \A u \in Tasks \ {t} : held'[u] = held[u]
      BY <1>1, <2>1, GivenNow
    <2>3. calls'[t].phase = "request"
      BY <1>2, <1>4, <1>6
    <2>4. InTime(t)'
      BY <1>1, <1>2, <1>4, <2>1, <2>2, <2>3 DEF InTime, in_phase, waiting
    <2>5. QED BY <1>1, <1>4, <1>5, <2>1, <2>2, <2>4, OthersInTime
  <1>7. CASE ~warm
    <2>1. queue' = Append(queue, t) /\ held' = held
      BY <1>1, <1>7 DEF ask
    <2>2. calls'[t].phase = "credentials"
      BY <1>2, <1>4, <1>7
    <2>3. \A u \in Tasks : Contains(queue', u) <=> Contains(queue, u) \/ u = t
      <3>1. queue \in Seq(Tasks)
        BY <1>1 DEF TypeOK
      <3>2. /\ Len(queue) \in Nat /\ DOMAIN queue = 1..Len(queue)
            /\ Len(queue') = Len(queue) + 1
            /\ \A i \in 1..Len(queue) : queue'[i] = queue[i]
            /\ queue'[Len(queue) + 1] = t
        BY <2>1, <3>1
      <3>3. \A i \in 1..(Len(queue) + 1) : i \in 1..Len(queue) \/ i = Len(queue) + 1
        BY <3>2
      <3>4. QED BY <3>2, <3>3 DEF Contains
    <2>4. InTime(t)'
      BY <1>1, <1>2, <1>4, <2>2, <2>3 DEF InTime, in_phase, waiting
    <2>5. \A u \in Tasks \ {t} : /\ calls'[u] = calls[u] /\ held'[u] = held[u]
                                 /\ Contains(queue', u) <=> Contains(queue, u)
      BY <1>4, <2>1, <2>3
    <2>6. QED BY <1>1, <1>5, <2>4, <2>5, OthersInTime
  <1>8. QED BY <1>6, <1>7

\* The time a call has waited at the lock.
LEMMA WaitedInTime ==
    ASSUME ClientInductive, CallInductive, NEW t \in Tasks, in_phase(t, "credentials")
    PROVE  /\ now - calls[t].at <= Cardinality(Tasks) * ExchangeLimit
           /\ queue # <<>>
  <1>1. waiting(t) /\ queue \in Seq(Tasks)
    BY DEF CallInductive, InTime, ClientInductive, ClientTypeOK, TypeOK
  <1>2. PICK i \in DOMAIN queue : queue[i] = t /\ i \in Nat /\ 1 <= i
    BY <1>1 DEF waiting, Contains
  <1>3. counted - calls[t].at + i * ExchangeLimit <= Cardinality(Tasks) * ExchangeLimit
    BY <1>2 DEF CallInductive, PlacesInTime
  <1>4. /\ now \in Nat /\ ExchangeLimit \in Nat /\ calls[t].at \in Nat /\ counted \in Nat
        /\ Cardinality(Tasks) * ExchangeLimit \in Nat
        /\ exchange # Idle => now <= counted + ExchangeLimit
        /\ exchange = Idle => now = counted
    BY CallNumbers DEF counted
  <1>5. 1 * ExchangeLimit = ExchangeLimit /\ 1 * ExchangeLimit <= i * ExchangeLimit
        /\ i * ExchangeLimit \in Nat
    BY <1>2, <1>4, Places
  <1>6. queue # <<>>
    BY <1>1, <1>2
  <1>7. now - calls[t].at <= Cardinality(Tasks) * ExchangeLimit
    <2> DEFINE at == calls[t].at
               most == Cardinality(Tasks) * ExchangeLimit
               places == i * ExchangeLimit
    <2>1. /\ now \in Nat /\ ExchangeLimit \in Nat /\ at \in Nat /\ counted \in Nat
          /\ most \in Nat /\ places \in Nat
          /\ counted - at + places <= most /\ ExchangeLimit <= places
          /\ now <= counted + ExchangeLimit
      BY <1>3, <1>4, <1>5
    <2> HIDE DEF at, most, places
    <2>2. now - at <= most
      BY <2>1
    <2>3. QED BY <2>2 DEF at, most
  <1>8. QED BY <1>6, <1>7

\* Whoever has its credentials has waited no longer than that.
LEMMA AuthorisedInTime ==
    ASSUME ClientInductive, CallInductive, NEW t \in Tasks, authorised(t)
    PROVE  CallInductive'
  <1>1. /\ TypeOK /\ LockInductive /\ TimesInductive
        /\ calls \in [Tasks -> Call] /\ calls[t] \in Call
    BY DEF ClientInductive, ClientTypeOK, TokenInductive
  <1>2. /\ leave(t) /\ now' = now /\ t = Head(queue) /\ queue # <<>>
        /\ exchange' = Idle
        /\ \E token \in Token : give(t, token)
    <2>1. CASE find_refreshed(t)
      BY <1>1, <2>1, WarmServes DEF find_refreshed
    <2>2. CASE exchange_succeeds(t)
      BY <1>1, <2>2, Numbers DEF exchange_succeeds, TypeOK, LockInductive
    <2>3. QED BY <2>1, <2>2 DEF authorised
  <1>3. /\ calls'[t] = [calls[t] EXCEPT !.phase = "request"]
        /\ \A u \in Tasks \ {t} : calls'[u] = calls[u]
    BY <1>1 DEF authorised, moved
  <1>4. held'[t].at = now /\ \A u \in Tasks \ {t} : held'[u] = held[u]
    BY <1>1, <1>2, GivenNow
  <1>5. waiting(t)
    BY <1>1, <1>2 DEF waiting, Contains, TypeOK
  <1>6. \A u \in Tasks : Contains(queue', u) <=> Contains(queue, u) /\ u # t
    BY <1>1, <1>2, QueueLeft
  <1>7. in_phase(t, "credentials") /\ InTime(t)
    BY <1>5 DEF CallInductive, InTime
  <1>8. PlacesInTime'
    BY <1>2, <1>3, PlacesLeft
  <1>9. InTime(t)'
    <2>1. now - calls[t].at <= Cardinality(Tasks) * ExchangeLimit
      BY <1>7, WaitedInTime
    <2>2. /\ calls'[t].phase = "request" /\ calls'[t].at = calls[t].at
          /\ calls'[t].started = calls[t].started /\ calls'[t].delay = calls[t].delay
      BY <1>1, <1>3 DEF Call
    <2>3. ~Contains(queue', t)
      BY <1>6
    <2>4. QED BY <1>2, <1>4, <1>7, <2>1, <2>2, <2>3 DEF InTime, in_phase, waiting
  <1>10. QED BY <1>2, <1>3, <1>4, <1>6, <1>8, <1>9, OthersInTime

\* How a failed attempt leaves its call.
LEMMA AfterAttempt ==
    ASSUME ClientInductive, NEW t \in Tasks,
           attempt_failed(t) \/ ended(t, "returned") \/ ended(t, "raised")
    PROVE  /\ \A u \in Tasks \ {t} : calls'[u] = calls[u]
           /\ calls'[t].at = now /\ calls'[t].started = calls[t].started
           /\ calls'[t].delay \in Nat
           /\ \/ calls'[t].phase = "sleeping"
              \/ calls'[t].phase \in {"returned", "raised"} /\ calls'[t].delay = 0
  <1>1. calls \in [Tasks -> Call] /\ calls[t] \in Call
    BY CallNumbers
  <1>2. CASE again(t)
    <2>1. PICK d \in Retry(t)!_backoff_delay(calls[t].attempt) :
              calls' = [calls EXCEPT ![t].phase = "sleeping", ![t].attempt = @ + 1,
                                     ![t].at = now, ![t].delay = d]
      BY <1>2 DEF again
    <2>2. d \in Nat
      BY <2>1 DEF Retry!_backoff_delay
    <2>3. QED BY <1>1, <2>1, <2>2 DEF Call
  <1>3. ASSUME NEW phase \in {"returned", "raised"}, ended(t, phase)
        PROVE  /\ \A u \in Tasks \ {t} : calls'[u] = calls[u]
               /\ calls'[t].at = now /\ calls'[t].started = calls[t].started
               /\ calls'[t].phase = phase /\ calls'[t].delay = 0
    BY <1>1, <1>3 DEF ended, Call
  <1>4. QED BY <1>2, <1>3 DEF attempt_failed

\* A call whose attempt is over, at the lock or behind it.
LEMMA OverInTime ==
    ASSUME ClientInductive, CallInductive, NEW t \in Tasks,
           attempt_failed(t) \/ ended(t, "returned") \/ ended(t, "raised"),
           \/ exchange_fails(t) \/ cancel(t)
           \/ ~in_phase(t, "credentials") /\ UNCHANGED tokenVars
    PROVE  CallInductive'
  <1>1. /\ \A u \in Tasks \ {t} : calls'[u] = calls[u]
        /\ calls'[t].at = now /\ calls'[t].started = calls[t].started
        /\ calls'[t].delay \in Nat
        /\ \/ calls'[t].phase = "sleeping"
           \/ calls'[t].phase \in {"returned", "raised"} /\ calls'[t].delay = 0
    BY AfterAttempt
  <1>2. /\ now \in Nat /\ SleepSlack \in Nat /\ InTime(t)
        /\ calls[t].started \in Nat /\ calls[t].at \in Nat
    BY CallNumbers DEF CallInductive
  <1>3. now' = now /\ held' = held
    BY DEF exchange_fails, cancel, tokenVars
  <1>4. /\ PlacesInTime' /\ ~Contains(queue', t)
        /\ \A u \in Tasks \ {t} : Contains(queue', u) <=> Contains(queue, u)
    <2>1. CASE exchange_fails(t) \/ cancel(t)
      <3>1. leave(t)
        BY <2>1 DEF exchange_fails, cancel
      <3>2. TypeOK /\ LockInductive
        BY DEF ClientInductive, TokenInductive
      <3>3. \/ exchange = Idle /\ exchange' = Idle
            \/ exchange # Idle /\ exchange' = Idle /\ t = Head(queue)
            \/ exchange # Idle /\ exchange' = exchange
        BY <2>1 DEF exchange_fails, cancel
      <3>4. PlacesInTime'
        BY <1>1, <1>3, <3>1, <3>3, PlacesLeft
      <3>5. QED BY <3>1, <3>2, <3>4, QueueLeft
    <2>2. CASE ~in_phase(t, "credentials") /\ UNCHANGED tokenVars
      <3>1. ~waiting(t) /\ queue' = queue /\ exchange' = exchange
        BY <1>2, <2>2 DEF InTime, tokenVars
      <3>2. counted' = counted
        BY <1>3, <3>1 DEF counted, Idle
      <3>3. \A i \in DOMAIN queue : calls'[queue[i]] = calls[queue[i]]
        <4>1. \A i \in DOMAIN queue : queue[i] \in Tasks \ {t}
          BY <3>1 DEF waiting, Contains, ClientInductive, ClientTypeOK, TypeOK
        <4>2. QED BY <1>1, <4>1
      <3>4. PlacesInTime'
        BY <3>1, <3>2, <3>3 DEF CallInductive, PlacesInTime
      <3>5. QED BY <3>1, <3>4 DEF waiting
    <2>3. QED BY <2>1, <2>2
  <1>5. InTime(t)'
    <2>1. calls[t].started <= now
      BY <1>2 DEF InTime
    <2>2. QED BY <1>1, <1>2, <1>3, <1>4, <2>1 DEF InTime, in_phase, waiting, woken
  <1>6. QED BY <1>1, <1>3, <1>4, <1>5, OthersInTime

\* Time passes for the exchange under way, the requests and the sleeps.
LEMMA ElapsedInTime ==
    ASSUME ClientInductive, CallInductive, elapse
    PROVE  CallInductive'
  <1>1. /\ now' = now + 1 /\ UNCHANGED <<queue, exchange, held, calls>>
        /\ queue # <<>> => exchange # Idle
        /\ \A t \in Tasks : in_phase(t, "sleeping") => now < woken(t) + SleepSlack
    BY DEF elapse, tick
  <1>2. counted' = counted \/ queue = <<>>
    BY <1>1 DEF counted, Idle
  <1>3. PlacesInTime'
    BY <1>1, <1>2, PlacesKept
  <1>4. ASSUME NEW t \in Tasks PROVE InTime(t)'
    <2>1. /\ InTime(t) /\ now \in Nat /\ SleepSlack \in Nat /\ calls[t].at \in Nat
          /\ calls[t].delay \in Nat
      BY CallNumbers DEF CallInductive
    <2>2. calls[t].at <= now + 1
      BY <2>1 DEF InTime
    <2>3. in_phase(t, "sleeping") => now + 1 <= woken(t) + SleepSlack
      BY <1>1, <2>1 DEF woken
    <2>4. QED BY <1>1, <2>1, <2>2, <2>3 DEF InTime, in_phase, waiting, woken
  <1>5. QED BY <1>3, <1>4 DEF CallInductive

\* The exchange begins, a token is issued, or nothing happens.
LEMMA CallsInTime ==
    ASSUME ClientInductive, CallInductive, UNCHANGED calls,
           begin_exchange \/ issue \/ UNCHANGED tokenVars
    PROVE  CallInductive'
  <1>1. UNCHANGED <<now, queue, held, calls>>
    BY DEF begin_exchange, issue, tokenVars
  <1>2. counted' = counted
    <2>1. CASE begin_exchange
      <3>1. exchange = Idle /\ exchange'.began = now /\ exchange' # Idle /\ now \in Nat
        BY <2>1 DEF begin_exchange, Idle, ClientInductive, ClientTypeOK, TypeOK
      <3>2. QED BY <1>1, <3>1 DEF counted, Idle
    <2>2. CASE issue
      <3>1. exchange # Idle /\ exchange \in Exchange
        BY <2>2 DEF issue, ClientInductive, ClientTypeOK, TypeOK
      <3>2. exchange'.began = exchange.began /\ exchange.began \in Nat
        BY <2>2, <3>1 DEF issue, Exchange
      <3>3. exchange' # Idle
        BY <3>2 DEF Idle
      <3>4. QED BY <3>1, <3>2, <3>3 DEF counted, Idle
    <2>3. CASE UNCHANGED tokenVars
      BY <2>3 DEF tokenVars, counted, Idle
    <2>4. QED BY <2>1, <2>2, <2>3
  <1>3. PlacesInTime'
    BY <1>1, <1>2, PlacesKept
  <1>4. \A t \in Tasks : InTime(t)'
    BY <1>1 DEF CallInductive, InTime, in_phase, waiting, woken
  <1>5. QED BY <1>3, <1>4 DEF CallInductive

\* The invariants of the client, together.
Timely == ClientInductive /\ CallInductive

\* No step breaks them.
LEMMA TimelyStep == Timely /\ [ClientNext]_clientVars => Timely'
  <1> SUFFICES ASSUME ClientInductive, CallInductive, [ClientNext]_clientVars
               PROVE  CallInductive' /\ ClientInductive'
    BY DEF Timely
  <1>1. ClientInductive'
    BY ClientStep
  <1>2. ASSUME NEW t \in Tasks, start(t) \/ wake(t)
        PROVE  CallInductive'
    <2>1. /\ calls[t] \in Call /\ now \in Nat /\ InTime(t) /\ 0 \in 0.._MAX_BACKOFF_SECONDS
          /\ calls[t].started \in Nat /\ calls[t].at \in Nat
      BY CallNumbers DEF CallInductive
    <2>2. CASE start(t)
      <3> DEFINE call == [calls[t] EXCEPT !.started = now, !.at = now]
      <3>1. call \in Call /\ call.started = now /\ call.at = now /\ call.delay = 0
        <4>1. calls[t].delay = 0
          BY <2>1, <2>2 DEF start, InTime, in_phase
        <4>2. QED BY <2>1, <4>1 DEF Call
      <3>2. asking(t, call)
        BY <2>2 DEF start
      <3> HIDE DEF call
      <3>3. QED BY <1>1, <2>1, <3>1, <3>2, AskedInTime
    <2>3. CASE wake(t)
      <3> DEFINE call == [calls[t] EXCEPT !.at = now, !.delay = 0]
      <3>1. call \in Call /\ call.started <= now /\ call.at = now /\ call.delay = 0
        <4>1. calls[t].started <= now
          BY <2>1 DEF InTime
        <4>2. QED BY <2>1, <4>1 DEF Call
      <3>2. asking(t, call)
        BY <2>3 DEF wake
      <3> HIDE DEF call
      <3>3. QED BY <1>1, <2>1, <3>1, <3>2, AskedInTime
    <2>4. QED BY <1>2, <2>2, <2>3
  <1>3. ASSUME NEW t \in Tasks,
               \/ authorised(t) \/ unauthorised(t)
               \/ request_succeeds(t) \/ request_fails(t) \/ cancelled(t)
        PROVE  CallInductive'
    <2>1. CASE authorised(t)
      BY <2>1, AuthorisedInTime
    <2>2. CASE unauthorised(t)
      BY <2>2, OverInTime DEF unauthorised
    <2>3. CASE request_succeeds(t) \/ request_fails(t)
      BY <2>3, OverInTime DEF request_succeeds, request_fails, in_phase
    <2>4. CASE cancelled(t)
      BY <2>4, OverInTime DEF cancelled
    <2>5. QED BY <1>3, <2>1, <2>2, <2>3, <2>4
  <1>4. CASE (begin_exchange \/ issue) /\ UNCHANGED calls
    BY <1>1, <1>4, CallsInTime
  <1>5. CASE elapse
    BY <1>1, <1>5, ElapsedInTime
  <1>6. CASE UNCHANGED clientVars
    BY <1>1, <1>6, CallsInTime DEF clientVars
  <1>7. QED BY <1>1, <1>2, <1>3, <1>4, <1>5, <1>6 DEF ClientNext

\* Nobody waits for anything.
LEMMA TimelyInit == ClientInit => Timely
  <1> SUFFICES ASSUME ClientInit PROVE Timely
    OBVIOUS
  <1>1. queue = <<>> /\ now = 0
    BY DEF ClientInit, Init
  <1>2. PlacesInTime
    <2>1. DOMAIN queue = {}
      BY <1>1
    <2>2. QED BY <2>1 DEF PlacesInTime
  <1>3. \A t \in Tasks : calls[t] = [phase |-> "none", attempt |-> 0,
                                     started |-> 0, at |-> 0, delay |-> 0]
    BY DEF ClientInit
  <1>4. \A t \in Tasks : InTime(t)
    BY <1>1, <1>3 DEF InTime, in_phase, waiting, Contains
  <1>5. QED BY <1>2, <1>4, ClientInitStep DEF Timely, CallInductive

\* The invariant of what each call has waited for (integrations/sheets/auth.py:95-121,
\* core/retry.py:58-97).
THEOREM EveryWaitIsBounded == ClientSpec => []CallInductive
  <1>1. ClientSpec => []Timely
    BY TimelyInit, TimelyStep, PTL DEF ClientSpec
  <1>2. Timely => CallInductive
    BY DEF Timely
  <1>3. QED BY <1>1, <1>2, PTL

-----------------------------------------------------------------------------
\* What core/retry.py sees of a call that does not move, or only gets its credentials.
LEMMA RetryStutters ==
    ASSUME NEW t \in Tasks,
           LET running == {"none", "credentials", "request"} IN
           \/ calls'[t].phase = calls[t].phase
           \/ calls[t].phase \in running /\ calls'[t].phase \in running,
           calls'[t].attempt = calls[t].attempt, calls'[t].delay = calls[t].delay,
           calls'[t].at - calls'[t].started = calls[t].at - calls[t].started
    PROVE  UNCHANGED Retry(t)!retryVars
  BY DEF Retry!retryVars

\* A call starts at no time, and wakes in time.
LEMMA AskIsRetry ==
    ASSUME Timely, NEW t \in Tasks, start(t) \/ wake(t)
    PROVE  Retry(t)!wake \/ UNCHANGED Retry(t)!retryVars
  <1>1. /\ InTime(t) /\ calls \in [Tasks -> Call] /\ calls[t] \in Call /\ now \in Nat
        /\ calls[t].started \in Nat /\ calls[t].at \in Nat /\ calls[t].delay \in Nat
        /\ SleepSlack \in Nat
    BY CallNumbers DEF Timely, CallInductive
  <1>2. CASE start(t)
    <2>1. /\ calls'[t].phase \in {"credentials", "request"}
          /\ calls'[t].at = now /\ calls'[t].started = now
          /\ calls'[t].attempt = calls[t].attempt /\ calls'[t].delay = calls[t].delay
      BY <1>1, <1>2 DEF start, asking, Call
    <2>2. calls[t].phase = "none" /\ calls[t].at - calls[t].started = 0
      BY <1>1, <1>2 DEF start, InTime, in_phase
    <2>3. now - now = 0
      BY <1>1
    <2>4. QED BY <2>1, <2>2, <2>3, RetryStutters
  <1>3. CASE wake(t)
    <2>1. /\ calls'[t].phase \in {"credentials", "request"}
          /\ calls'[t].at = now /\ calls'[t].started = calls[t].started
          /\ calls'[t].attempt = calls[t].attempt /\ calls'[t].delay = 0
      BY <1>1, <1>3 DEF wake, asking, Call
    <2>2. calls[t].phase = "sleeping" /\ now >= woken(t) /\ now <= woken(t) + SleepSlack
      BY <1>1, <1>3 DEF wake, InTime, in_phase
    <2> DEFINE late == now - woken(t)
    <2>3. /\ late \in 0..SleepSlack
          /\ calls'[t].at - calls'[t].started
                 = (calls[t].at - calls[t].started) + calls[t].delay + late
      BY <1>1, <2>1, <2>2 DEF woken
    <2> HIDE DEF late
    <2>4. QED BY <2>1, <2>2, <2>3 DEF Retry!wake
  <1>4. QED BY <1>2, <1>3

\* The attempt under way has lasted no longer than an exchange for every task and a
\* request.
LEMMA AttemptInTime ==
    ASSUME Timely, NEW t \in Tasks, calls[t].phase \in {"credentials", "request"}
    PROVE  now - calls[t].at \in 0..(Cardinality(Tasks) * ExchangeLimit + RequestLimit)
  <1>1. /\ InTime(t) /\ now \in Nat /\ calls[t].at \in Nat /\ RequestLimit \in Nat
        /\ Cardinality(Tasks) * ExchangeLimit \in Nat
        /\ calls[t].at <= now
    BY CallNumbers DEF Timely, CallInductive, InTime
  <1>2. CASE in_phase(t, "credentials")
    BY <1>1, <1>2, WaitedInTime DEF Timely
  <1>3. CASE in_phase(t, "request")
    <2>1. /\ held[t].at - calls[t].at <= Cardinality(Tasks) * ExchangeLimit
          /\ now <= held[t].at + RequestLimit /\ held[t] \in Handed
      BY <1>1, <1>3 DEF InTime, Timely, ClientInductive, ClientTypeOK, TypeOK
    <2>2. held[t].at \in Nat
      BY <2>1 DEF Handed
    <2>3. QED BY <1>1, <2>1, <2>2
  <1>4. QED BY <1>2, <1>3 DEF in_phase

\* An attempt that fails is retried or is the last, as core/retry.py has it.
LEMMA FailureIsRetry ==
    ASSUME Timely, NEW t \in Tasks, calls[t].phase \in {"credentials", "request"},
           attempt_failed(t)
    PROVE  Retry(t)!retry \/ Retry(t)!fail_permanently
  <1>1. /\ calls \in [Tasks -> Call] /\ calls[t] \in Call /\ InTime(t)
        /\ now \in Nat /\ calls[t].at \in Nat /\ calls[t].started \in Nat
    BY CallNumbers DEF Timely, CallInductive
  <1> DEFINE lasted == now - calls[t].at
  <1>2. /\ lasted \in 0..(Cardinality(Tasks) * ExchangeLimit + RequestLimit)
        /\ now - calls[t].started = (calls[t].at - calls[t].started) + lasted
    BY <1>1, AttemptInTime
  <1> HIDE DEF lasted
  <1>3. CASE again(t)
    <2>1. PICK d \in Retry(t)!_backoff_delay(calls[t].attempt) :
              calls' = [calls EXCEPT ![t].phase = "sleeping", ![t].attempt = @ + 1,
                                     ![t].at = now, ![t].delay = d]
      BY <1>3 DEF again
    <2>2. /\ calls'[t].phase = "sleeping" /\ calls'[t].attempt = calls[t].attempt + 1
          /\ calls'[t].at = now /\ calls'[t].delay = d
          /\ calls'[t].started = calls[t].started
      BY <1>1, <2>1 DEF Call
    <2>3. Retry(t)!attempt_takes(lasted)
      BY <1>2, <2>2 DEF Retry!attempt_takes
    <2>4. Retry(t)!retries_left
      BY <1>3 DEF again
    <2>5. ~Retry(t)!overruns(calls[t].at - calls[t].started + lasted, d)
      BY DEF Retry!overruns
    <2>6. QED BY <1>2, <2>1, <2>2, <2>3, <2>4, <2>5 DEF Retry!retry
  <1>4. CASE ended(t, "raised")
    <2>1. /\ calls'[t].phase = "raised" /\ calls'[t].attempt = calls[t].attempt
          /\ calls'[t].at = now /\ calls'[t].delay = 0
          /\ calls'[t].started = calls[t].started
      BY <1>1, <1>4 DEF ended, Call
    <2>2. Retry(t)!attempt_takes(lasted)
      BY <1>2, <2>1 DEF Retry!attempt_takes
    <2>3. calls[t].delay = 0
      BY <1>1 DEF InTime, in_phase
    <2>4. QED BY <1>2, <2>1, <2>2, <2>3 DEF Retry!fail_permanently
  <1>5. QED BY <1>3, <1>4 DEF attempt_failed

\* An answer that is read, or a probe that runs out of time, ends the call as it ends
\* retry_async.
LEMMA EndIsRetry ==
    ASSUME Timely, NEW t \in Tasks, request_succeeds(t) \/ cancelled(t)
    PROVE  Retry(t)!succeed \/ Retry(t)!cancel
  <1>1. /\ calls \in [Tasks -> Call] /\ calls[t] \in Call /\ InTime(t) /\ now \in Nat
        /\ calls[t].at \in Nat /\ calls[t].started \in Nat /\ calls[t].delay \in Nat
        /\ SleepSlack \in Nat
    BY CallNumbers DEF Timely, CallInductive
  <1> DEFINE lasted == now - calls[t].at
             seen == calls[t].at - calls[t].started
  <1>2. now - calls[t].started = seen + lasted
    BY <1>1
  <1>3. calls[t].phase \in {"credentials", "request"}
            => lasted \in 0..(Cardinality(Tasks) * ExchangeLimit + RequestLimit)
    BY AttemptInTime
  <1>4. ASSUME NEW phase \in {"returned", "raised"}, ended(t, phase)
        PROVE  /\ calls'[t].phase = phase /\ calls'[t].attempt = calls[t].attempt
               /\ calls'[t].delay = 0
               /\ calls'[t].at - calls'[t].started = seen + lasted
    BY <1>1, <1>2, <1>4 DEF ended, Call
  <1>5. CASE request_succeeds(t)
    <2>1. calls[t].phase = "request" /\ calls[t].delay = 0 /\ ended(t, "returned")
      BY <1>1, <1>5 DEF request_succeeds, InTime, in_phase
    <2> HIDE DEF lasted
    <2>2. Retry(t)!attempt_takes(lasted)
      BY <1>4, <2>1 DEF Retry!attempt_takes
    <2>3. QED BY <1>3, <1>4, <2>1, <2>2 DEF Retry!succeed
  <1>6. CASE cancelled(t)
    <2>1. calls[t].phase \in {"credentials", "request", "sleeping"} /\ ended(t, "raised")
      BY <1>6 DEF cancelled, in_phase
    <2>2. CASE calls[t].phase \in {"credentials", "request"}
      <3> HIDE DEF lasted
      <3>1. Retry(t)!attempt_takes(lasted)
        BY <1>4, <2>1, <2>2 DEF Retry!attempt_takes
      <3>2. QED BY <1>3, <1>4, <2>1, <2>2, <3>1 DEF Retry!cancel
    <2>3. CASE calls[t].phase = "sleeping"
      <3>1. lasted \in 0..(calls[t].delay + SleepSlack)
        BY <1>1, <2>3 DEF InTime, in_phase, woken
      <3> HIDE DEF lasted
      <3>2. QED BY <1>4, <2>1, <2>3, <3>1 DEF Retry!cancel
    <2>4. QED BY <2>1, <2>2, <2>3
  <1>7. QED BY <1>5, <1>6

\* Every step is a step of each call's retry_async, or none of it.
LEMMA StepIsRetry ==
    ASSUME Timely, [ClientNext]_clientVars, NEW t \in Tasks
    PROVE  Retry(t)!Next \/ UNCHANGED Retry(t)!retryVars
  <1>1. TypeOK /\ LockInductive /\ calls \in [Tasks -> Call] /\ calls[t] \in Call
    BY DEF Timely, ClientInductive, ClientTypeOK, TokenInductive
  <1>2. CASE UNCHANGED calls
    BY <1>2, RetryStutters
  <1>3. ASSUME NEW u \in Tasks, u # t,
               \/ start(u) \/ wake(u) \/ authorised(u) \/ unauthorised(u)
               \/ request_succeeds(u) \/ request_fails(u) \/ cancelled(u)
        PROVE  UNCHANGED Retry(t)!retryVars
    <2>1. calls'[t] = calls[t]
      <3>1. CASE start(u) \/ wake(u)
        BY <1>1, <1>3, <3>1 DEF start, wake, asking
      <3>2. CASE authorised(u)
        BY <1>1, <1>3, <3>2 DEF authorised, moved
      <3>3. CASE unauthorised(u) \/ request_succeeds(u) \/ request_fails(u) \/ cancelled(u)
        <4>1. attempt_failed(u) \/ ended(u, "returned") \/ ended(u, "raised")
          BY <3>3 DEF unauthorised, request_succeeds, request_fails, cancelled
        <4>2. QED BY <1>3, <4>1, AfterAttempt DEF Timely
      <3>4. QED BY <1>3, <3>1, <3>2, <3>3
    <2>2. QED BY <2>1, RetryStutters
  <1>4. \A i \in DOMAIN queue : queue[i] = t => calls[t].phase = "credentials"
    BY <1>1 DEF Timely, CallInductive, InTime, in_phase, waiting, Contains, TypeOK
  <1>5. queue # <<>> /\ Head(queue) = t => calls[t].phase = "credentials"
    BY <1>1, <1>4 DEF TypeOK
  <1>6. CASE start(t) \/ wake(t)
    BY <1>6, AskIsRetry DEF Retry!Next
  <1>7. CASE authorised(t)
    <2>1. calls[t].phase = "credentials"
      BY <1>1, <1>5, <1>7 DEF authorised, find_refreshed, exchange_succeeds, LockInductive
    <2>2. /\ calls'[t].phase = "request" /\ calls'[t].attempt = calls[t].attempt
          /\ calls'[t].delay = calls[t].delay /\ calls'[t].at = calls[t].at
          /\ calls'[t].started = calls[t].started
      BY <1>1, <1>7 DEF authorised, moved, Call
    <2>3. QED BY <2>1, <2>2, RetryStutters
  <1>8. CASE unauthorised(t) \/ request_fails(t)
    <2>1. calls[t].phase \in {"credentials", "request"} /\ attempt_failed(t)
      BY <1>1, <1>5, <1>8
         DEF unauthorised, exchange_fails, request_fails, in_phase, LockInductive
    <2>2. QED BY <2>1, FailureIsRetry DEF Retry!Next
  <1>9. CASE request_succeeds(t) \/ cancelled(t)
    BY <1>9, EndIsRetry DEF Retry!Next
  <1>10. QED BY <1>2, <1>3, <1>6, <1>7, <1>8, <1>9 DEF ClientNext, elapse, clientVars

\* ImplementsRetry, for any number of tasks, retries and backoffs and any limits: each
\* call is a retry_async, whose attempt lasts no longer than one exchange for every
\* task and a request, whatever fails and whoever is cancelled
\* (integrations/sheets/client.py:90-149, core/retry.py:58-97).
THEOREM EveryCallIsARetry == ClientSpec => ImplementsRetry
  <1>1. ClientInit => \A t \in Tasks : Retry(t)!Init
    BY DEF ClientInit, Retry!Init
  <1>2. Timely /\ [ClientNext]_clientVars
            => [\A t \in Tasks : Retry(t)!Next \/ UNCHANGED Retry(t)!retryVars]_clientVars
    BY StepIsRetry
  <1>3. QED BY <1>1, <1>2, TimelyInit, TimelyStep, PTL DEF ClientSpec, ImplementsRetry

=============================================================================
