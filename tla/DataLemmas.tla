------------------------------ MODULE DataLemmas ------------------------------
(***************************************************************************)
(* Lemmas on data: a queue at a fair lock, in which nobody stands twice;   *)
(* induction on the natural numbers, and the loops that rest on it.        *)
(*                                                                         *)
(* The induction is stated with the set of the numbers a statement holds   *)
(* of: a lemma with an operator as its parameter could not be cited.       *)
(***************************************************************************)
EXTENDS Selection, Integers, FiniteSets, SequencesExt, FiniteSetTheorems,
        SequenceTheorems, WellFoundedInduction, TLAPS

\* A queue after one who was in it once has left it.
LEMMA Removed ==
    ASSUME NEW S, NEW q \in Seq(S), NEW i \in DOMAIN q,
           \A j, k \in DOMAIN q : q[j] = q[k] => j = k
    PROVE  /\ RemoveAt(q, i) \in Seq(S)
           /\ DOMAIN RemoveAt(q, i) = 1..(Len(q) - 1)
           /\ \A j \in 1..(Len(q) - 1) :
                  RemoveAt(q, i)[j] = IF j < i THEN q[j] ELSE q[j + 1]
           /\ \A u \in S : Contains(RemoveAt(q, i), u) <=> Contains(q, u) /\ u # q[i]
  <1> DEFINE r == RemoveAt(q, i)
         front == SubSeq(q, 1, i - 1)
         back == SubSeq(q, i + 1, Len(q))
  <1>a. Len(q) \in Nat /\ i \in 1..Len(q) /\ \A j \in 1..Len(q) : q[j] \in S
    OBVIOUS
  <1>b. /\ front \in Seq(S) /\ Len(front) = i - 1
        /\ \A j \in 1..(i - 1) : front[j] = q[j]
    <2>1. i - 1 \in Int /\ \A j \in 1..(i - 1) : q[j] \in S
      BY <1>a
    <2>2. /\ front \in Seq(S) /\ Len(front) = (IF 1 <= i - 1 THEN i - 1 - 1 + 1 ELSE 0)
          /\ \A j \in 1..(i - 1 - 1 + 1) : front[j] = q[1 + j - 1]
      BY <2>1, SubSeqProperties
    <2>3. QED BY <1>a, <2>2
  <1>c. /\ back \in Seq(S) /\ Len(back) = Len(q) - i
        /\ \A j \in 1..(Len(q) - i) : back[j] = q[i + j]
    <2>1. i + 1 \in Int /\ Len(q) \in Int /\ \A j \in (i + 1)..Len(q) : q[j] \in S
      BY <1>a
    <2>2. /\ back \in Seq(S)
          /\ Len(back) = (IF i + 1 <= Len(q) THEN Len(q) - (i + 1) + 1 ELSE 0)
          /\ \A j \in 1..(Len(q) - (i + 1) + 1) : back[j] = q[i + 1 + j - 1]
      BY <2>1, SubSeqProperties
    <2>3. QED BY <1>a, <2>2
  <1>d. /\ front \o back \in Seq(S) /\ Len(front \o back) = Len(q) - 1
        /\ \A j \in 1..(Len(q) - 1) :
               (front \o back)[j] = IF j <= i - 1 THEN front[j] ELSE back[j - (i - 1)]
    <2> HIDE DEF front, back
    <2>1. /\ front \o back \in Seq(S) /\ Len(front \o back) = Len(front) + Len(back)
          /\ \A j \in 1..(Len(front) + Len(back)) :
               (front \o back)[j] =
                   IF j <= Len(front) THEN front[j] ELSE back[j - Len(front)]
      BY <1>b, <1>c, ConcatProperties
    <2>2. Len(front) + Len(back) = Len(q) - 1 /\ Len(front) = i - 1
      BY <1>a, <1>b, <1>c
    <2>3. QED BY <2>1, <2>2
  <1>1. r \in Seq(S) /\ DOMAIN r = 1..(Len(q) - 1) /\ Len(r) = Len(q) - 1
    <2>1. r = front \o back
      BY DEF RemoveAt
    <2> HIDE DEF r, front, back
    <2>2. QED BY <1>d, <2>1
  <1>2. \A j \in 1..(Len(q) - 1) : r[j] = IF j < i THEN q[j] ELSE q[j + 1]
    <2> SUFFICES ASSUME NEW j \in 1..(Len(q) - 1)
                 PROVE  r[j] = IF j < i THEN q[j] ELSE q[j + 1]
      OBVIOUS
    <2>1. r[j] = IF j <= i - 1 THEN front[j] ELSE back[j - (i - 1)]
      BY <1>d DEF RemoveAt
    <2> HIDE DEF front, back, r
    <2>2. CASE j < i
      BY <1>a, <1>b, <2>1, <2>2
    <2>3. CASE ~(j < i)
      <3>1. j - (i - 1) \in 1..(Len(q) - i) /\ i + (j - (i - 1)) = j + 1 /\ ~(j <= i - 1)
        BY <1>a, <2>3
      <3>2. QED BY <1>c, <2>1, <2>3, <3>1
    <2>4. QED BY <2>2, <2>3
  <1>3. ASSUME NEW u \in S, Contains(r, u) PROVE Contains(q, u) /\ u # q[i]
    <2>1. PICK j \in 1..(Len(q) - 1) : r[j] = u
      BY <1>1, <1>3 DEF Contains
    <2>2. PICK k \in 1..Len(q) : k # i /\ q[k] = u
      BY <1>2, <2>1
    <2>3. QED BY <2>2 DEF Contains
  <1>4. ASSUME NEW u \in S, Contains(q, u), u # q[i] PROVE Contains(r, u)
    <2>1. PICK k \in 1..Len(q) : q[k] = u /\ k # i
      BY <1>4 DEF Contains
    <2>2. CASE k < i
      <3>1. k \in 1..(Len(q) - 1) /\ r[k] = u
        BY <1>2, <2>1, <2>2
      <3>2. QED BY <1>1, <3>1 DEF Contains
    <2>3. CASE k > i
      <3>1. k - 1 \in 1..(Len(q) - 1) /\ r[k - 1] = u
        BY <1>2, <2>1, <2>3
      <3>2. QED BY <1>1, <3>1 DEF Contains
    <2>4. QED BY <2>1, <2>2, <2>3
  <1>5. QED BY <1>1, <1>2, <1>3, <1>4

\* A queue without repetitions is no longer than there are who can queue.
LEMMA QueueFits ==
    ASSUME NEW S, IsFiniteSet(S), NEW q \in Seq(S), \A j, k \in DOMAIN q : q[j] = q[k] => j = k
    PROVE  Len(q) <= Cardinality(S)
  <1>2. q \in Injection(1..Len(q), S)
    BY DEF Injection, IsInjective
  <1>3. Cardinality(1..Len(q)) <= Cardinality(S)
    BY <1>2, FS_Injection
  <1>4. Cardinality(1..Len(q)) = Len(q)
    <2>1. Len(q) \in Nat /\ Len(q) \in Int /\ 1 \in Int
      OBVIOUS
    <2>2. Cardinality(1..Len(q)) = IF 1 > Len(q) THEN 0 ELSE Len(q) - 1 + 1
      BY <2>1, FS_Interval
    <2>3. QED BY <2>1, <2>2
  <1>5. QED BY <1>3, <1>4

-----------------------------------------------------------------------------
\* The order of the natural numbers, as a relation.
Below == {p \in Nat \X Nat : p[1] < p[2]}

\* A set of natural numbers has a least one.
LEMMA Least ==
    ASSUME NEW T, T \subseteq Nat, T # {}
    PROVE  \E x \in T : \A y \in T : x <= y
  <1>1. IsWellFoundedOn(Below, Nat)
    BY NatLessThanWellFounded DEF Below, OpToRel
  <1>2. PICK x \in T : \A y \in T : ~ (<<y, x>> \in Below)
    BY <1>1, WFMin
  <1>3. \A y \in T : ~ (y < x)
    BY <1>2 DEF Below
  <1>4. QED BY <1>2, <1>3

\* Induction, with the set of the numbers a statement holds of.
LEMMA Induction ==
    ASSUME NEW T, 0 \in T, \A n \in Nat : n \in T => n + 1 \in T
    PROVE  \A n \in Nat : n \in T
  <1> DEFINE U == Nat \ T
  <1>1. CASE U # {}
    <2>1. PICK x \in U : \A y \in U : x <= y
      BY <1>1, Least
    <2>2. x # 0 /\ x - 1 \in Nat /\ x - 1 \in T
      BY <2>1
    <2>3. x - 1 + 1 = x
      BY <2>1
    <2>4. QED BY <2>1, <2>2, <2>3
  <1>2. QED BY <1>1

\* f[k] is what a loop holds after its first k rounds, round k being
\* step[k], which takes what it holds to what it holds next.
IsLoop(f, n, a, step) == f = [k \in 0..n |-> IF k = 0 THEN a ELSE step[k][f[k - 1]]]

\* A loop over the first n places has run.
LEMMA LoopRuns ==
    ASSUME NEW V, NEW a \in V, NEW step \in [Nat -> [V -> V]], NEW n \in Nat
    PROVE  \E f \in [0..n -> V] : IsLoop(f, n, a, step)
  <1> DEFINE T == {m \in Nat : \E f \in [0..m -> V] : IsLoop(f, m, a, step)}
  <1>1. 0 \in T
    <2>1. [k \in 0..0 |-> a] \in [0..0 -> V] /\ IsLoop([k \in 0..0 |-> a], 0, a, step)
      BY DEF IsLoop
    <2>2. QED BY <2>1
  <1>2. ASSUME NEW m \in Nat, m \in T PROVE m + 1 \in T
    <2>1. PICK f \in [0..m -> V] : IsLoop(f, m, a, step)
      BY <1>2
    <2> DEFINE g == [k \in 0..(m + 1) |-> IF k = m + 1 THEN step[m + 1][f[m]] ELSE f[k]]
    <2>2. g \in [0..(m + 1) -> V]
      OBVIOUS
    <2>3. IsLoop(g, m + 1, a, step)
      <3>1. ASSUME NEW k \in 0..(m + 1)
            PROVE  g[k] = IF k = 0 THEN a ELSE step[k][g[k - 1]]
        <4>1. CASE k = m + 1
          BY <4>1
        <4>2. CASE k # m + 1
          <5>1. k \in 0..m /\ g[k] = f[k] /\ (k # 0 => g[k - 1] = f[k - 1])
            BY <4>2
          <5>2. f[k] = IF k = 0 THEN a ELSE step[k][f[k - 1]]
            BY <2>1, <5>1 DEF IsLoop
          <5>3. QED BY <5>1, <5>2
        <4>3. QED BY <4>1, <4>2
      <3>2. QED BY <3>1 DEF IsLoop
    <2> HIDE DEF g
    <2>4. \E h \in [0..(m + 1) -> V] : IsLoop(h, m + 1, a, step)
      BY <2>2, <2>3
    <2>5. QED BY <2>4
  <1>3. \A m \in Nat : m \in T
    <2> HIDE DEF T
    <2>1. QED BY <1>1, <1>2, Induction
  <1>4. QED BY <1>3

-----------------------------------------------------------------------------
\* Induction on sequences, with the set of those a statement holds of.
LEMMA SequencesGrow ==
    ASSUME NEW S, NEW T, <<>> \in T,
           \A s \in Seq(S), x \in S : s \in T => Append(s, x) \in T
    PROVE  \A s \in Seq(S) : s \in T
  <1> DEFINE L == {n \in Nat : \A s \in Seq(S) : Len(s) = n => s \in T}
  <1>1. 0 \in L
    <2>1. \A s \in Seq(S) : Len(s) = 0 => s = <<>>
      BY EmptySeq
    <2>2. QED BY <2>1
  <1>2. ASSUME NEW n \in Nat, n \in L PROVE n + 1 \in L
    <2> SUFFICES ASSUME NEW s \in Seq(S), Len(s) = n + 1 PROVE s \in T
      OBVIOUS
    <2>1. s # <<>>
      BY EmptySeq
    <2>2. PICK r \in Seq(S), x \in S : s = Append(r, x)
      BY <2>1, SequenceEmptyOrAppend
    <2>3. Len(r) = n
      <3>1. Len(s) = Len(r) + 1 /\ Len(r) \in Nat
        BY <2>2, AppendProperties, LenProperties
      <3>2. QED BY <3>1
    <2>4. r \in T
      BY <1>2, <2>3
    <2>5. QED BY <2>2, <2>4
  <1>3. \A n \in Nat : n \in L
    <2> HIDE DEF L
    <2>1. QED BY <1>1, <1>2, Induction
  <1>4. QED BY <1>3, LenProperties

\* f[n] is what is kept of the first n members.
IsKept(f, s, A) ==
    f = [n \in 0..Len(s) |->
            IF n = 0 THEN <<>> ELSE IF s[n] \in A THEN Append(f[n - 1], s[n]) ELSE f[n - 1]]

\* One more member.
KeepsNext(f, s, A, n) ==
    f[n + 1] = IF s[n + 1] \in A THEN Append(f[n], s[n + 1]) ELSE f[n]

LEMMA KeptAt ==
    ASSUME NEW s, NEW A, NEW f, IsKept(f, s, A), Len(s) \in Nat
    PROVE  \A n \in Nat : n + 1 <= Len(s) => KeepsNext(f, s, A, n)
  <1> SUFFICES ASSUME NEW n \in Nat, n + 1 <= Len(s) PROVE KeepsNext(f, s, A, n)
    OBVIOUS
  <1> DEFINE m == n + 1
             next == IF s[m] \in A THEN Append(f[m - 1], s[m]) ELSE f[m - 1]
  <1>1. m \in 0..Len(s) /\ m # 0 /\ m - 1 = n
    OBVIOUS
  <1> HIDE DEF m
  <1>2. f[m] = next
    BY <1>1, Zenon DEF IsKept
  <1>3. next = IF s[m] \in A THEN Append(f[n], s[m]) ELSE f[n]
    BY <1>1, Zenon
  <1>4. QED BY <1>2, <1>3, Zenon DEF m, KeepsNext

\* What is kept of a sequence is what its loop ends with.
LEMMA KeptRuns ==
    ASSUME NEW S, NEW s \in Seq(S), NEW A
    PROVE  \E f \in [0..Len(s) -> Seq(S)] : IsKept(f, s, A) /\ only(s, A) = f[Len(s)]
  <1> DEFINE N == Len(s)
             V == Seq(S)
             kept[n \in 0..N] ==
                 IF n = 0 THEN <<>>
                 ELSE IF s[n] \in A THEN Append(kept[n - 1], s[n]) ELSE kept[n - 1]
             step == [k \in Nat |-> [v \in V |->
                         IF k \in 1..N /\ s[k] \in A THEN Append(v, s[k]) ELSE v]]
  <1>1. N \in Nat /\ <<>> \in V /\ \A k \in 1..N, v \in V : Append(v, s[k]) \in V
    BY LenProperties, EmptySeq, ElementOfSeq, AppendProperties
  <1>2. \E f \in [0..N -> V] : IsKept(f, s, A)
    <2> HIDE DEF N, V
    <2>1. step \in [Nat -> [V -> V]]
      BY <1>1
    <2>2. PICK f \in [0..N -> V] : IsLoop(f, N, <<>>, step)
      <3> HIDE DEF step
      <3>1. QED BY <1>1, <2>1, LoopRuns
    <2>3. \A n \in 0..N : n # 0 =>
              step[n][f[n - 1]] = IF s[n] \in A THEN Append(f[n - 1], s[n]) ELSE f[n - 1]
      <3> SUFFICES ASSUME NEW n \in 0..N, n # 0
                   PROVE  step[n][f[n - 1]]
                              = IF s[n] \in A THEN Append(f[n - 1], s[n]) ELSE f[n - 1]
        OBVIOUS
      <3>1. n \in Nat /\ n \in 1..N /\ f[n - 1] \in V
        BY <1>1
      <3>2. QED BY <3>1, Zenon
    <2>4. IsKept(f, s, A)
      BY <2>2, <2>3 DEF IsLoop, IsKept, N
    <2>5. QED BY <2>4
  <1>3. IsKept(kept, s, A)
    <2>1. \E f : f = [n \in 0..N |-> IF n = 0 THEN <<>>
                          ELSE IF s[n] \in A THEN Append(f[n - 1], s[n]) ELSE f[n - 1]]
      BY <1>2 DEF IsKept
    <2>2. kept = [n \in 0..N |-> IF n = 0 THEN <<>>
                     ELSE IF s[n] \in A THEN Append(kept[n - 1], s[n]) ELSE kept[n - 1]]
      BY <2>1
    <2> HIDE DEF kept
    <2>3. QED BY <2>2 DEF IsKept
  <1>4. only(s, A) = kept[N]
    BY DEF only
  <1> HIDE DEF kept
  <1>5. PICK f \in [0..N -> V] : IsKept(f, s, A)
    BY <1>2
  <1>6. \A n \in Nat : n \in {m \in Nat : m <= N => f[m] = kept[m]}
    <2> DEFINE T == {m \in Nat : m <= N => f[m] = kept[m]}
    <2>1. 0 \in T
      BY <1>1, <1>3, <1>5 DEF IsKept
    <2>2. ASSUME NEW n \in Nat, n \in T PROVE n + 1 \in T
      <3> SUFFICES ASSUME n + 1 <= N PROVE f[n + 1] = kept[n + 1]
        OBVIOUS
      <3>1. n + 1 <= Len(s) /\ Len(s) \in Nat /\ f[n] = kept[n]
        BY <1>1, <2>2
      <3>2. KeepsNext(f, s, A, n)
        BY <1>5, <3>1, KeptAt
      <3>3. KeepsNext(kept, s, A, n)
        BY <1>3, <3>1, KeptAt
      <3>4. CASE s[n + 1] \in A
        <4>1. f[n + 1] = Append(f[n], s[n + 1]) /\ kept[n + 1] = Append(kept[n], s[n + 1])
          BY <3>2, <3>3, <3>4, Zenon DEF KeepsNext
        <4>2. f[n] = kept[n]
          BY <3>1
        <4>3. QED BY <4>1, <4>2, Zenon
      <3>5. CASE s[n + 1] \notin A
        BY <3>1, <3>2, <3>3, <3>5 DEF KeepsNext
      <3>6. QED BY <3>4, <3>5
    <2> HIDE DEF T
    <2>3. QED BY <2>1, <2>2, Induction DEF T
  <1>7. QED BY <1>1, <1>4, <1>5, <1>6

\* Nothing is kept of nothing.
LEMMA KeptEmpty ==
    ASSUME NEW A
    PROVE  only(<<>>, A) = <<>>
  <1> DEFINE S == {}
  <1>1. <<>> \in Seq(S) /\ Len(<<>>) = 0
    BY EmptySeq
  <1>2. PICK f \in [0..Len(<<>>) -> Seq(S)] :
            IsKept(f, <<>>, A) /\ only(<<>>, A) = f[Len(<<>>)]
    BY <1>1, KeptRuns
  <1>3. f[0] = <<>>
    BY <1>1, <1>2 DEF IsKept
  <1>4. QED BY <1>1, <1>2, <1>3

\* What is kept is such a sequence, too.
LEMMA KeptType ==
    ASSUME NEW S, NEW s \in Seq(S), NEW A
    PROVE  only(s, A) \in Seq(S)
  BY KeptRuns, LenProperties

\* Member by member.
LEMMA KeptAppend ==
    ASSUME NEW S, NEW A, NEW s \in Seq(S), NEW x \in S
    PROVE  /\ x \in A => only(Append(s, x), A) = Append(only(s, A), x)
           /\ x \notin A => only(Append(s, x), A) = only(s, A)
  <1> DEFINE r == Append(s, x)
             N == Len(s)
  <1>1. /\ r \in Seq(S) /\ N \in Nat /\ Len(r) = N + 1
        /\ \A i \in 1..N : r[i] = s[i]
        /\ r[N + 1] = x
    BY AppendProperties, LenProperties
  <1> HIDE DEF r
  <1>2. PICK f \in [0..Len(s) -> Seq(S)] : IsKept(f, s, A) /\ only(s, A) = f[Len(s)]
    BY KeptRuns
  <1>3. PICK g \in [0..Len(r) -> Seq(S)] : IsKept(g, r, A) /\ only(r, A) = g[Len(r)]
    BY <1>1, KeptRuns
  <1>4. \A n \in Nat : n \in {m \in Nat : m <= N => f[m] = g[m]}
    <2> DEFINE T == {m \in Nat : m <= N => f[m] = g[m]}
    <2>1. 0 \in T
      BY <1>1, <1>2, <1>3 DEF IsKept
    <2>2. ASSUME NEW n \in Nat, n \in T PROVE n + 1 \in T
      <3> SUFFICES ASSUME n + 1 <= N PROVE f[n + 1] = g[n + 1]
        OBVIOUS
      <3>1. /\ n + 1 <= Len(s) /\ n + 1 <= Len(r) /\ Len(s) \in Nat /\ Len(r) \in Nat
            /\ f[n] = g[n] /\ r[n + 1] = s[n + 1]
        BY <1>1, <2>2
      <3>2. KeepsNext(f, s, A, n)
        BY <1>2, <3>1, KeptAt
      <3>3. KeepsNext(g, r, A, n)
        BY <1>3, <3>1, KeptAt
      <3>4. CASE s[n + 1] \in A
        <4>1. f[n + 1] = Append(f[n], s[n + 1]) /\ g[n + 1] = Append(g[n], r[n + 1])
          BY <3>1, <3>2, <3>3, <3>4, Zenon DEF KeepsNext
        <4>2. f[n] = g[n] /\ r[n + 1] = s[n + 1]
          BY <3>1
        <4>3. QED BY <4>1, <4>2, Zenon
      <3>5. CASE s[n + 1] \notin A
        BY <3>1, <3>2, <3>3, <3>5 DEF KeepsNext
      <3>6. QED BY <3>4, <3>5
    <2> HIDE DEF T
    <2>3. QED BY <2>1, <2>2, Induction DEF T
  <1>5. g[N + 1] = IF x \in A THEN Append(g[N], x) ELSE g[N]
    <2>1. N + 1 <= Len(r) /\ Len(r) \in Nat /\ N \in Nat
      BY <1>1
    <2>2. KeepsNext(g, r, A, N)
      BY <1>3, <2>1, KeptAt
    <2>3. QED BY <1>1, <2>2, Zenon DEF KeepsNext
  <1>6. f[N] = g[N]
    BY <1>1, <1>4
  <1>7. QED BY <1>1, <1>2, <1>3, <1>5, <1>6 DEF r

\* A function on the first n places is a sequence.
LEMMA PlacesFilled ==
    ASSUME NEW S, NEW n \in Nat, NEW f \in [1..n -> S]
    PROVE  f \in Seq(S) /\ Len(f) = n
  OBVIOUS

\* Who is in a sequence.
LEMMA Members ==
    ASSUME NEW S
    PROVE  /\ ToSet(<<>>) = {}
           /\ \A s \in Seq(S) : ToSet(s) \subseteq S
           /\ \A s \in Seq(S), x \in S : ToSet(Append(s, x)) = ToSet(s) \cup {x}
           /\ \A s, t \in Seq(S) : ToSet(s \o t) = ToSet(s) \cup ToSet(t)
  <1>1. ToSet(<<>>) = {}
    BY EmptySeq DEF ToSet
  <1>2. \A s \in Seq(S) : ToSet(s) \subseteq S
    BY ElementOfSeq, LenProperties DEF ToSet
  <1>3. ASSUME NEW s \in Seq(S), NEW x \in S
        PROVE  ToSet(Append(s, x)) = ToSet(s) \cup {x}
    <2> DEFINE r == Append(s, x)
    <2>1. /\ DOMAIN s = 1..Len(s) /\ Len(s) \in Nat /\ Len(r) = Len(s) + 1
          /\ DOMAIN r = 1..Len(r)
          /\ \A i \in 1..Len(s) : r[i] = s[i]
          /\ r[Len(s) + 1] = x
      BY AppendProperties, LenProperties
    <2> HIDE DEF r
    <2>2. DOMAIN r = DOMAIN s \cup {Len(s) + 1}
      BY <2>1
    <2>3. {r[i] : i \in DOMAIN r} = {s[i] : i \in DOMAIN s} \cup {x}
      BY <2>1, <2>2
    <2>4. QED BY <2>3 DEF ToSet, r
  <1>4. ASSUME NEW s \in Seq(S), NEW t \in Seq(S)
        PROVE  ToSet(s \o t) = ToSet(s) \cup ToSet(t)
    <2> DEFINE r == s \o t
    <2>1. /\ DOMAIN s = 1..Len(s) /\ DOMAIN t = 1..Len(t) /\ Len(s) \in Nat /\ Len(t) \in Nat
          /\ DOMAIN r = 1..Len(s) + Len(t)
          /\ \A i \in 1..Len(s) + Len(t) :
                 r[i] = IF i <= Len(s) THEN s[i] ELSE t[i - Len(s)]
      BY ConcatProperties, LenProperties
    <2> HIDE DEF r
    <2>2. \A i \in DOMAIN t : i + Len(s) \in DOMAIN r /\ r[i + Len(s)] = t[i]
      BY <2>1
    <2>3. \A i \in DOMAIN s : i \in DOMAIN r /\ r[i] = s[i]
      BY <2>1
    <2>4. \A i \in DOMAIN r : \/ i \in DOMAIN s /\ r[i] = s[i]
                              \/ i - Len(s) \in DOMAIN t /\ r[i] = t[i - Len(s)]
      BY <2>1
    <2>5. {r[i] : i \in DOMAIN r} = {s[i] : i \in DOMAIN s} \cup {t[i] : i \in DOMAIN t}
      BY <2>2, <2>3, <2>4
    <2>6. QED BY <2>5 DEF ToSet, r
  <1>5. QED BY <1>1, <1>2, <1>3, <1>4

\* Who is kept.
LEMMA KeptMembers ==
    ASSUME NEW S, NEW A
    PROVE  \A s \in Seq(S) : ToSet(only(s, A)) = ToSet(s) \cap A
  <1> DEFINE T == {s \in Seq(S) : ToSet(only(s, A)) = ToSet(s) \cap A}
  <1>1. <<>> \in T
    BY KeptEmpty, Members, EmptySeq
  <1>2. ASSUME NEW s \in Seq(S), NEW x \in S, s \in T PROVE Append(s, x) \in T
    <2> DEFINE k == only(s, A)
    <2>1. k \in Seq(S) /\ Append(s, x) \in Seq(S)
      BY KeptType, AppendProperties
    <2>2. ToSet(k) = ToSet(s) \cap A
      BY <1>2
    <2>3. /\ x \in A => only(Append(s, x), A) = Append(k, x)
          /\ x \notin A => only(Append(s, x), A) = k
      BY KeptAppend
    <2> HIDE DEF k
    <2>4. /\ ToSet(Append(s, x)) = ToSet(s) \cup {x}
          /\ ToSet(Append(k, x)) = ToSet(k) \cup {x}
      BY <2>1, Members
    <2>5. ToSet(only(Append(s, x), A)) = ToSet(Append(s, x)) \cap A
      <3>1. CASE x \in A
        BY <2>2, <2>3, <2>4, <3>1
      <3>2. CASE x \notin A
        BY <2>2, <2>3, <2>4, <3>2
      <3>3. QED BY <3>1, <3>2
    <2>6. QED BY <2>1, <2>5
  <1> HIDE DEF T
  <1>3. \A s \in Seq(S) : s \in T
    BY <1>1, <1>2, SequencesGrow
  <1>4. QED BY <1>3 DEF T

\* What is kept is a sequence of what may be kept.
LEMMA KeptOnly ==
    ASSUME NEW S, NEW A, NEW s \in Seq(S)
    PROVE  only(s, A) \in Seq(A)
  <1> DEFINE k == only(s, A)
  <1>1. k \in Seq(S) /\ ToSet(k) \subseteq A
    BY KeptType, KeptMembers
  <1> HIDE DEF k
  <1>2. Len(k) \in Nat /\ k \in [1..Len(k) -> S] /\ DOMAIN k = 1..Len(k)
    BY <1>1, LenProperties
  <1>3. \A i \in 1..Len(k) : k[i] \in A
    BY <1>1, <1>2 DEF ToSet
  <1>4. k \in [1..Len(k) -> A]
    BY <1>2, <1>3
  <1>5. k \in Seq(A)
    BY <1>2, <1>4, PlacesFilled
  <1>6. QED BY <1>5 DEF k

\* Whoever is kept by both is kept by either.
LEMMA KeptOfKept ==
    ASSUME NEW S, NEW A, NEW B, NEW C, \A x \in S : x \in C <=> x \in A /\ x \in B
    PROVE  \A s \in Seq(S) : only(only(s, A), B) = only(s, C)
  <1> DEFINE T == {s \in Seq(S) : only(only(s, A), B) = only(s, C)}
  <1>1. <<>> \in T
    BY KeptEmpty, EmptySeq
  <1>2. ASSUME NEW s \in Seq(S), NEW x \in S, s \in T PROVE Append(s, x) \in T
    <2> DEFINE k == only(s, A)
    <2>1. k \in Seq(S) /\ Append(s, x) \in Seq(S)
      BY KeptType, AppendProperties
    <2>2. only(k, B) = only(s, C)
      BY <1>2
    <2>3. /\ x \in A => only(Append(s, x), A) = Append(k, x)
          /\ x \notin A => only(Append(s, x), A) = k
          /\ x \in C => only(Append(s, x), C) = Append(only(s, C), x)
          /\ x \notin C => only(Append(s, x), C) = only(s, C)
      BY KeptAppend
    <2> HIDE DEF k
    <2>4. /\ x \in B => only(Append(k, x), B) = Append(only(k, B), x)
          /\ x \notin B => only(Append(k, x), B) = only(k, B)
      BY <2>1, KeptAppend
    <2>5. only(only(Append(s, x), A), B) = only(Append(s, x), C)
      <3>1. CASE x \in A /\ x \in B
        BY <2>2, <2>3, <2>4, <3>1, Zenon
      <3>2. CASE x \in A /\ x \notin B
        BY <2>2, <2>3, <2>4, <3>2, Zenon
      <3>3. CASE x \notin A
        BY <2>2, <2>3, <3>3, Zenon
      <3>4. QED BY <3>1, <3>2, <3>3
    <2>6. QED BY <2>1, <2>5
  <1> HIDE DEF T
  <1>3. \A s \in Seq(S) : s \in T
    BY <1>1, <1>2, SequencesGrow
  <1>4. QED BY <1>3 DEF T

\* All or nothing is kept.
LEMMA KeptWhole ==
    ASSUME NEW S, NEW A
    PROVE  \A s \in Seq(S) : /\ ToSet(s) \subseteq A => only(s, A) = s
                             /\ ToSet(s) \cap A = {} => only(s, A) = <<>>
  <1> DEFINE T == {s \in Seq(S) : /\ ToSet(s) \subseteq A => only(s, A) = s
                                  /\ ToSet(s) \cap A = {} => only(s, A) = <<>>}
  <1>1. <<>> \in T
    BY KeptEmpty, EmptySeq
  <1>2. ASSUME NEW s \in Seq(S), NEW x \in S, s \in T PROVE Append(s, x) \in T
    <2>1. Append(s, x) \in Seq(S) /\ ToSet(Append(s, x)) = ToSet(s) \cup {x}
      BY AppendProperties, Members
    <2>2. /\ x \in A => only(Append(s, x), A) = Append(only(s, A), x)
          /\ x \notin A => only(Append(s, x), A) = only(s, A)
      BY KeptAppend
    <2>3. ToSet(Append(s, x)) \subseteq A => x \in A /\ only(s, A) = s
      BY <1>2, <2>1
    <2>4. ToSet(Append(s, x)) \cap A = {} => x \notin A /\ only(s, A) = <<>>
      BY <1>2, <2>1
    <2>5. /\ ToSet(Append(s, x)) \subseteq A => only(Append(s, x), A) = Append(s, x)
          /\ ToSet(Append(s, x)) \cap A = {} => only(Append(s, x), A) = <<>>
      BY <2>2, <2>3, <2>4, Zenon
    <2>6. QED BY <2>1, <2>5
  <1> HIDE DEF T
  <1>3. \A s \in Seq(S) : s \in T
    BY <1>1, <1>2, SequencesGrow
  <1>4. QED BY <1>3 DEF T

\* What comes after what.
LEMMA AppendedLast ==
    ASSUME NEW S, NEW s \in Seq(S), NEW t \in Seq(S), NEW x \in S
    PROVE  s \o Append(t, x) = Append(s \o t, x)
  <1>1. <<x>> \in Seq(S) /\ s \o t \in Seq(S)
    BY ConcatProperties
  <1>2. (s \o t) \o <<x>> = s \o (t \o <<x>>)
    BY <1>1, ConcatAssociative
  <1>3. Append(s \o t, x) = (s \o t) \o <<x>> /\ Append(t, x) = t \o <<x>>
    BY <1>1, AppendIsConcat
  <1>4. QED BY <1>2, <1>3, Zenon

\* What is kept of one sequence and then another.
LEMMA KeptConcat ==
    ASSUME NEW S, NEW A, NEW s \in Seq(S)
    PROVE  \A t \in Seq(S) : only(s \o t, A) = only(s, A) \o only(t, A)
  <1> DEFINE T == {t \in Seq(S) : only(s \o t, A) = only(s, A) \o only(t, A)}
  <1>1. <<>> \in T
    <2>1. only(s, A) \in Seq(S) /\ only(<<>>, A) = <<>> /\ <<>> \in Seq(S)
      BY KeptEmpty, KeptType, EmptySeq
    <2>2. s \o <<>> = s /\ only(s, A) \o <<>> = only(s, A)
      BY <2>1, ConcatEmptySeq
    <2>3. only(s \o <<>>, A) = only(s, A) \o only(<<>>, A)
      BY <2>1, <2>2, Zenon
    <2>4. QED BY <2>1, <2>3
  <1>2. ASSUME NEW t \in Seq(S), NEW x \in S, t \in T PROVE Append(t, x) \in T
    <2> DEFINE u == only(s, A)
               v == only(t, A)
               st == s \o t
    <2>1. u \in Seq(S) /\ v \in Seq(S) /\ st \in Seq(S) /\ Append(t, x) \in Seq(S)
      BY KeptType, ConcatProperties, AppendProperties
    <2>2. s \o Append(t, x) = Append(st, x)
      BY AppendedLast
    <2>3. /\ x \in A => only(Append(t, x), A) = Append(v, x)
          /\ x \notin A => only(Append(t, x), A) = v
      BY KeptAppend
    <2>4. only(st, A) = u \o v
      BY <1>2
    <2> HIDE DEF u, v, st
    <2>5. /\ x \in A => only(Append(st, x), A) = Append(only(st, A), x)
          /\ x \notin A => only(Append(st, x), A) = only(st, A)
      BY <2>1, KeptAppend
    <2>6. u \o Append(v, x) = Append(u \o v, x)
      BY <2>1, AppendedLast
    <2>7. only(s \o Append(t, x), A) = u \o only(Append(t, x), A)
      <3>1. CASE x \in A
        BY <2>2, <2>3, <2>4, <2>5, <2>6, <3>1, Zenon
      <3>2. CASE x \notin A
        BY <2>2, <2>3, <2>4, <2>5, <3>2, Zenon
      <3>3. QED BY <3>1, <3>2
    <2>8. QED BY <2>1, <2>7 DEF u
  <1> HIDE DEF T
  <1>3. \A t \in Seq(S) : t \in T
    BY <1>1, <1>2, SequencesGrow
  <1>4. QED BY <1>3 DEF T

\* Only the members of a sequence matter to what is kept of it.
LEMMA KeptSame ==
    ASSUME NEW S, NEW A, NEW B, \A x \in S : x \in A <=> x \in B
    PROVE  \A s \in Seq(S) : only(s, A) = only(s, B)
  <1> SUFFICES ASSUME NEW s \in Seq(S) PROVE only(s, A) = only(s, B)
    OBVIOUS
  <1> DEFINE k == only(s, A)
  <1>1. \A x \in S : x \in B <=> x \in A /\ x \in S
    OBVIOUS
  <1>2. only(k, S) = only(s, B)
    BY <1>1, KeptOfKept
  <1>3. k \in Seq(S)
    BY KeptType
  <1> HIDE DEF k
  <1>4. only(k, S) = k
    <2>1. ToSet(k) \subseteq S
      BY <1>3, Members
    <2>2. QED BY <1>3, <2>1, KeptWhole
  <1>5. QED BY <1>2, <1>4 DEF k

\* The members that are there decide.
LEMMA KeptAlike ==
    ASSUME NEW S, NEW s \in Seq(S), NEW A, NEW B, \A x \in ToSet(s) : x \in A <=> x \in B
    PROVE  only(s, A) = only(s, B)
  <1>1. Len(s) \in Nat /\ s \in [1..Len(s) -> S] /\ DOMAIN s = 1..Len(s)
    BY LenProperties
  <1>2. s \in [1..Len(s) -> ToSet(s)]
    BY <1>1 DEF ToSet
  <1>3. s \in Seq(ToSet(s))
    BY <1>1, <1>2, PlacesFilled
  <1>4. QED BY <1>3, KeptSame

\* Of one member.
LEMMA KeptOne ==
    ASSUME NEW x, NEW A
    PROVE  /\ x \in A => only(<<x>>, A) = <<x>>
           /\ x \notin A => only(<<x>>, A) = <<>>
  <1> DEFINE s == <<x>>
             S == {x}
  <1>1. s \in Seq(S) /\ DOMAIN s = 1..1 /\ s[1] = x
    OBVIOUS
  <1>2. ToSet(s) = {x}
    BY <1>1 DEF ToSet
  <1> HIDE DEF s, S
  <1>3. /\ ToSet(s) \subseteq A => only(s, A) = s
        /\ ToSet(s) \cap A = {} => only(s, A) = <<>>
    BY <1>1, KeptWhole
  <1>4. QED BY <1>2, <1>3 DEF s

\* Part of a sequence, place by place.
LEMMA Part ==
    ASSUME NEW S, NEW s \in Seq(S), NEW lo \in 1..Len(s) + 1, NEW hi \in lo - 1..Len(s)
    PROVE  /\ SubSeq(s, lo, hi) \in Seq(S)
           /\ Len(SubSeq(s, lo, hi)) = hi - lo + 1
           /\ \A i \in 1..hi - lo + 1 : SubSeq(s, lo, hi)[i] = s[lo + i - 1]
  <1>1. /\ Len(s) \in Nat /\ lo \in Int /\ hi \in Int /\ lo >= 1 /\ hi >= lo - 1 /\ hi <= Len(s)
        /\ \A i \in 1..Len(s) : s[i] \in S
    BY LenProperties, ElementOfSeq
  <1>2. \A i \in lo..hi : s[i] \in S
    BY <1>1
  <1>3. (IF lo <= hi THEN hi - lo + 1 ELSE 0) = hi - lo + 1
    BY <1>1
  <1>4. QED BY <1>1, <1>2, <1>3, SubSeqProperties

\* Part of a sequence keeps all there is to keep, where the rest has nothing.
LEMMA KeptMiddle ==
    ASSUME NEW S, NEW A, NEW s \in Seq(S), NEW lo \in 1..Len(s) + 1, NEW hi \in lo - 1..Len(s),
           \A i \in 1..lo - 1 : s[i] \notin A,
           \A i \in hi + 1..Len(s) : s[i] \notin A
    PROVE  only(SubSeq(s, lo, hi), A) = only(s, A)
  <1> DEFINE N == Len(s)
             a == SubSeq(s, 1, lo - 1)
             m == SubSeq(s, lo, hi)
             b == SubSeq(s, hi + 1, N)
  <1>1. /\ N \in Nat /\ lo \in Int /\ hi \in Int /\ 1 <= lo /\ lo - 1 <= hi /\ hi <= N
        /\ DOMAIN s = 1..N /\ \A i \in 1..N : s[i] \in S
    BY LenProperties, ElementOfSeq
  <1>2. a \in Seq(S) /\ only(a, A) = <<>>
    <2>1. \A i \in 1..lo - 1 : s[i] \in S
      BY <1>1
    <2>2. lo - 1 \in Int /\ 1 \in Int /\ (IF 1 <= lo - 1 THEN lo - 1 - 1 + 1 ELSE 0) = lo - 1
      BY <1>1
    <2>3. /\ a \in Seq(S) /\ Len(a) = lo - 1
          /\ \A i \in 1..lo - 1 : a[i] = s[1 + i - 1] /\ 1 + i - 1 = i
      BY <2>1, <2>2, SubSeqProperties
    <2> HIDE DEF a
    <2>4. ToSet(a) \cap A = {}
      <3>1. DOMAIN a = 1..lo - 1
        BY <2>3, LenProperties
      <3>2. QED BY <2>3, <3>1 DEF ToSet
    <2>5. QED BY <2>3, <2>4, KeptWhole
  <1>3. b \in Seq(S) /\ only(b, A) = <<>>
    <2>1. \A i \in hi + 1..N : s[i] \in S
      BY <1>1
    <2>2. /\ hi + 1 \in Int /\ N \in Int
          /\ (IF hi + 1 <= N THEN N - (hi + 1) + 1 ELSE 0) = N - hi
          /\ N - (hi + 1) + 1 = N - hi
      <3> HIDE DEF N
      <3>1. CASE hi + 1 <= N
        BY <1>1, <3>1
      <3>2. CASE ~(hi + 1 <= N)
        <4>1. hi = N
          BY <1>1, <3>2
        <4>2. QED BY <1>1, <3>2, <4>1
      <3>3. QED BY <3>1, <3>2
    <2>3. /\ b \in Seq(S) /\ Len(b) = N - hi
          /\ \A i \in 1..N - hi : b[i] = s[hi + 1 + i - 1]
      <3> HIDE DEF N
      <3>1. /\ b \in Seq(S) /\ Len(b) = (IF hi + 1 <= N THEN N - (hi + 1) + 1 ELSE 0)
            /\ \A i \in 1..N - (hi + 1) + 1 : b[i] = s[hi + 1 + i - 1]
        BY <2>1, <2>2, SubSeqProperties
      <3>2. QED BY <2>2, <3>1, Zenon
    <2>4. \A i \in 1..N - hi : hi + 1 + i - 1 \in hi + 1..N
      BY <1>1
    <2> HIDE DEF b
    <2>5. ToSet(b) \cap A = {}
      <3>1. DOMAIN b = 1..N - hi
        BY <2>3, LenProperties
      <3>2. QED BY <2>3, <2>4, <3>1 DEF ToSet
    <2>6. QED BY <2>3, <2>5, KeptWhole
  <1>4. m \in Seq(S)
    <2>1. \A i \in lo..hi : s[i] \in S
      BY <1>1
    <2>2. QED BY <1>1, <2>1, SubSeqProperties
  <1>5. (a \o m) \o b = s
    <2>1. /\ 1 \in 1..N + 1 /\ lo - 1 \in 1 - 1..N /\ hi \in lo - 1..N
          /\ hi \in 1 - 1..N /\ N \in hi..N /\ lo - 1 + 1 = lo
      BY <1>1
    <2>2. SubSeq(s, 1, lo - 1) \o SubSeq(s, lo - 1 + 1, hi) = SubSeq(s, 1, hi)
      BY <2>1, ConcatAdjacentSubSeq
    <2>3. SubSeq(s, 1, hi) \o SubSeq(s, hi + 1, N) = SubSeq(s, 1, N)
      BY <2>1, ConcatAdjacentSubSeq
    <2>4. SubSeq(s, 1, N) = s
      BY SubSeqFull
    <2>5. QED BY <2>1, <2>2, <2>3, <2>4, Zenon
  <1> HIDE DEF a, m, b, N
  <1>6. only(s, A) = (only(a, A) \o only(m, A)) \o only(b, A)
    <2>1. a \o m \in Seq(S)
      BY <1>2, <1>4, ConcatProperties
    <2>2. only((a \o m) \o b, A) = only(a \o m, A) \o only(b, A)
      BY <1>3, <2>1, KeptConcat
    <2>3. only(a \o m, A) = only(a, A) \o only(m, A)
      BY <1>2, <1>4, KeptConcat
    <2>4. QED BY <1>5, <2>2, <2>3, Zenon
  <1>7. only(m, A) \in Seq(S)
    BY <1>4, KeptType
  <1>8. (<<>> \o only(m, A)) \o <<>> = only(m, A)
    BY <1>7, ConcatEmptySeq
  <1>9. QED BY <1>2, <1>3, <1>6, <1>8, Zenon DEF m

\* s[n] is the first member of s that is in C.
FirstAt(s, n, C) == n \in 1..Len(s) /\ s[n] \in C /\ \A i \in 1..(n - 1) : s[i] \notin C

\* The first of those that are looked for is kept as the first, where all of them
\* are kept.
LEMMA FirstIsKept ==
    ASSUME NEW S, NEW A, NEW C, C \subseteq A
    PROVE  \A s \in Seq(S) : \A n \in 1..Len(s) : FirstAt(s, n, C) =>
               \E m \in 1..Len(only(s, A)) :
                   FirstAt(only(s, A), m, C) /\ only(s, A)[m] = s[n]
  <1> DEFINE T == {s \in Seq(S) : \A n \in 1..Len(s) : FirstAt(s, n, C) =>
                       \E m \in 1..Len(only(s, A)) :
                           FirstAt(only(s, A), m, C) /\ only(s, A)[m] = s[n]}
  <1>1. <<>> \in T
    <2>1. <<>> \in Seq(S) /\ Len(<<>>) = 0
      BY EmptySeq
    <2>2. QED BY <2>1
  <1>2. ASSUME NEW s \in Seq(S), NEW x \in S, s \in T PROVE Append(s, x) \in T
    <2> DEFINE k == only(s, A)
               r == Append(s, x)
               l == only(r, A)
    <2>1. /\ r \in Seq(S) /\ Len(s) \in Nat /\ Len(r) = Len(s) + 1 /\ r[Len(s) + 1] = x
          /\ \A i \in 1..Len(s) : r[i] = s[i]
      BY AppendProperties, LenProperties
    <2>2. k \in Seq(S) /\ Len(k) \in Nat
      BY KeptType, LenProperties
    <2>3. /\ x \in A => l = Append(k, x)
          /\ x \notin A => l = k
      BY KeptAppend
    <2>4. ToSet(k) = ToSet(s) \cap A
      BY KeptMembers
    <2>5. \A n \in 1..Len(s) : FirstAt(s, n, C) =>
              \E m \in 1..Len(k) : FirstAt(k, m, C) /\ k[m] = s[n]
      BY <1>2
    <2> HIDE DEF k, r, l
    <2>6. /\ Len(Append(k, x)) = Len(k) + 1 /\ Append(k, x)[Len(k) + 1] = x
          /\ \A i \in 1..Len(k) : Append(k, x)[i] = k[i]
      BY <2>2, AppendProperties
    <2>7. Len(l) \in Nat /\ Len(k) <= Len(l) /\ \A i \in 1..Len(k) : l[i] = k[i]
      BY <2>2, <2>3, <2>6
    <2>8. ASSUME NEW n \in 1..Len(r), FirstAt(r, n, C)
          PROVE  \E m \in 1..Len(l) : FirstAt(l, m, C) /\ l[m] = r[n]
      <3>1. CASE n <= Len(s)
        <4>1. n \in 1..Len(s) /\ FirstAt(s, n, C) /\ r[n] = s[n]
          BY <2>1, <2>8, <3>1 DEF FirstAt
        <4>2. PICK m \in 1..Len(k) : FirstAt(k, m, C) /\ k[m] = s[n]
          BY <2>5, <4>1
        <4>3. m \in 1..Len(l) /\ FirstAt(l, m, C) /\ l[m] = r[n]
          BY <2>2, <2>7, <4>1, <4>2 DEF FirstAt
        <4>4. QED BY <4>3
      <3>2. CASE n = Len(s) + 1
        <4>1. x \in C /\ r[n] = x /\ \A i \in 1..Len(s) : s[i] \notin C
          BY <2>1, <2>8, <3>2 DEF FirstAt
        <4>2. \A i \in 1..Len(k) : k[i] \notin C
          BY <2>2, <2>4, <4>1 DEF ToSet
        <4>3. l = Append(k, x) /\ Len(l) = Len(k) + 1 /\ l[Len(k) + 1] = x
          BY <2>3, <2>6, <4>1
        <4>4. FirstAt(l, Len(k) + 1, C)
          <5>1. \A i \in 1..(Len(k) + 1 - 1) : l[i] \notin C
            BY <2>2, <2>7, <4>2
          <5>2. Len(k) + 1 \in 1..Len(l)
            BY <2>2, <4>3
          <5>3. QED BY <4>1, <4>3, <5>1, <5>2 DEF FirstAt
        <4>5. Len(k) + 1 \in 1..Len(l) /\ l[Len(k) + 1] = r[n]
          BY <2>2, <4>1, <4>3
        <4>6. QED BY <4>4, <4>5
      <3>3. QED BY <2>1, <3>1, <3>2
    <2>9. QED BY <2>1, <2>8 DEF r, l
  <1> HIDE DEF T
  <1>3. \A s \in Seq(S) : s \in T
    BY <1>1, <1>2, SequencesGrow
  <1>4. QED BY <1>3 DEF T

-----------------------------------------------------------------------------
\* Some of finitely many numbers have a least and a greatest.
LEMMA LeastAndGreatest ==
    ASSUME NEW n \in Nat, NEW T, T \subseteq 0..n, T # {}
    PROVE  /\ Min(T) \in T /\ \A i \in T : Min(T) <= i
           /\ Max(T) \in T /\ \A i \in T : Max(T) >= i
  <1>1. \E i \in T : \A j \in T : i <= j
    <2>1. T \subseteq Nat
      OBVIOUS
    <2>2. QED BY <2>1, Least
  <1>2. \E i \in T : \A j \in T : i >= j
    <2> DEFINE U == {n - i : i \in T}
    <2>1. U \subseteq Nat /\ U # {}
      <3>1. \A i \in T : n - i \in Nat
        OBVIOUS
      <3>2. PICK i : i \in T
        OBVIOUS
      <3>3. QED BY <3>1, <3>2
    <2>2. PICK u \in U : \A v \in U : u <= v
      <3> HIDE DEF U
      <3>1. QED BY <2>1, Least
    <2>3. PICK i \in T : u = n - i
      BY <2>2
    <2>4. \A j \in T : n - i <= n - j
      BY <2>2, <2>3
    <2>5. \A j \in T : i >= j
      BY <2>4
    <2>6. QED BY <2>5
  <1>3. QED BY <1>1, <1>2 DEF Min, Max

\* Some positions of a sequence have a first and a last.
LEMMA Extremes ==
    ASSUME NEW n \in Nat, NEW T, T \subseteq 1..n, T # {}
    PROVE  /\ Min(T) \in T /\ \A i \in T : Min(T) <= i
           /\ Max(T) \in T /\ \A i \in T : Max(T) >= i
  <1>1. T \subseteq 0..n
    OBVIOUS
  <1>2. QED BY <1>1, LeastAndGreatest

-----------------------------------------------------------------------------
(* Loops over the members of a sequence *)

\* h[n] is what a loop over s that starts with a holds after n members, as long as
\* what it holds is in V; g takes what it holds and a member to what it holds next.
Follows(h, s, a, V, g) ==
    /\ h[0] = a
    /\ \A n \in Nat : n + 1 <= Len(s) /\ h[n] \in V => h[n + 1] = g[<<h[n], s[n + 1]>>]

\* What it holds at its end.
EndsWith(e, s, a, V, g) == \E h : Follows(h, s, a, V, g) /\ e = h[Len(s)]

IsLoopOver(f, s, a, g) ==
    f = [n \in 0..Len(s) |-> IF n = 0 THEN a ELSE g[<<f[n - 1], s[n]>>]]

\* Some loop over s holds this, and nothing outside V.
LEMMA LoopOver ==
    ASSUME NEW V, NEW S, NEW a \in V, NEW s \in Seq(S), NEW g \in [V \X S -> V]
    PROVE  \E f \in [0..Len(s) -> V] : IsLoopOver(f, s, a, g)
  <1> DEFINE N == Len(s)
             step == [k \in Nat |-> [v \in V |-> IF k \in 1..N THEN g[<<v, s[k]>>] ELSE v]]
  <1>1. N \in Nat /\ \A k \in 1..N : s[k] \in S
    BY LenProperties, ElementOfSeq
  <1> HIDE DEF N
  <1>2. step \in [Nat -> [V -> V]]
    BY <1>1
  <1>3. PICK f \in [0..N -> V] : IsLoop(f, N, a, step)
    <2> HIDE DEF step
    <2>1. QED BY <1>1, <1>2, LoopRuns
  <1>4. \A n \in 0..N : n # 0 => step[n][f[n - 1]] = g[<<f[n - 1], s[n]>>]
    <2> SUFFICES ASSUME NEW n \in 0..N, n # 0 PROVE step[n][f[n - 1]] = g[<<f[n - 1], s[n]>>]
      OBVIOUS
    <2>1. n \in Nat /\ n \in 1..N /\ f[n - 1] \in V
      BY <1>1
    <2>2. QED BY <2>1, Zenon
  <1> HIDE DEF step
  <1>5. f = [n \in 0..N |-> IF n = 0 THEN a ELSE g[<<f[n - 1], s[n]>>]]
    BY <1>3, <1>4 DEF IsLoop
  <1>6. QED BY <1>5 DEF N, IsLoopOver

\* Over nothing it ends with what it starts with.
LEMMA FollowedNowhere ==
    ASSUME NEW e, NEW a, NEW V, NEW g, EndsWith(e, <<>>, a, V, g)
    PROVE  e = a
  <1>1. Len(<<>>) = 0
    BY EmptySeq
  <1>2. QED BY <1>1 DEF EndsWith, Follows

\* It never holds anything else.
LEMMA Followed ==
    ASSUME NEW V, NEW S, NEW a \in V, NEW s \in Seq(S), NEW g \in [V \X S -> V],
           NEW e, EndsWith(e, s, a, V, g)
    PROVE  e \in V
  <1>1. PICK h : Follows(h, s, a, V, g) /\ e = h[Len(s)]
    BY DEF EndsWith
  <1> DEFINE T == {n \in Nat : n <= Len(s) => h[n] \in V}
  <1>2. Len(s) \in Nat /\ \A k \in 1..Len(s) : s[k] \in S
    BY LenProperties, ElementOfSeq
  <1>3. 0 \in T
    BY <1>1 DEF Follows
  <1>4. ASSUME NEW n \in Nat, n \in T PROVE n + 1 \in T
    <2> SUFFICES ASSUME n + 1 <= Len(s) PROVE h[n + 1] \in V
      OBVIOUS
    <2>1. h[n] \in V /\ s[n + 1] \in S
      BY <1>2, <1>4
    <2>2. h[n + 1] = g[<<h[n], s[n + 1]>>]
      BY <1>1, <2>1 DEF Follows
    <2>3. QED BY <2>1, <2>2
  <1> HIDE DEF T
  <1>5. \A n \in Nat : n \in T
    BY <1>3, <1>4, Induction
  <1>6. QED BY <1>1, <1>2, <1>5 DEF T

OneMore(r, s, x) == r = Append(s, x)

\* One more member is one more round.
LEMMA FollowedOn ==
    ASSUME NEW V, NEW S, NEW a \in V, NEW s \in Seq(S), NEW x \in S, NEW g \in [V \X S -> V],
           NEW r, NEW e, NEW d, OneMore(r, s, x),
           EndsWith(e, s, a, V, g), EndsWith(d, r, a, V, g)
    PROVE  d = g[<<e, x>>]
  <1>1. PICK f : Follows(f, s, a, V, g) /\ e = f[Len(s)]
    BY DEF EndsWith
  <1>2. PICK h : Follows(h, r, a, V, g) /\ d = h[Len(r)]
    BY DEF EndsWith
  <1> DEFINE N == Len(s)
  <1>3. /\ r \in Seq(S) /\ N \in Nat /\ Len(r) = N + 1
        /\ \A i \in 1..N : r[i] = s[i] /\ s[i] \in S
        /\ r[N + 1] = x
    BY AppendProperties, LenProperties, ElementOfSeq DEF OneMore
  <1> DEFINE T == {n \in Nat : n <= N => f[n] = h[n] /\ f[n] \in V}
  <1>4. 0 \in T
    BY <1>1, <1>2 DEF Follows
  <1>5. ASSUME NEW n \in Nat, n \in T PROVE n + 1 \in T
    <2> SUFFICES ASSUME n + 1 <= N PROVE f[n + 1] = h[n + 1] /\ f[n + 1] \in V
      OBVIOUS
    <2>1. f[n] = h[n] /\ f[n] \in V /\ s[n + 1] \in S /\ r[n + 1] = s[n + 1]
      BY <1>3, <1>5
    <2>2. f[n + 1] = g[<<f[n], s[n + 1]>>]
      BY <1>1, <2>1 DEF Follows
    <2>3. h[n + 1] = g[<<h[n], r[n + 1]>>]
      BY <1>2, <1>3, <2>1 DEF Follows
    <2>4. QED BY <2>1, <2>2, <2>3
  <1>6. f[N] = h[N] /\ f[N] \in V
    <2>1. \A n \in Nat : n \in T
      <3> HIDE DEF T
      <3>1. QED BY <1>4, <1>5, Induction
    <2>2. QED BY <1>3, <2>1
  <1>7. h[N + 1] = g[<<h[N], r[N + 1]>>]
    BY <1>2, <1>3, <1>6 DEF Follows
  <1>8. QED BY <1>1, <1>2, <1>3, <1>6, <1>7

=============================================================================
