----------------------------- MODULE LookupProofs -----------------------------
(***************************************************************************)
(* The pure functions of the service, for every input: what a process is   *)
(* made of, how a failed read is told, which entry answers a question,     *)
(* what is read of a sheet wherever its columns are, which claim is told,  *)
(* how a number is spelled, and what the rates and latencies count.        *)
(***************************************************************************)
EXTENDS MCLookups, DataLemmas

-----------------------------------------------------------------------------
(* Wiring *)

\* Which settings count after some were left out.
LEMMA SettingsLeft ==
    ASSUME NEW env, NEW names, names \subseteq DOMAIN env
    PROVE  \A name : setting(Restrict(env, names), name)
                         = IF name \in names THEN setting(env, name) ELSE None
  BY DEF setting, _blank_means_unset, Restrict

\* Settings of Integration #2 that are no refused values cost only the log.
LEMMA InteractionsApart ==
    ASSUME NEW env, NEW content,
           setting(env, "google_service_account_json")
               \in {None, "not_json", "no_object", "incomplete", "complete"}
    PROVE  InteractionsCostNothingElse(env, content)
  <1> DEFINE without == Restrict(env, DOMAIN env \ Integration2)
  <1>1. \A name : setting(without, name)
                      = IF name \in Integration2 THEN None ELSE setting(env, name)
    <2>1. \A name : setting(without, name)
              = IF name \in DOMAIN env \ Integration2 THEN setting(env, name) ELSE None
      BY SettingsLeft
    <2>2. \A name : name \notin DOMAIN env => setting(env, name) = None
      BY DEF setting, _blank_means_unset, Restrict
    <2>3. QED BY <2>1, <2>2
  <1>2. DOMAIN without = DOMAIN env \ Integration2
    BY DEF Restrict
  <1> HIDE DEF without
  <1>3. valid(env) => valid(without)
    BY <1>1, <1>2 DEF valid
  <1>4. /\ is_production(without) = is_production(env)
        /\ sheets_configured(without) = sheets_configured(env)
        /\ setting(without, "voice_platform_api_key") = setting(env, "voice_platform_api_key")
        /\ setting(without, "voice_transfer_phone_number")
               = setting(env, "voice_transfer_phone_number")
    BY <1>1 DEF is_production, sheets_configured, both, Integration2
  <1>5. _build_interactions(without) = "none"
    <2>1. ~interactions_configured(without)
      BY <1>1 DEF interactions_configured, both, Integration2
    <2>2. QED BY <2>1 DEF _build_interactions
  <1>6. _build_interactions(env) # "raises"
    BY DEF _build_interactions, interactions_configured, both, credentials_invalid
  <1>7. valid(env) => (starts(env, content) <=> starts(without, content))
    BY <1>3, <1>4, <1>5, <1>6 DEF starts, _require_webhook_secret_in_production
  <1>8. /\ wired(env).services = wired(without).services
        /\ wired(env).transfer_to = wired(without).transfer_to
        /\ wired(env).dependencies \ {"interactions"} = wired(without).dependencies
    BY <1>4, <1>5 DEF wired
  <1>9. QED BY <1>7, <1>8 DEF InteractionsCostNothingElse, without

\* Blanks may as well be left out.
LEMMA BlanksLeftOut ==
    ASSUME NEW env, NEW content
    PROVE  BlankIsNotThere(env, content)
  <1> DEFINE filled == Restrict(env, {name \in DOMAIN env : env[name] # Blank})
  <1>1. _blank_means_unset(filled) = filled /\ _blank_means_unset(env) = filled
    BY DEF _blank_means_unset, Restrict
  <1>2. \A name : setting(filled, name) = setting(env, name)
    BY <1>1 DEF setting
  <1>3. valid(filled) = valid(env)
    <2>1. \A name \in DOMAIN env : name \in DOMAIN filled \/ setting(env, name) = None
      BY <1>1 DEF setting
    <2>2. DOMAIN filled \subseteq DOMAIN env
      BY DEF Restrict
    <2> HIDE DEF filled
    <2>3. QED BY <1>2, <2>1, <2>2, NothingIsTold DEF valid
  <1> HIDE DEF filled
  <1>4. /\ is_production(filled) = is_production(env)
        /\ sheets_configured(filled) = sheets_configured(env)
        /\ _build_interactions(filled) = _build_interactions(env)
    BY <1>2 DEF is_production, sheets_configured, _build_interactions, interactions_configured,
                both
  <1>5. starts(env, content) <=> starts(filled, content)
    BY <1>2, <1>3, <1>4 DEF starts, _require_webhook_secret_in_production
  <1>6. wired(env) = wired(filled)
    BY <1>2, <1>4 DEF wired
  <1>7. QED BY <1>5, <1>6 DEF BlankIsNotThere, filled

\* The guidance of a process that serves calls was loaded whole.
LEMMA GuidanceIsWhole ==
    ASSUME NEW env, NEW content
    PROVE  SomethingToSay(env, content)
  BY DEF SomethingToSay, starts, wired, content_loads, load_claim_guidance

-----------------------------------------------------------------------------
(* Failures *)

\* What the credentials come to, and what the endpoint answers.
LEMMA EndsClassified ==
    ASSUME NEW read \in Faults!Reads
    PROVE  /\ read.credentials \in {"key", "held"}
              => Faults!_exchange_assertion(read.credentials) = None
           /\ read.credentials \in {"timeout", "unreachable", "500"}
              => Faults!_exchange_assertion(read.credentials)
                     = Faults!IntegrationError("INTEGRATION_ERROR", TRUE)
           /\ read.credentials \in {"400", "429", "unreadable"}
              => Faults!_exchange_assertion(read.credentials)
                     = Faults!IntegrationError("INTEGRATION_ERROR", FALSE)
           /\ read.values = "200" => Faults!_fetch(read.values) = None
           /\ read.values = "timeout"
              => Faults!_fetch(read.values) = Faults!IntegrationTimeoutError
           /\ read.values \in {"unreachable", "429", "500", "503"}
              => Faults!_fetch(read.values) = Faults!IntegrationError("INTEGRATION_ERROR", TRUE)
           /\ read.values = "unreadable"
              => Faults!_fetch(read.values) = Faults!IntegrationError("INTEGRATION_ERROR", FALSE)
           /\ read.values \in {"403", "404"}
              => Faults!_fetch(read.values) = Faults!IntegrationError("UPSTREAM_PERMANENT", FALSE)
  BY DEF Faults!_exchange_assertion, Faults!_fetch, Faults!_status_error,
         Faults!_RETRYABLE_STATUS

\* However a read ends, its end is not told as an absence, and it is retried while
\* it may pass.
LEMMA ReadsAreTold ==
    ASSUME NEW read \in Faults!Reads
    PROVE  Faults!FaultIsNoAnswer(read) /\ Faults!RetriedWhileItMayPass(read)
  <1> DEFINE e == Faults!_exchange_assertion(read.credentials)
             f == Faults!_fetch(read.values)
             passing == Faults!IntegrationError("INTEGRATION_ERROR", TRUE)
             final == Faults!IntegrationError("INTEGRATION_ERROR", FALSE)
             refusal == Faults!IntegrationError("UPSTREAM_PERMANENT", FALSE)
             late == Faults!IntegrationTimeoutError
             r == Faults!raised(read)
  <1>1. /\ read.credentials \in {"key", "held", "timeout", "unreachable", "400", "429", "500",
                                 "unreadable"}
        /\ read.values \in {"timeout", "unreachable", "403", "404", "429", "500", "503",
                            "unreadable", "200"}
        /\ read.sheet \in {"empty", "lacks_columns", "no_match", "match"}
    BY DEF Faults!Reads, Faults!TokenEnds, Faults!ValuesEnds, Faults!Sheets
  <1>2. /\ passing = [code |-> "INTEGRATION_ERROR", timeout |-> FALSE, retryable |-> TRUE,
                      sheet |-> FALSE]
        /\ final = [code |-> "INTEGRATION_ERROR", timeout |-> FALSE, retryable |-> FALSE,
                    sheet |-> FALSE]
        /\ refusal = [code |-> "UPSTREAM_PERMANENT", timeout |-> FALSE, retryable |-> FALSE,
                      sheet |-> FALSE]
        /\ late = [code |-> "INTEGRATION_TIMEOUT", timeout |-> TRUE, retryable |-> FALSE,
                   sheet |-> FALSE]
        /\ Faults!SheetError = [code |-> "INTEGRATION_ERROR", timeout |-> FALSE,
                                retryable |-> FALSE, sheet |-> TRUE]
    <2>1. passing = [code |-> "INTEGRATION_ERROR", timeout |-> FALSE, retryable |-> TRUE,
                     sheet |-> FALSE]
      BY DEF Faults!IntegrationError
    <2>2. final = [code |-> "INTEGRATION_ERROR", timeout |-> FALSE, retryable |-> FALSE,
                   sheet |-> FALSE]
      BY DEF Faults!IntegrationError
    <2>3. refusal = [code |-> "UPSTREAM_PERMANENT", timeout |-> FALSE, retryable |-> FALSE,
                     sheet |-> FALSE]
      BY DEF Faults!IntegrationError
    <2>4. late = [code |-> "INTEGRATION_TIMEOUT", timeout |-> TRUE, retryable |-> FALSE,
                  sheet |-> FALSE]
      BY DEF Faults!IntegrationTimeoutError
    <2>5. Faults!SheetError = [final EXCEPT !.sheet = TRUE]
      BY DEF Faults!SheetError
    <2> HIDE DEF final, passing, refusal, late
    <2>6. QED BY <2>1, <2>2, <2>3, <2>4, <2>5
  <1>3. None \notin {passing, final, refusal, late, Faults!SheetError}
    <2> HIDE DEF final, passing, refusal, late
    <2>1. {passing, final, refusal, late, Faults!SheetError} \subseteq Faults!Error
      BY <1>2 DEF Faults!Error
    <2>2. QED BY <2>1, NothingIsTold
  <1>4. /\ e \in {None, passing, final} /\ (e = None <=> read.credentials \in {"key", "held"})
        /\ read.credentials \in {"timeout", "unreachable", "500"} => e = passing
        /\ read.credentials \in {"400", "429", "unreadable"} => e = final
    BY <1>1, <1>3, EndsClassified
  <1>5. /\ f \in {None, passing, final, refusal, late} /\ (f = None <=> read.values = "200")
        /\ read.values = "unreadable" => f = final
        /\ read.values \in {"403", "404"} => f = refusal
        /\ read.values \in {"timeout", "unreachable", "429", "500", "503"}
           => f \in {passing, late}
    BY <1>1, <1>3, EndsClassified
  <1>6. /\ e # None => r = e
        /\ e = None /\ f # None => r = f
        /\ e = None /\ f = None => r = Faults!_load_rows(read.sheet)
    BY DEF Faults!raised
  <1>7. /\ Faults!_load_rows(read.sheet) \in {None, Faults!SheetError}
        /\ Faults!_load_rows(read.sheet) = None => read.sheet \in {"no_match", "match"}
    BY <1>1, <1>3 DEF Faults!_load_rows
  <1> HIDE DEF e, f, passing, final, refusal, late, r
  <1>8. r \in {None, passing, final, refusal, late, Faults!SheetError}
    BY <1>4, <1>5, <1>6, <1>7
  <1>9. Faults!FaultIsNoAnswer(read)
    <2>1. Faults!lookup(read).outcome = "NOT_FOUND" => r = None /\ read.sheet = "no_match"
      BY DEF Faults!lookup, r
    <2>2. r = None => e = None /\ f = None
      BY <1>3, <1>4, <1>5, <1>6
    <2>3. r # None => Faults!lookup(read).outcome = "INTEGRATION_ERROR"
      BY DEF Faults!lookup, r
    <2>4. r # None => r.code \in {"INTEGRATION_ERROR", "UPSTREAM_PERMANENT",
                                  "INTEGRATION_TIMEOUT"}
      BY <1>2, <1>8
    <2>5. \A code \in {"INTEGRATION_ERROR", "UPSTREAM_PERMANENT", "INTEGRATION_TIMEOUT"} :
              Faults!is_infrastructure_failure(code)
      BY DEF Faults!is_infrastructure_failure, Faults!infrastructure_classes,
             Faults!FAILURE_CATALOGUE
    <2>6. QED BY <1>4, <1>5, <2>1, <2>2, <2>3, <2>4, <2>5 DEF Faults!FaultIsNoAnswer, r
  <1>10. Faults!RetriedWhileItMayPass(read)
    <2>1. Faults!retried(read) <=> r # None /\ ~r.sheet /\ (r.timeout \/ r.retryable)
      BY DEF Faults!retried, Faults!_is_transient, r
    <2>2. Faults!retried(read) <=> r \in {passing, late}
      <3>1. Faults!retried(read) => r \in {passing, late}
        BY <1>2, <1>8, <2>1
      <3>2. r \in {passing, late} => Faults!retried(read)
        BY <1>2, <1>3, <2>1
      <3>3. QED BY <3>1, <3>2
    <2>3. /\ {final, refusal, Faults!SheetError} \cap {passing, late} = {}
          /\ passing # late
      BY <1>2
    <2>4. CASE e # None
      <3>1. r = e /\ read.credentials \notin {"key", "held"}
        BY <1>4, <1>6, <2>4
      <3>2. r \in {passing, late} <=> read.credentials \in {"timeout", "unreachable", "500"}
        BY <1>1, <1>4, <2>3, <3>1
      <3>3. QED BY <2>2, <3>1, <3>2 DEF Faults!RetriedWhileItMayPass
    <2>5. CASE e = None
      <3>1. read.credentials \in {"key", "held"}
        BY <1>4, <2>5
      <3>2. r \in {passing, late} <=> f \in {passing, late}
        BY <1>3, <1>6, <1>7, <2>3, <2>5
      <3>3. f \in {passing, late}
                <=> read.values \in {"timeout", "unreachable", "429", "500", "503"}
        BY <1>1, <1>3, <1>5, <2>3
      <3>4. QED BY <2>2, <3>1, <3>2, <3>3 DEF Faults!RetriedWhileItMayPass
    <2>6. QED BY <2>4, <2>5
  <1>11. QED BY <1>9, <1>10

-----------------------------------------------------------------------------
(* Answers to questions *)

Entry == [id : Nat \cup Topics, keywords : (SUBSET Vocabulary) \ {{}}]

\* There are finitely many words.
LEMMA VocabularyCounts == IsFiniteSet(Vocabulary)
  BY EntriesCount, FS_AddElement DEF Vocabulary

\* An entry accounts for more of the question, or for as much and is narrower.
Above(tokens, a, b) ==
    \/ hits(tokens, a) > hits(tokens, b)
    \/ /\ hits(tokens, a) = hits(tokens, b)
       /\ Cardinality(a.keywords) < Cardinality(b.keywords)

\* Scores are numbers, and an entry that shares a word with the question has one.
LEMMA ScoresCount ==
    ASSUME NEW tokens \in SUBSET Vocabulary, NEW e \in Entry
    PROVE  /\ e # NoEntry
           /\ hits(tokens, e) \in Nat
           /\ Cardinality(e.keywords) \in Nat
           /\ matched(tokens, e) # {} <=> hits(tokens, e) > 0
  <1>1. e \in [id : Nat \cup Topics, keywords : SUBSET Vocabulary]
    BY DEF Entry
  <1>2. IsFiniteSet(e.keywords) /\ IsFiniteSet(matched(tokens, e))
    BY <1>1, VocabularyCounts, FS_Subset DEF matched
  <1>3. hits(tokens, e) \in Nat /\ Cardinality(e.keywords) \in Nat
    BY <1>2, FS_CardinalityType DEF hits
  <1>4. matched(tokens, e) = {} <=> hits(tokens, e) = 0
    BY <1>2, FS_EmptySet DEF hits
  <1>5. QED BY <1>1, <1>3, <1>4, EntriesCount

\* Quotients of two numbers with one numerator compare as the denominators do.
LEMMA CrossMultiplied ==
    ASSUME NEW h \in Nat, h > 0, NEW x \in Nat, NEW y \in Nat
    PROVE  h * x > h * y <=> x > y
  OBVIOUS

\* Between entries that share a word with the question, rank is Above.
LEMMA RankIsAbove ==
    ASSUME NEW tokens \in SUBSET Vocabulary, NEW a \in Entry, NEW b \in Entry,
           matched(tokens, a) # {}
    PROVE  outranks(tokens, a, b) <=> Above(tokens, a, b)
  <1> DEFINE h == hits(tokens, a)
             x == Cardinality(b.keywords)
             y == Cardinality(a.keywords)
  <1>1. h \in Nat /\ h > 0 /\ x \in Nat /\ y \in Nat /\ b # NoEntry
    BY ScoresCount
  <1>2. h * x > h * y <=> x > y
    <2> HIDE DEF h, x, y
    <2>1. QED BY <1>1, CrossMultiplied
  <1>3. QED BY <1>1, <1>2 DEF outranks, Above

\* Nothing is above what is above or level with all.
LEMMA AboveOrders ==
    ASSUME NEW tokens \in SUBSET Vocabulary, NEW a \in Entry, NEW b \in Entry, NEW c \in Entry
    PROVE  /\ ~Above(tokens, a, a)
           /\ Above(tokens, a, b) /\ ~Above(tokens, c, b)
              => Above(tokens, a, c) /\ ~Above(tokens, c, a)
  <1>1. \A e \in {a, b, c} : hits(tokens, e) \in Nat /\ Cardinality(e.keywords) \in Nat
    BY ScoresCount
  <1>2. QED BY <1>1 DEF Above

\* Of the first n entries nothing is above the j-th, and what comes before it and
\* shares a word with the question is below.
Leads(tokens, entries, n, j) ==
    /\ matched(tokens, entries[j]) # {}
    /\ \A k \in 1..n : matched(tokens, entries[k]) # {} =>
           /\ ~Above(tokens, entries[k], entries[j])
           /\ k < j => Above(tokens, entries[j], entries[k])

\* What is best after n rounds.
BestOf(tokens, entries, n, best) ==
    \/ best = NoEntry /\ \A k \in 1..n : matched(tokens, entries[k]) = {}
    \/ \E j \in 1..n : best = entries[j] /\ Leads(tokens, entries, n, j)

\* One more round.
LEMMA RoundKeepsBest ==
    ASSUME NEW tokens \in SUBSET Vocabulary, NEW entries \in Seq(Entry),
           NEW n \in Nat, n + 1 \in 1..Len(entries), NEW best,
           BestOf(tokens, entries, n, best)
    PROVE  BestOf(tokens, entries, n + 1, preferred(tokens, best, entries[n + 1]))
  <1> DEFINE e == entries[n + 1]
             next == preferred(tokens, best, e)
  <1>1. \A k \in 1..(n + 1) : entries[k] \in Entry /\ entries[k] # NoEntry
    <2>1. \A k \in 1..(n + 1) : entries[k] \in Entry
      OBVIOUS
    <2>2. QED BY <2>1, ScoresCount
  <1>2. \A k \in 1..(n + 1) : k \in 1..n \/ k = n + 1
    OBVIOUS
  <1>3. CASE best = NoEntry
    <2>1. \A k \in 1..n : matched(tokens, entries[k]) = {}
      <3>1. \A j \in 1..n : best # entries[j]
        BY <1>1, <1>3
      <3>2. QED BY <3>1 DEF BestOf
    <2>2. CASE matched(tokens, e) = {}
      <3>1. next = NoEntry
        BY <1>3, <2>2 DEF preferred
      <3>2. \A k \in 1..(n + 1) : matched(tokens, entries[k]) = {}
        BY <1>2, <2>1, <2>2
      <3>3. QED BY <3>1, <3>2 DEF BestOf
    <2>3. CASE matched(tokens, e) # {}
      <3>1. next = e
        BY <1>3, <2>3 DEF preferred, outranks
      <3>2. ~Above(tokens, e, e)
        BY <1>1, AboveOrders
      <3>3. Leads(tokens, entries, n + 1, n + 1)
        <4>1. \A k \in 1..(n + 1) : matched(tokens, entries[k]) # {} => k = n + 1
          BY <1>2, <2>1
        <4>2. ~(n + 1 < n + 1)
          OBVIOUS
        <4>3. QED BY <2>3, <3>2, <4>1, <4>2 DEF Leads
      <3>4. n + 1 \in 1..(n + 1)
        OBVIOUS
      <3>5. QED BY <3>1, <3>3, <3>4 DEF BestOf
    <2>4. QED BY <2>2, <2>3
  <1>4. CASE best # NoEntry
    <2>1. PICK j \in 1..n : best = entries[j] /\ Leads(tokens, entries, n, j)
      BY <1>4 DEF BestOf
    <2>2. j \in 1..(n + 1) /\ ~(n + 1 < j)
      OBVIOUS
    <2>3. CASE matched(tokens, e) # {} /\ Above(tokens, e, best)
      <3>1. next = e
        BY <1>1, <2>1, <2>2, <2>3, RankIsAbove DEF preferred
      <3>2. \A k \in 1..n : matched(tokens, entries[k]) # {} =>
                Above(tokens, e, entries[k]) /\ ~Above(tokens, entries[k], e)
        <4> SUFFICES ASSUME NEW k \in 1..n, matched(tokens, entries[k]) # {}
                     PROVE  Above(tokens, e, entries[k]) /\ ~Above(tokens, entries[k], e)
          OBVIOUS
        <4>1. ~Above(tokens, entries[k], best)
          BY <2>1 DEF Leads
        <4>2. e \in Entry /\ best \in Entry /\ entries[k] \in Entry
          BY <1>1, <2>1, <2>2
        <4>3. QED BY <2>3, <4>1, <4>2, AboveOrders
      <3>3. ~Above(tokens, e, e)
        BY <1>1, AboveOrders
      <3>4. Leads(tokens, entries, n + 1, n + 1)
        BY <1>2, <2>3, <3>2, <3>3 DEF Leads
      <3>5. n + 1 \in 1..(n + 1)
        OBVIOUS
      <3>6. QED BY <3>1, <3>4, <3>5 DEF BestOf
    <2>4. CASE ~(matched(tokens, e) # {} /\ Above(tokens, e, best))
      <3>1. next = best
        BY <1>1, <2>1, <2>2, <2>4, RankIsAbove DEF preferred
      <3>2. Leads(tokens, entries, n + 1, j)
        BY <1>2, <2>1, <2>2, <2>4 DEF Leads
      <3>3. QED BY <2>1, <2>2, <3>1, <3>2 DEF BestOf
    <2>5. QED BY <2>3, <2>4
  <1>5. QED BY <1>3, <1>4

\* The loop ends with the best of all.
LEMMA LoopFindsBest ==
    ASSUME NEW tokens \in SUBSET Vocabulary, NEW entries \in Seq(Entry)
    PROVE  BestOf(tokens, entries, Len(entries), best_entry(tokens, entries))
  <1> DEFINE N == Len(entries)
             V == Entry \cup {NoEntry}
             best[n \in 0..N] ==
                 IF n = 0 THEN NoEntry ELSE preferred(tokens, best[n - 1], entries[n])
             step == [k \in Nat |-> [v \in V |->
                         IF k \in 1..N THEN preferred(tokens, v, entries[k]) ELSE v]]
  <1>1. N \in Nat /\ NoEntry \in V
    OBVIOUS
  <1>2. \A k \in 1..N, v \in V : preferred(tokens, v, entries[k]) \in V
    BY DEF preferred
  <1>3. \E f : f = [n \in 0..N |-> IF n = 0 THEN NoEntry
                                   ELSE preferred(tokens, f[n - 1], entries[n])]
    <2> HIDE DEF N, V
    <2>1. step \in [Nat -> [V -> V]]
      BY <1>2
    <2>2. PICK f \in [0..N -> V] : IsLoop(f, N, NoEntry, step)
      <3> HIDE DEF step
      <3>1. QED BY <1>1, <2>1, LoopRuns
    <2>3. \A n \in 0..N : n # 0 => step[n][f[n - 1]] = preferred(tokens, f[n - 1], entries[n])
      BY <1>1
    <2>4. f = [n \in 0..N |-> IF n = 0 THEN NoEntry
                              ELSE preferred(tokens, f[n - 1], entries[n])]
      BY <2>2, <2>3 DEF IsLoop
    <2>5. QED BY <2>4
  <1>4. best = [n \in 0..N |-> IF n = 0 THEN NoEntry
                               ELSE preferred(tokens, best[n - 1], entries[n])]
    BY <1>3
  <1>5. best_entry(tokens, entries) = best[N]
    BY DEF best_entry
  <1> HIDE DEF best
  <1>6. \A n \in Nat : n \in {m \in Nat : m <= N => BestOf(tokens, entries, m, best[m])}
    <2> DEFINE T == {m \in Nat : m <= N => BestOf(tokens, entries, m, best[m])}
    <2>1. 0 \in T
      BY <1>1, <1>4 DEF BestOf
    <2>2. ASSUME NEW n \in Nat, n \in T PROVE n + 1 \in T
      <3> SUFFICES ASSUME n + 1 <= N PROVE BestOf(tokens, entries, n + 1, best[n + 1])
        OBVIOUS
      <3>1. n + 1 \in 1..N /\ BestOf(tokens, entries, n, best[n])
        BY <1>1, <2>2
      <3>2. best[n + 1] = preferred(tokens, best[n], entries[n + 1])
        BY <1>1, <1>4, <3>1
      <3>3. QED BY <3>1, <3>2, RoundKeepsBest
    <2> HIDE DEF T
    <2>3. QED BY <2>1, <2>2, Induction DEF T
  <1>7. QED BY <1>1, <1>5, <1>6

\* What search finds: nothing, or the entry that leads all.
LEMMA Found ==
    ASSUME NEW tokens \in SUBSET Vocabulary, NEW entries \in Seq(Entry)
    PROVE  LET result == search(tokens, entries) IN
           result.outcome = "ANSWER_FOUND" =>
               \E j \in 1..Len(entries) :
                   result.entry = entries[j] /\ Leads(tokens, entries, Len(entries), j)
  <1> DEFINE result == search(tokens, entries)
             best == best_entry(tokens, entries)
  <1> SUFFICES ASSUME result.outcome = "ANSWER_FOUND"
               PROVE  \E j \in 1..Len(entries) :
                   result.entry = entries[j] /\ Leads(tokens, entries, Len(entries), j)
    OBVIOUS
  <1>1. result.entry = best /\ best # NoEntry
    BY DEF search
  <1>2. BestOf(tokens, entries, Len(entries), best)
    BY LoopFindsBest
  <1>3. QED BY <1>1, <1>2 DEF BestOf

\* The best entry answers.
LEMMA BestAnswers ==
    ASSUME NEW tokens \in SUBSET Vocabulary, NEW entries \in Seq(Entry)
    PROVE  BestAnswer(tokens, entries)
  <1> DEFINE best == search(tokens, entries).entry
  <1> SUFFICES ASSUME search(tokens, entries).outcome = "ANSWER_FOUND", NEW e \in ToSet(entries)
               PROVE  /\ hits(tokens, e) <= hits(tokens, best)
                      /\ hits(tokens, e) = hits(tokens, best)
                         => Cardinality(e.keywords) >= Cardinality(best.keywords)
    BY DEF BestAnswer
  <1>1. PICK j \in 1..Len(entries) :
            best = entries[j] /\ Leads(tokens, entries, Len(entries), j)
    BY Found
  <1>2. PICK k \in 1..Len(entries) : e = entries[k]
    BY DEF ToSet
  <1>3. e \in Entry /\ best \in Entry
    BY <1>1, <1>2
  <1> HIDE DEF best
  <1>4. /\ hits(tokens, e) \in Nat /\ Cardinality(e.keywords) \in Nat
        /\ hits(tokens, best) \in Nat /\ Cardinality(best.keywords) \in Nat
        /\ matched(tokens, e) # {} <=> hits(tokens, e) > 0
        /\ hits(tokens, best) > 0
    BY <1>1, <1>3, ScoresCount DEF Leads
  <1>5. matched(tokens, e) # {} => ~Above(tokens, e, best)
    BY <1>1, <1>2 DEF Leads
  <1>6. QED BY <1>4, <1>5 DEF Above

\* Read from either end, the directory gives one answer, but for a tie.
LEMMA FileOrderBreaksTies ==
    ASSUME NEW tokens \in SUBSET Vocabulary, NEW entries \in Seq(Entry), IsInjective(entries)
    PROVE  FileOrderOnlyBreaksTies(tokens, entries)
  <1> DEFINE N == Len(entries)
             turned == Reverse(entries)
             here == best_entry(tokens, entries)
             there == best_entry(tokens, turned)
  <1>1. /\ N \in Nat /\ turned \in Seq(Entry) /\ Len(turned) = N
        /\ \A k \in 1..N : turned[k] = entries[N - k + 1] /\ N - k + 1 \in 1..N
    BY DEF Reverse
  <1>2. BestOf(tokens, entries, N, here) /\ BestOf(tokens, turned, N, there)
    BY <1>1, LoopFindsBest
  <1> HIDE DEF here, there, turned
  <1>3. \A k \in 1..N : entries[k] \in Entry /\ entries[k] # NoEntry
    <2>1. \A k \in 1..N : entries[k] \in Entry
      OBVIOUS
    <2>2. QED BY <2>1, ScoresCount
  <1>4. \A k \in 1..N : entries[k] = turned[N - k + 1] /\ N - k + 1 \in 1..N
    BY <1>1
  <1>5. here = NoEntry <=> there = NoEntry
    <2>1. here = NoEntry <=> \A k \in 1..N : matched(tokens, entries[k]) = {}
      BY <1>2, <1>3 DEF BestOf, Leads
    <2>2. there = NoEntry <=> \A k \in 1..N : matched(tokens, turned[k]) = {}
      BY <1>1, <1>2, <1>3 DEF BestOf, Leads
    <2>3. QED BY <1>1, <1>4, <2>1, <2>2
  <1>6. ASSUME here # NoEntry
        PROVE  /\ hits(tokens, here) = hits(tokens, there)
               /\ Cardinality(here.keywords) = Cardinality(there.keywords)
               /\ \E j, i \in 1..N : here = entries[j] /\ there = entries[i] /\ j <= i
    <2>1. PICK j \in 1..N : here = entries[j] /\ Leads(tokens, entries, N, j)
      BY <1>2, <1>6 DEF BestOf
    <2>2. PICK m \in 1..N : there = turned[m] /\ Leads(tokens, turned, N, m)
      BY <1>2, <1>5, <1>6 DEF BestOf
    <2> DEFINE i == N - m + 1
    <2>3. i \in 1..N /\ there = entries[i] /\ matched(tokens, entries[i]) # {}
      BY <1>1, <2>2 DEF Leads
    <2>4. ~Above(tokens, there, here)
      BY <2>1, <2>3 DEF Leads
    <2>5. ~Above(tokens, here, there)
      <3>1. N - j + 1 \in 1..N /\ turned[N - j + 1] = here /\ matched(tokens, here) # {}
        BY <1>4, <2>1 DEF Leads
      <3>2. QED BY <2>2, <3>1 DEF Leads
    <2>6. /\ hits(tokens, here) \in Nat /\ Cardinality(here.keywords) \in Nat
          /\ hits(tokens, there) \in Nat /\ Cardinality(there.keywords) \in Nat
      BY <1>3, <2>1, <2>3, ScoresCount
    <2>7. /\ hits(tokens, here) = hits(tokens, there)
          /\ Cardinality(here.keywords) = Cardinality(there.keywords)
      BY <2>4, <2>5, <2>6 DEF Above
    <2>8. ~(i < j)
      <3>1. ~Above(tokens, here, there)
        BY <2>5
      <3>2. QED BY <2>1, <2>3, <3>1 DEF Leads
    <2>9. j <= i
      BY <2>3, <2>8
    <2>10. QED BY <2>1, <2>3, <2>7, <2>9
  <1>7. /\ search(tokens, entries).outcome = search(tokens, turned).outcome
        /\ search(tokens, entries).confidence = search(tokens, turned).confidence
    <2> DEFINE hit == IF here = NoEntry THEN 0 ELSE hits(tokens, here)
               confidence == IF tokens = {} THEN "NONE"
                             ELSE IF hit = 0 THEN "NONE"
                             ELSE _confidence_for(hit, Cardinality(tokens))
    <2>1. hit = IF there = NoEntry THEN 0 ELSE hits(tokens, there)
      BY <1>5, <1>6
    <2>2. \A s \in {entries, turned} :
              /\ search(tokens, s).confidence = confidence
              /\ search(tokens, s).outcome =
                     IF confidence \in {"HIGH", "MEDIUM"} THEN "ANSWER_FOUND"
                     ELSE IF confidence = "NONE" THEN "NO_MATCH" ELSE "LOW_CONFIDENCE"
      BY <2>1 DEF search, here, there
    <2>3. QED BY <2>2
  <1>8. ASSUME search(tokens, entries).outcome = "ANSWER_FOUND"
        PROVE  LET one == search(tokens, entries).entry
                   other == search(tokens, turned).entry
               IN  /\ Cardinality(one.keywords) = Cardinality(other.keywords)
                   /\ \A n \in {n \in DOMAIN entries : entries[n] = one},
                         k \in {n \in DOMAIN entries : entries[n] = other} : n <= k
    <2>1. search(tokens, entries).entry = here /\ here # NoEntry
      BY <1>8 DEF search, here
    <2>2. search(tokens, turned).entry = there
      BY <1>7, <1>8 DEF search, there
    <2>3. PICK j, i \in 1..N : here = entries[j] /\ there = entries[i] /\ j <= i
      BY <1>6, <2>1
    <2>4. \A n \in DOMAIN entries : /\ entries[n] = here => n = j
                                    /\ entries[n] = there => n = i
      BY <2>3 DEF IsInjective
    <2>5. QED BY <1>6, <2>1, <2>2, <2>3, <2>4
  <1>9. QED BY <1>7, <1>8 DEF FileOrderOnlyBreaksTies, turned

-----------------------------------------------------------------------------
(* The knowledge directory *)

\* The files of a directory that are ours.
LEMMA OursAreKept ==
    ASSUME NEW S, NEW files \in Seq(S)
    PROVE  /\ ours(files) \in Seq(S)
           /\ ToSet(ours(files)) = {file \in ToSet(files) : file.frontmatter}
           /\ ours(ours(files)) = ours(files)
  <1> DEFINE A == {file \in ToSet(files) : file.frontmatter}
             kept == only(files, A)
  <1>1. ours(files) = kept /\ kept \in Seq(S)
    BY KeptType DEF ours
  <1>2. ToSet(kept) = A
    <2>1. ToSet(kept) = ToSet(files) \cap A
      <3> HIDE DEF A
      <3>1. QED BY KeptMembers
    <2>2. QED BY <2>1
  <1>3. ToSet(kept) \subseteq {file \in ToSet(kept) : file.frontmatter}
    BY <1>2
  <1> HIDE DEF kept
  <1>4. only(kept, {file \in ToSet(kept) : file.frontmatter}) = kept
    BY <1>1, <1>3, KeptWhole
  <1>5. QED BY <1>1, <1>2, <1>4 DEF ours

\* Files as they may be found.
File == [readable : BOOLEAN, frontmatter : BOOLEAN, described : BOOLEAN, id : Topics,
         keywords : SUBSET Vocabulary]

LEMMA FilesPicked == Files \subseteq File
  BY EntriesCount DEF Files, File, Topics

\* What a service that starts has loaded.
LEMMA Loaded ==
    ASSUME NEW files \in Seq(File), load_faq_entries(files) # NoEntry
    PROVE  LET kept    == ours(files)
               entries == load_faq_entries(files)
           IN  /\ kept \in Seq(File) /\ entries \in Seq(Entry)
               /\ ToSet(kept) = {file \in ToSet(files) : file.frontmatter}
               /\ Len(entries) = Len(kept)
               /\ \A n \in 1..Len(kept) : /\ entries[n].id = kept[n].id
                                          /\ entries[n].keywords = kept[n].keywords
               /\ \A topic \in REQUIRED_TOPIC_IDS : \E n \in 1..Len(kept) : kept[n].id = topic
  <1> DEFINE kept == ours(files)
             ids == [n \in DOMAIN kept |-> kept[n].id]
             entries == [n \in DOMAIN kept |-> [id |-> kept[n].id,
                                                keywords |-> kept[n].keywords]]
  <1>1. kept \in Seq(File) /\ ToSet(kept) = {file \in ToSet(files) : file.frontmatter}
    BY OursAreKept
  <1>2. /\ load_faq_entries(files) = entries
        /\ \A n \in DOMAIN kept : kept[n].keywords # {}
        /\ REQUIRED_TOPIC_IDS \subseteq ToSet(ids)
    BY DEF load_faq_entries, accepted, complete
  <1> DEFINE N == Len(kept)
  <1>3. DOMAIN kept = 1..N /\ N \in Nat /\ \A n \in 1..N : kept[n] \in File
    <2> HIDE DEF kept
    <2>1. QED BY <1>1, LenProperties, ElementOfSeq
  <1> HIDE DEF kept, N
  <1>4. \A n \in 1..N : [id |-> kept[n].id, keywords |-> kept[n].keywords] \in Entry
    <2> SUFFICES ASSUME NEW n \in 1..N
                 PROVE  [id |-> kept[n].id, keywords |-> kept[n].keywords] \in Entry
      OBVIOUS
    <2>1. kept[n].id \in Topics /\ kept[n].keywords \in SUBSET Vocabulary
      <3>1. kept[n] \in File
        BY <1>3
      <3>2. QED BY <3>1 DEF File
    <2>2. kept[n].keywords # {}
      <3>1. n \in DOMAIN kept
        BY <1>3
      <3>2. QED BY <1>2, <3>1
    <2>3. QED BY <2>1, <2>2 DEF Entry
  <1>5. entries \in [1..N -> Entry]
    BY <1>3, <1>4
  <1>6. entries \in Seq(Entry) /\ Len(entries) = N
    <2> HIDE DEF entries
    <2>1. entries \in Seq(Entry)
      BY <1>3, <1>5, PlacesFilled
    <2>2. DOMAIN entries = 1..N
      BY <1>5
    <2>3. QED BY <1>3, <2>1, <2>2, LenProperties
  <1>7. \A n \in 1..N : entries[n].id = kept[n].id /\ entries[n].keywords = kept[n].keywords
    BY <1>3
  <1>8. ASSUME NEW topic \in REQUIRED_TOPIC_IDS PROVE \E n \in 1..N : kept[n].id = topic
    <2>1. topic \in ToSet(ids)
      BY <1>2
    <2>2. DOMAIN ids = 1..N
      BY <1>3
    <2>3. PICK n \in 1..N : ids[n] = topic
      BY <2>1, <2>2 DEF ToSet
    <2>4. QED BY <1>3, <2>3
  <1> HIDE DEF entries
  <1>9. QED BY <1>1, <1>2, <1>6, <1>7, <1>8, Zenon DEF kept, N

\* All of the question is enough.
LEMMA AllIsHigh ==
    ASSUME NEW h \in Nat, h > 0
    PROVE  _confidence_for(h, h) = "HIGH"
  <1> DEFINE H == _HIGH_CONFIDENCE
             M == _MEDIUM_CONFIDENCE
  <1>1. H \in Nat /\ H <= 100 /\ M \in Nat /\ M <= 100
    BY FaqAssumption
  <1>2. \A c \in Nat : c <= 100 => 100 * h >= c * h /\ ~(100 * h < c * h)
    <2> SUFFICES ASSUME NEW c \in Nat, c <= 100
                 PROVE  100 * h >= c * h /\ ~(100 * h < c * h)
      OBVIOUS
    <2>1. PICK d \in Nat : 100 = c + d
      <3>1. 100 - c \in Nat /\ 100 = c + (100 - c)
        OBVIOUS
      <3>2. QED BY <3>1
    <2>2. 100 * h = c * h + d * h /\ d * h >= 0 /\ c * h \in Nat /\ d * h \in Nat
      BY <2>1
    <2>3. QED BY <2>2
  <1>3. 100 * h >= H * h /\ ~(100 * h < H * h) /\ ~(100 * h < M * h)
    <2> HIDE DEF H, M
    <2>1. QED BY <1>1, <1>2
  <1>4. QED BY <1>3, Zenon DEF _confidence_for

\* Asked in words of an entry, the service answers with one that has them all and
\* is no broader.
LEMMA OwnWordsAnswered ==
    ASSUME NEW entries \in Seq(Entry), NEW i \in 1..Len(entries),
           NEW own \in SUBSET entries[i].keywords, own # {}
    PROVE  LET told == search(own, entries) IN
           /\ told.outcome = "ANSWER_FOUND"
           /\ \E j \in 1..Len(entries) : told.entry = entries[j]
           /\ own \subseteq told.entry.keywords
           /\ Cardinality(told.entry.keywords) <= Cardinality(entries[i].keywords)
           /\ own = entries[i].keywords => told.entry.keywords = own
  <1> DEFINE N == Len(entries)
             e == entries[i]
             best == best_entry(own, entries)
  <1>1. e \in Entry /\ e.keywords \in SUBSET Vocabulary /\ own \in SUBSET Vocabulary
    <2>1. e \in Entry
      BY ElementOfSeq
    <2>2. QED BY <2>1 DEF Entry
  <1>2. IsFiniteSet(own) /\ Cardinality(own) \in Nat
    BY <1>1, VocabularyCounts, FS_Subset, FS_CardinalityType
  <1>3. matched(own, e) = own /\ hits(own, e) = Cardinality(own) /\ hits(own, e) > 0
    <2>1. matched(own, e) = own
      BY DEF matched
    <2>2. hits(own, e) = Cardinality(own)
      BY <2>1 DEF hits
    <2>3. QED BY <1>1, <2>1, <2>2, ScoresCount
  <1>4. BestOf(own, entries, N, best)
    BY <1>1, LoopFindsBest
  <1> HIDE DEF best
  <1>5. PICK j \in 1..N : best = entries[j] /\ Leads(own, entries, N, j)
    BY <1>3, <1>4 DEF BestOf
  <1>6. best \in Entry /\ best # NoEntry
    <2>1. best \in Entry
      BY <1>5, ElementOfSeq
    <2>2. QED BY <1>1, <2>1, ScoresCount
  <1>7. ~Above(own, e, best)
    BY <1>3, <1>5 DEF Leads
  <1>8. /\ hits(own, best) \in Nat /\ Cardinality(best.keywords) \in Nat
        /\ hits(own, e) \in Nat /\ Cardinality(e.keywords) \in Nat
    BY <1>1, <1>6, ScoresCount
  <1>9. matched(own, best) \subseteq own /\ hits(own, best) <= Cardinality(own)
        /\ (hits(own, best) = Cardinality(own) => matched(own, best) = own)
    <2>1. matched(own, best) \subseteq own
      BY DEF matched
    <2>2. QED BY <1>2, <2>1, FS_Subset DEF hits
  <1>10. hits(own, best) = Cardinality(own)
         /\ Cardinality(best.keywords) <= Cardinality(e.keywords)
    <2> DEFINE a == hits(own, best)  b == hits(own, e)
               x == Cardinality(best.keywords)  y == Cardinality(e.keywords)
               c == Cardinality(own)
    <2>1. ~(b > a) /\ ~(b = a /\ y < x)
      BY <1>7 DEF Above
    <2>2. a \in Nat /\ b \in Nat /\ x \in Nat /\ y \in Nat /\ b = c /\ a <= c
      BY <1>3, <1>8, <1>9
    <2> HIDE DEF a, b, c, x, y
    <2>3. a = c /\ x <= y
      BY <2>1, <2>2
    <2>4. QED BY <2>3 DEF a, c, x, y
  <1>11. own \subseteq best.keywords
    BY <1>9, <1>10 DEF matched
  <1>12. search(own, entries).outcome = "ANSWER_FOUND" /\ search(own, entries).entry = best
    <2>1. Cardinality(own) > 0
      BY <1>3
    <2>2. _confidence_for(Cardinality(own), Cardinality(own)) = "HIGH"
      BY <1>2, <2>1, AllIsHigh
    <2>3. best_entry(own, entries) # NoEntry /\ hits(own, best_entry(own, entries)) = Cardinality(own)
      BY <1>6, <1>10 DEF best
    <2>4. Cardinality(own) # 0
      BY <1>2, <2>1
    <2> DEFINE c == Cardinality(own)
    <2> HIDE DEF c
    <2>5. QED BY <2>2, <2>3, <2>4 DEF search, best
  <1>13. own = e.keywords => best.keywords = own
    <2> SUFFICES ASSUME own = e.keywords PROVE best.keywords = own
      OBVIOUS
    <2>1. IsFiniteSet(best.keywords)
      BY <1>6, VocabularyCounts, FS_Subset DEF Entry
    <2>2. Cardinality(own) <= Cardinality(best.keywords)
          /\ (Cardinality(own) = Cardinality(best.keywords) => own = best.keywords)
      BY <1>11, <2>1, FS_Subset
    <2>3. Cardinality(best.keywords) <= Cardinality(own)
      BY <1>10
    <2>4. QED BY <1>2, <1>8, <2>2, <2>3
  <1>14. QED BY <1>5, <1>10, <1>11, <1>12, <1>13

\* Every file of a service that starts is answered from.
LEMMA FilesAnswered ==
    ASSUME NEW files \in Seq(Files)
    PROVE  FilesAreAnswered(files, Words)
  <1> DEFINE kept == ours(files)
             entries == load_faq_entries(files)
  <1> SUFFICES ASSUME entries # NoEntry
               PROVE  FilesAreAnswered(files, Words)
    BY DEF FilesAreAnswered
  <1>1. files \in Seq(File) /\ DOMAIN files = 1..Len(files)
    <2>1. files \in Seq(File)
      BY FilesPicked
    <2>2. QED BY <2>1, LenProperties
  <1>2. /\ kept \in Seq(File) /\ entries \in Seq(Entry)
        /\ ToSet(kept) = {file \in ToSet(files) : file.frontmatter}
        /\ Len(entries) = Len(kept)
        /\ \A n \in 1..Len(kept) : /\ entries[n].id = kept[n].id
                                   /\ entries[n].keywords = kept[n].keywords
        /\ \A topic \in REQUIRED_TOPIC_IDS : \E n \in 1..Len(kept) : kept[n].id = topic
    BY <1>1, Loaded, Zenon
  <1> HIDE DEF kept, entries
  <1>3. DOMAIN kept = 1..Len(kept)
    BY <1>2, LenProperties
  <1>4. \A k \in 1..Len(kept) : \E n \in DOMAIN files : files[n] = kept[k] /\ files[n].frontmatter
    <2> SUFFICES ASSUME NEW k \in 1..Len(kept)
                 PROVE  \E n \in DOMAIN files : files[n] = kept[k] /\ files[n].frontmatter
      OBVIOUS
    <2>1. kept[k] \in ToSet(kept)
      BY <1>3 DEF ToSet
    <2>2. kept[k] \in ToSet(files) /\ kept[k].frontmatter
      BY <1>2, <2>1
    <2>3. QED BY <2>2 DEF ToSet
  <1>5. \A topic \in REQUIRED_TOPIC_IDS :
            \E n \in DOMAIN files : files[n].frontmatter /\ files[n].id = topic
    <2> SUFFICES ASSUME NEW topic \in REQUIRED_TOPIC_IDS
                 PROVE  \E n \in DOMAIN files : files[n].frontmatter /\ files[n].id = topic
      OBVIOUS
    <2>1. PICK k \in 1..Len(kept) : kept[k].id = topic
      BY <1>2
    <2>2. QED BY <1>4, <2>1
  <1>6. ASSUME NEW n \in DOMAIN files, files[n].frontmatter, files[n].keywords \cap Words # {}
        PROVE  LET own  == files[n].keywords \cap Words
                   told == search(own, entries)
                   same == {m \in DOMAIN files : files[m].keywords = files[n].keywords}
               IN  /\ told.outcome = "ANSWER_FOUND"
                   /\ own \subseteq told.entry.keywords
                   /\ Cardinality(told.entry.keywords) <= Cardinality(files[n].keywords)
                   /\ own = files[n].keywords /\ same = {n}
                      => told.entry.id = files[n].id
    <2> DEFINE own == files[n].keywords \cap Words
               told == search(own, entries)
               same == {m \in DOMAIN files : files[m].keywords = files[n].keywords}
    <2>1. files[n] \in ToSet(kept)
      BY <1>2, <1>6 DEF ToSet
    <2>2. PICK i \in 1..Len(kept) : kept[i] = files[n]
      BY <1>3, <2>1 DEF ToSet
    <2>3. i \in 1..Len(entries) /\ entries[i].keywords = files[n].keywords
      BY <1>2, <2>2
    <2>4. own \in SUBSET entries[i].keywords /\ own # {}
      BY <1>6, <2>3
    <2> HIDE DEF own
    <2>5. /\ told.outcome = "ANSWER_FOUND"
          /\ \E j \in 1..Len(entries) : told.entry = entries[j]
          /\ own \subseteq told.entry.keywords
          /\ Cardinality(told.entry.keywords) <= Cardinality(entries[i].keywords)
          /\ own = entries[i].keywords => told.entry.keywords = own
      BY <1>2, <2>3, <2>4, OwnWordsAnswered, Zenon
    <2> HIDE DEF told
    <2>6. ASSUME own = files[n].keywords, same = {n}
          PROVE  told.entry.id = files[n].id
      <3>1. PICK j \in 1..Len(kept) : told.entry = entries[j]
        BY <1>2, <2>5
      <3>2. PICK m \in DOMAIN files : files[m] = kept[j]
        BY <1>4
      <3>3. files[m].keywords = files[n].keywords
        BY <1>2, <2>3, <2>5, <2>6, <3>1, <3>2
      <3>4. m = n
        BY <2>6, <3>3
      <3>5. QED BY <1>2, <3>1, <3>2, <3>4
    <2>7. QED BY <2>3, <2>5, <2>6, Zenon DEF told, own
  <1>7. QED BY <1>5, <1>6, Zenon DEF FilesAreAnswered, entries

-----------------------------------------------------------------------------
(* Texts *)

\* What is blank stays blank.
LEMMA BlankStripped == strip(<<>>) = <<>>
  BY EmptySeq DEF strip

\* What is left of a text between its white space.
LEMMA Stripped ==
    ASSUME NEW S, NEW text \in Seq(S)
    PROVE  /\ strip(text) \in Seq(S)
           /\ ToSet(strip(text)) \subseteq ToSet(text)
           /\ strip(text) # <<>> => /\ strip(text)[1] # Space
                                    /\ strip(text)[Len(strip(text))] # Space
           /\ \A A : Space \notin A => only(strip(text), A) = only(text, A)
  <1> DEFINE ink == {i \in DOMAIN text : text[i] # Space}
             N == Len(text)
             lo == Min(ink)
             hi == Max(ink)
  <1>1. DOMAIN text = 1..N /\ N \in Nat /\ \A i \in 1..N : text[i] \in S
    BY LenProperties, ElementOfSeq
  <1>2. CASE ink = {}
    <2>1. strip(text) = <<>>
      BY <1>2 DEF strip
    <2>2. <<>> \in Seq(S) /\ ToSet(<<>>) = {}
      BY EmptySeq, Members
    <2>3. ToSet(text) \subseteq {Space}
      BY <1>2 DEF ToSet
    <2>4. ASSUME NEW A, Space \notin A PROVE only(text, A) = only(<<>>, A)
      <3>1. ToSet(text) \cap A = {}
        BY <2>3, <2>4
      <3>2. QED BY <3>1, KeptWhole, KeptEmpty
    <2>5. QED BY <2>1, <2>2, <2>4
  <1>3. CASE ink # {}
    <2>1. strip(text) = SubSeq(text, lo, hi)
      BY <1>3 DEF strip
    <2>2. /\ lo \in 1..N /\ hi \in 1..N /\ lo <= hi /\ text[lo] # Space /\ text[hi] # Space
          /\ \A i \in 1..N : i < lo \/ i > hi => text[i] = Space
      <3>1. ink \subseteq 1..N
        BY <1>1
      <3>2. lo \in ink /\ hi \in ink /\ \A i \in ink : lo <= i /\ hi >= i
        <4> HIDE DEF ink, N
        <4>1. QED BY <1>1, <1>3, <3>1, Extremes
      <3> HIDE DEF lo, hi
      <3>3. lo \in 1..N /\ hi \in 1..N /\ lo <= hi /\ text[lo] # Space /\ text[hi] # Space
        BY <3>1, <3>2
      <3>4. ASSUME NEW i \in 1..N, i < lo \/ i > hi PROVE text[i] = Space
        <4>1. i \notin ink
          BY <1>1, <3>2, <3>3, <3>4
        <4>2. QED BY <1>1, <4>1
      <3>5. QED BY <3>3, <3>4
    <2> HIDE DEF lo, hi, N
    <2>3. /\ strip(text) \in Seq(S) /\ Len(strip(text)) = hi - lo + 1
          /\ \A i \in 1..hi - lo + 1 : strip(text)[i] = text[lo + i - 1]
      <3>1. lo \in Int /\ hi \in Int /\ lo <= hi /\ \A i \in lo..hi : text[i] \in S
        BY <1>1, <2>2
      <3>2. QED BY <2>1, <3>1, SubSeqProperties
    <2>4. \A i \in 1..hi - lo + 1 : lo + i - 1 \in 1..N
      BY <1>1, <2>2
    <2>5. ToSet(strip(text)) \subseteq ToSet(text)
      <3>1. DOMAIN strip(text) = 1..hi - lo + 1
        BY <2>3, LenProperties
      <3>2. QED BY <1>1, <2>3, <2>4, <3>1 DEF ToSet
    <2>6. strip(text)[1] # Space /\ strip(text)[Len(strip(text))] # Space
      <3>1. /\ 1 \in 1..hi - lo + 1 /\ hi - lo + 1 \in 1..hi - lo + 1
            /\ lo + 1 - 1 = lo /\ lo + (hi - lo + 1) - 1 = hi
        BY <1>1, <2>2
      <3>2. strip(text)[1] = text[lo] /\ strip(text)[hi - lo + 1] = text[hi]
        BY <2>3, <3>1
      <3>3. QED BY <2>2, <2>3, <3>2
    <2>7. ASSUME NEW A, Space \notin A PROVE only(strip(text), A) = only(text, A)
      <3>1. /\ lo \in 1..N + 1 /\ hi \in lo - 1..N
            /\ \A i \in 1..lo - 1 : text[i] \notin A
            /\ \A i \in hi + 1..N : text[i] \notin A
        BY <1>1, <2>2, <2>7
      <3>2. QED BY <2>1, <3>1, KeptMiddle DEF N
    <2>8. QED BY <2>3, <2>5, <2>6, <2>7
  <1>4. QED BY <1>2, <1>3

\* A text that white space neither begins nor ends is left alone.
LEMMA NothingToStrip ==
    ASSUME NEW S, NEW text \in Seq(S),
           text # <<>> => text[1] # Space /\ text[Len(text)] # Space
    PROVE  strip(text) = text
  <1> DEFINE ink == {i \in DOMAIN text : text[i] # Space}
  <1>1. DOMAIN text = 1..Len(text) /\ Len(text) \in Nat
    BY LenProperties
  <1>2. CASE text = <<>>
    BY <1>2, BlankStripped
  <1>3. CASE text # <<>>
    <2>1. Len(text) \in Nat \ {0}
      BY <1>3, EmptySeq
    <2>2. ink \subseteq 1..Len(text) /\ 1 \in ink /\ Len(text) \in ink
      BY <1>1, <1>3, <2>1
    <2>3. strip(text) = SubSeq(text, Min(ink), Max(ink))
      BY <2>2 DEF strip
    <2> HIDE DEF ink
    <2>4. /\ Min(ink) \in ink /\ \A i \in ink : Min(ink) <= i
          /\ Max(ink) \in ink /\ \A i \in ink : Max(ink) >= i
      BY <1>1, <2>2, Extremes
    <2>5. Min(ink) = 1 /\ Max(ink) = Len(text)
      <3> DEFINE N == Len(text)
                 lo == Min(ink)
                 hi == Max(ink)
      <3>1. N \in Nat /\ lo \in 1..N /\ hi \in 1..N /\ lo <= 1 /\ hi >= N
        BY <1>1, <2>2, <2>4
      <3> HIDE DEF N, lo, hi
      <3>2. lo = 1 /\ hi = N
        BY <3>1
      <3>3. QED BY <3>2 DEF N, lo, hi
    <2>6. QED BY <2>3, <2>5, SubSeqFull
  <1>4. QED BY <1>2, <1>3

\* Stripping twice strips no more.
LEMMA StrippedTwice ==
    ASSUME NEW S, NEW text \in Seq(S)
    PROVE  strip(strip(text)) = strip(text)
  <1> DEFINE t == strip(text)
  <1>1. t \in Seq(S) /\ (t # <<>> => t[1] # Space /\ t[Len(t)] # Space)
    BY Stripped
  <1> HIDE DEF t
  <1>2. strip(t) = t
    BY <1>1, NothingToStrip
  <1>3. QED BY <1>2 DEF t

\* A number in its one spelling is digits, not too few and not too many.
LEMMA SpelledDigits ==
    ASSUME NEW S, NEW raw \in Seq(S), normalize_phone(raw) # None
    PROVE  \E number \in Seq(Digits) :
               /\ normalize_phone(raw) = canonical(number) /\ number # <<>>
               /\ Len(number) \in _MIN_DIGITS.._MAX_DIGITS
  <1> DEFINE text == without_extension(strip(raw))
             digits == digits_of(text)
  <1>1. text \in Seq(S)
    <2> DEFINE t == strip(raw)
               marks == {i \in DOMAIN t : extension_at(t, i)}
    <2>1. t \in Seq(S)
      BY Stripped
    <2> HIDE DEF t
    <2>2. DOMAIN t = 1..Len(t) /\ Len(t) \in Nat /\ \A i \in 1..Len(t) : t[i] \in S
      BY <2>1, LenProperties, ElementOfSeq
    <2>3. CASE marks = {}
      <3>1. without_extension(t) = t
        BY <2>3 DEF without_extension
      <3>2. QED BY <2>1, <3>1 DEF t
    <2>4. CASE marks # {}
      <3>1. without_extension(t) = SubSeq(t, 1, Min(marks) - 1)
        BY <2>4 DEF without_extension
      <3>2. marks \subseteq 1..Len(t)
        BY <2>2
      <3> HIDE DEF marks
      <3>3. Min(marks) \in 1..Len(t)
        BY <2>2, <2>4, <3>2, Extremes
      <3>4. SubSeq(t, 1, Min(marks) - 1) \in Seq(S)
        <4>1. Min(marks) - 1 \in Int /\ \A i \in 1..Min(marks) - 1 : t[i] \in S
          BY <2>2, <3>3
        <4>2. QED BY <4>1, SubSeqProperties
      <3>5. QED BY <3>1, <3>4 DEF t
    <2>5. QED BY <2>3, <2>4
  <1> HIDE DEF text
  <1>2. digits \in Seq(Digits)
    BY <1>1, KeptOnly DEF digits_of
  <1>3. default_country_code \in Seq(Digits)
    BY PhoneAssumption
  <1> DEFINE candidate == IF had_plus(text) THEN digits ELSE national(digits)
  <1>4. candidate \in Seq(Digits)
    <2>1. default_country_code \o digits \in Seq(Digits)
      BY <1>2, <1>3, ConcatProperties
    <2>2. national(digits) \in Seq(Digits)
      BY <1>2, <2>1, Zenon DEF national
    <2>3. QED BY <1>2, <2>2
  <1>5. digits # <<>> => candidate # <<>>
    <2>1. national(digits) \in {digits, default_country_code \o digits}
      BY Zenon DEF national
    <2>2. digits # <<>> => default_country_code \o digits # <<>>
      <3>1. Len(digits) \in Nat /\ Len(default_country_code) \in Nat
            /\ (digits # <<>> => Len(digits) # 0)
        BY <1>2, <1>3, LenProperties, EmptySeq
      <3>2. Len(default_country_code \o digits) = Len(default_country_code) + Len(digits)
        BY <1>2, <1>3, ConcatProperties
      <3> HIDE DEF digits
      <3>3. QED BY <3>1, <3>2, EmptySeq
    <2>3. QED BY <2>1, <2>2
  <1> HIDE DEF candidate, digits
  <1>6. /\ normalize_phone(raw) = canonical(candidate) /\ digits # <<>>
        /\ Len(candidate) \in _MIN_DIGITS.._MAX_DIGITS
    BY Zenon DEF normalize_phone, text, digits, candidate
  <1>7. QED BY <1>4, <1>5, <1>6

-----------------------------------------------------------------------------
(* Numbers *)

\* A number without an extension is spelled by its digits, and by whether it said
\* that it carries its country code.
Spelled(digits, plus) ==
    LET candidate == IF plus THEN digits ELSE national(digits) IN
    IF digits = <<>> \/ Len(candidate) \notin _MIN_DIGITS.._MAX_DIGITS
    THEN None ELSE canonical(candidate)

\* What is left without the spaces, by a set that has no space.
LEMMA Squeezed ==
    ASSUME NEW S, NEW text \in Seq(S)
    PROVE  /\ squeeze(text) = only(text, S \ {Space})
           /\ squeeze(strip(text)) = squeeze(text)
  <1>1. \A t \in Seq(S) : squeeze(t) = only(t, S \ {Space})
    <2> SUFFICES ASSUME NEW t \in Seq(S) PROVE squeeze(t) = only(t, S \ {Space})
      OBVIOUS
    <2>1. ToSet(t) \subseteq S
      BY Members
    <2>2. \A x \in ToSet(t) : x \in ToSet(t) \ {Space} <=> x \in S \ {Space}
      BY <2>1
    <2>3. QED BY <2>2, KeptAlike DEF squeeze
  <1>2. strip(text) \in Seq(S)
    BY Stripped
  <1>3. Space \notin S \ {Space}
    OBVIOUS
  <1>4. only(strip(text), S \ {Space}) = only(text, S \ {Space})
    BY <1>3, Stripped
  <1>5. QED BY <1>1, <1>2, <1>4

\* Without the mark of an extension there is no extension.
LEMMA SpelledPlainly ==
    ASSUME NEW S, NEW text \in Seq(S), "x" \notin ToSet(text)
    PROVE  normalize_phone(text) = Spelled(only(text, Digits), had_plus(text))
  <1> DEFINE t == strip(text)
  <1>1. t \in Seq(S) /\ "x" \notin ToSet(t)
    BY Stripped
  <1>2. only(t, Digits) = only(text, Digits)
    BY Stripped, SpellingAssumption
  <1>3. had_plus(t) = had_plus(text)
    BY Squeezed, Zenon DEF had_plus
  <1> HIDE DEF t
  <1>4. without_extension(t) = t
    BY <1>1 DEF without_extension, extension_at, ToSet
  <1>5. QED BY <1>2, <1>3, <1>4, Zenon DEF normalize_phone, digits_of, Spelled, t

\* Digits and spaces.
Paused == Digits \cup {Space}

LEMMA PausedSpelled ==
    ASSUME NEW text \in Seq(Paused)
    PROVE  /\ squeeze(text) = only(text, Digits)
           /\ ~had_plus(text)
           /\ normalize_phone(text) = Spelled(only(text, Digits), FALSE)
  <1>1. ToSet(text) \subseteq Paused /\ "x" \notin Paused
    BY Members, SpellingAssumption DEF Paused
  <1>2. Paused \ {Space} = Digits
    BY SpellingAssumption DEF Paused
  <1>3. squeeze(text) = only(text, Digits)
    BY <1>2, Squeezed
  <1>4. had_plus(text) = FALSE
    <2>1. squeeze(text) \in Seq(Digits)
      BY <1>3, KeptOnly
    <2>2. squeeze(text) # <<>> => squeeze(text)[1] \in Digits
      BY <2>1, ElementOfSeq, EmptySeq
    <2>3. "+" \notin Digits
      BY SpellingAssumption
    <2>4. QED BY <2>2, <2>3 DEF had_plus
  <1>5. normalize_phone(text) = Spelled(only(text, Digits), had_plus(text))
    BY <1>1, SpelledPlainly
  <1>6. QED BY <1>3, <1>4, <1>5, Zenon

\* A number that begins with no country code, whichever way it is given one.
LEMMA CodeGiven ==
    ASSUME NEW number \in Seq(Digits), ~IsPrefix(default_country_code, number)
    PROVE  /\ Spelled(default_country_code \o number, FALSE) = Spelled(number, FALSE)
           /\ Spelled(default_country_code \o number, TRUE) = Spelled(number, FALSE)
  <1> DEFINE code == default_country_code
             whole == code \o number
             C == Len(code)
  <1>1. code \in Seq(Digits) /\ C \in Nat /\ Len(number) \in Nat
    BY PhoneAssumption, LenProperties
  <1>2. /\ whole \in Seq(Digits) /\ Len(whole) = C + Len(number)
        /\ \A i \in 1..C : whole[i] = code[i]
    BY <1>1, ConcatProperties
  <1>3. IsPrefix(code, whole)
    <2>1. \A i \in 1..C : code[i] \in Digits /\ whole[i] \in Digits
      BY <1>1, <1>2, ElementOfSeq
    <2>2. /\ SubSeq(code, 1, C) \in Seq(Digits) /\ SubSeq(whole, 1, C) \in Seq(Digits)
          /\ Len(SubSeq(code, 1, C)) = C /\ Len(SubSeq(whole, 1, C)) = C
          /\ \A i \in 1..C : SubSeq(code, 1, C)[i] = code[i] /\ SubSeq(whole, 1, C)[i] = whole[i]
      <3> HIDE DEF code, whole, C
      <3>1. C \in Int /\ 1 \in Int /\ (IF 1 <= C THEN C - 1 + 1 ELSE 0) = C /\ C - 1 + 1 = C
        BY <1>1
      <3>2. \A i \in 1..C : 1 + i - 1 = i
        BY <1>1
      <3>3. /\ SubSeq(code, 1, C) \in Seq(Digits)
            /\ Len(SubSeq(code, 1, C)) = (IF 1 <= C THEN C - 1 + 1 ELSE 0)
            /\ \A i \in 1..C - 1 + 1 : SubSeq(code, 1, C)[i] = code[1 + i - 1]
        BY <2>1, <3>1, SubSeqProperties
      <3>4. /\ SubSeq(whole, 1, C) \in Seq(Digits)
            /\ Len(SubSeq(whole, 1, C)) = (IF 1 <= C THEN C - 1 + 1 ELSE 0)
            /\ \A i \in 1..C - 1 + 1 : SubSeq(whole, 1, C)[i] = whole[1 + i - 1]
        BY <2>1, <3>1, SubSeqProperties
      <3>5. QED BY <3>1, <3>2, <3>3, <3>4
    <2>3. SubSeq(code, 1, C) = SubSeq(whole, 1, C)
      <3> HIDE DEF code, whole, C
      <3>1. QED BY <1>2, <2>2, SeqEqual
    <2>4. C <= Len(whole)
      BY <1>1, <1>2
    <2>5. QED BY <2>3, <2>4 DEF IsPrefix
  <1>4. C > 0
    <2> SUFFICES ASSUME C = 0 PROVE FALSE
      BY <1>1
    <2>1. SubSeq(code, 1, 0) = <<>> /\ SubSeq(number, 1, 0) = <<>>
      BY SubSeqEmpty
    <2>2. IsPrefix(code, number)
      BY <1>1, <2>1 DEF IsPrefix
    <2>3. QED BY <2>2
  <1>5. {_MIN_DIGITS, _MAX_DIGITS} \subseteq Nat /\ 2 * C < _MIN_DIGITS
    BY PhoneAssumption, SpellingAssumption
  <1>6. national(number) = whole
    BY DEF national
  <1> HIDE DEF code, whole, C
  <1>7. CASE number = <<>>
    <2>1. Len(number) = 0 /\ Len(whole) = C /\ whole # <<>>
      BY <1>1, <1>2, <1>4, <1>7, EmptySeq
    <2>2. national(whole) = code \o whole
      BY <2>1 DEF national, code, C
    <2>3. Len(code \o whole) = C + C
      BY <1>1, <1>2, <2>1, ConcatProperties DEF C
    <2>4. C \notin _MIN_DIGITS.._MAX_DIGITS /\ C + C \notin _MIN_DIGITS.._MAX_DIGITS
      BY <1>1, <1>5
    <2>5. Spelled(whole, FALSE) = None /\ Spelled(whole, TRUE) = None
      BY <2>1, <2>2, <2>3, <2>4 DEF Spelled
    <2>6. Spelled(number, FALSE) = None
      BY <1>7 DEF Spelled
    <2>7. QED BY <2>5, <2>6 DEF whole, code
  <1>8. CASE number # <<>>
    <2>1. Len(number) > 0 /\ Len(whole) > C /\ whole # <<>>
      BY <1>1, <1>2, <1>8, EmptySeq
    <2>2. national(whole) = whole
      BY <1>3, <2>1 DEF national, code, C
    <2>3. /\ Spelled(whole, FALSE) = Spelled(number, FALSE)
          /\ Spelled(whole, TRUE) = Spelled(number, FALSE)
      BY <1>6, <1>8, <2>1, <2>2, Zenon DEF Spelled
    <2>4. QED BY <2>3 DEF whole, code
  <1>9. QED BY <1>7, <1>8

\* A pause and a digit are a digit.
LEMMA PauseStripped ==
    ASSUME NEW tail, NEW S, tail \in Seq(S), Len(tail) = 2, tail[1] = Space,
           NEW d \in Digits, tail[2] = d
    PROVE  strip(tail) # <<>> /\ ToSet(strip(tail)) \subseteq Digits
  <1> DEFINE ink == {i \in DOMAIN tail : tail[i] # Space}
  <1>1. DOMAIN tail = 1..2 /\ d # Space
    BY LenProperties, SpellingAssumption
  <1>2. ink = {2}
    BY <1>1
  <1>3. Min({2}) = 2 /\ Max({2}) = 2
    <2>1. {2} \subseteq 1..2 /\ {2} # {} /\ 2 \in Nat
      OBVIOUS
    <2>2. Min({2}) \in {2} /\ Max({2}) \in {2}
      BY <2>1, Extremes
    <2>3. QED BY <2>2
  <1>4. strip(tail) = SubSeq(tail, 2, 2)
    BY <1>2, <1>3, Zenon DEF strip
  <1>5. /\ SubSeq(tail, 2, 2) \in Seq(Digits) /\ Len(SubSeq(tail, 2, 2)) = 1
    <2>1. \A i \in 2..2 : tail[i] \in Digits
      OBVIOUS
    <2>2. /\ SubSeq(tail, 2, 2) \in Seq(Digits)
          /\ Len(SubSeq(tail, 2, 2)) = (IF 2 <= 2 THEN 2 - 2 + 1 ELSE 0)
      BY <2>1, SubSeqProperties
    <2>3. QED BY <2>2
  <1> DEFINE kept == SubSeq(tail, 2, 2)
  <1>6. kept \in Seq(Digits) /\ Len(kept) = 1 /\ strip(tail) = kept
    BY <1>4, <1>5
  <1> HIDE DEF kept
  <1>7. kept # <<>>
    <2>1. Len(<<>>) # 1
      BY EmptySeq
    <2>2. QED BY <1>6, <2>1, Zenon
  <1>8. ToSet(kept) \subseteq Digits
    BY <1>6, Members
  <1>9. QED BY <1>6, <1>7, <1>8, Zenon

\* The number, a pause, the mark, a pause and the extension.
Extended(text, d) == text \o <<Space, "x", Space, d>>

\* What is said of an extended number, place by place.
LEMMA ExtendedPlaces ==
    ASSUME NEW text \in Seq(Paused), NEW d \in Digits
    PROVE  LET t == Extended(text, d)
               N == Len(text)
           IN  /\ t \in Seq(Paused \cup {"x"}) /\ Len(t) = N + 4 /\ N \in Nat
               /\ \A i \in 1..N : t[i] = text[i] /\ text[i] \in Paused
               /\ t[N + 1] = Space /\ t[N + 2] = "x" /\ t[N + 3] = Space /\ t[N + 4] = d
  <1> DEFINE e == <<Space, "x", Space, d>>
             X == Paused \cup {"x"}
             N == Len(text)
             t == text \o e
  <1>1. /\ e \in Seq(X) /\ Len(e) = 4
        /\ e[1] = Space /\ e[2] = "x" /\ e[3] = Space /\ e[4] = d
    <2>1. Space \in X /\ "x" \in X /\ d \in X
      BY DEF Paused
    <2> HIDE DEF X
    <2>2. QED BY <2>1
  <1>2. text \in Seq(X) /\ N \in Nat /\ \A i \in 1..N : text[i] \in Paused
    BY SeqMonotonic, LenProperties, ElementOfSeq
  <1> HIDE DEF e, X
  <1>3. /\ t \in Seq(X) /\ Len(t) = N + 4
        /\ \A i \in 1..N + 4 : t[i] = IF i <= N THEN text[i] ELSE e[i - N]
    <2>1. /\ t \in Seq(X) /\ Len(t) = N + Len(e)
          /\ \A i \in 1..N + Len(e) : t[i] = IF i <= N THEN text[i] ELSE e[i - N]
      BY <1>1, <1>2, ConcatProperties
    <2> HIDE DEF t, N
    <2>2. QED BY <1>1, <2>1
  <1> HIDE DEF t
  <1>4. \A i \in 1..N : t[i] = text[i]
    BY <1>2, <1>3
  <1>5. t[N + 1] = e[1] /\ t[N + 2] = e[2] /\ t[N + 3] = e[3] /\ t[N + 4] = e[4]
    <2>1. \A k \in 1..4 : N + k \in 1..N + 4 /\ ~(N + k <= N) /\ N + k - N = k
      BY <1>2
    <2>2. \A k \in 1..4 : t[N + k] = e[k]
      BY <1>3, <2>1
    <2>3. QED BY <2>2
  <1>6. QED BY <1>1, <1>2, <1>3, <1>4, <1>5 DEF t, e, X, Extended

\* An extension makes no difference.
LEMMA ExtensionLeft ==
    ASSUME NEW text \in Seq(Paused), NEW d \in Digits
    PROVE  normalize_phone(Extended(text, d)) = Spelled(only(text, Digits), FALSE)
  <1> DEFINE t == Extended(text, d)
             N == Len(text)
             X == Paused \cup {"x"}
             ink == {i \in DOMAIN t : t[i] # Space}
             lo == Min(ink)
             s == strip(t)
             p == N + 3 - lo
             u == text \o <<Space>>
             marks == {i \in DOMAIN s : extension_at(s, i)}
  <1>1. /\ t \in Seq(X) /\ Len(t) = N + 4 /\ N \in Nat
        /\ \A i \in 1..N : t[i] = text[i] /\ text[i] \in Paused
        /\ t[N + 1] = Space /\ t[N + 2] = "x" /\ t[N + 3] = Space /\ t[N + 4] = d
    BY ExtendedPlaces
  <1> HIDE DEF t, N
  <1>2. DOMAIN t = 1..N + 4 /\ \A i \in 1..N + 4 : t[i] \in X
    BY <1>1, LenProperties, ElementOfSeq
  <1>3. /\ Space \notin Digits /\ "x" \notin Digits /\ Space # "x" /\ d # Space /\ d # "x"
        /\ "x" \notin Paused
    BY SpellingAssumption DEF Paused
  <1>4. /\ lo \in 1..N + 2 /\ Max(ink) = N + 4 /\ ink # {}
        /\ \A i \in 1..lo - 1 : t[i] = Space
    <2>1. ink \subseteq 1..N + 4 /\ N + 2 \in ink /\ N + 4 \in ink
      BY <1>1, <1>2, <1>3
    <2>2. /\ lo \in ink /\ \A i \in ink : lo <= i
          /\ Max(ink) \in ink /\ \A i \in ink : Max(ink) >= i
      <3>1. N + 4 \in Nat /\ ink # {}
        BY <1>1, <2>1
      <3> HIDE DEF ink
      <3>2. QED BY <2>1, <3>1, Extremes
    <2> DEFINE hi == Max(ink)
    <2> HIDE DEF lo, hi
    <2>3. hi = N + 4
      <3>1. hi \in 1..N + 4 /\ hi >= N + 4
        BY <2>1, <2>2 DEF hi
      <3>2. QED BY <1>1, <3>1
    <2>4. lo \in 1..N + 2
      <3>1. lo \in 1..N + 4 /\ lo <= N + 2
        BY <2>1, <2>2
      <3>2. QED BY <1>1, <3>1
    <2>5. ASSUME NEW i \in 1..lo - 1 PROVE t[i] = Space
      <3>1. i \in 1..N + 4 /\ ~(lo <= i)
        BY <1>1, <2>4
      <3>2. i \notin ink
        BY <2>2, <3>1
      <3>3. QED BY <1>2, <3>1, <3>2
    <2>6. QED BY <2>1, <2>3, <2>4, <2>5 DEF hi
  <1>5. s = SubSeq(t, lo, N + 4)
    BY <1>4, Zenon DEF strip
  <1> HIDE DEF lo, ink
  <1>6. /\ s \in Seq(X) /\ Len(s) = N + 5 - lo
        /\ \A i \in 1..N + 5 - lo : s[i] = t[lo + i - 1]
    <2> DEFINE hi == N + 4
    <2>1. lo \in 1..Len(t) + 1 /\ hi \in lo - 1..Len(t) /\ hi - lo + 1 = N + 5 - lo
      BY <1>1, <1>4
    <2>2. s = SubSeq(t, lo, hi)
      BY <1>5
    <2> HIDE DEF s, hi, X
    <2>3. s \in Seq(X) /\ Len(s) = hi - lo + 1 /\ \A i \in 1..hi - lo + 1 : s[i] = t[lo + i - 1]
      BY <1>1, <2>1, <2>2, Part
    <2>4. QED BY <2>1, <2>3
  <1> HIDE DEF s
  <1>7. /\ p \in 1..N + 2 /\ p \in 1..N + 5 - lo
        /\ lo + p - 1 = N + 2 /\ N + 5 - lo = p + 2
    BY <1>1, <1>4
  <1> HIDE DEF p
  <1>8. DOMAIN s = 1..p + 2 /\ s[p] = "x" /\ s[p + 1] = Space /\ s[p + 2] = d
    <2>1. DOMAIN s = 1..p + 2
      BY <1>6, <1>7, LenProperties
    <2>2. \A k \in 0..2 : /\ p + k \in 1..N + 5 - lo
                          /\ lo + (p + k) - 1 = N + 2 + k
      BY <1>1, <1>4, <1>7
    <2>3. \A k \in 0..2 : s[p + k] = t[N + 2 + k]
      BY <1>6, <2>2
    <2>4. s[p + 0] = t[N + 2 + 0] /\ s[p + 1] = t[N + 2 + 1] /\ s[p + 2] = t[N + 2 + 2]
      BY <2>3
    <2>5. p + 0 = p /\ N + 2 + 0 = N + 2 /\ N + 2 + 1 = N + 3 /\ N + 2 + 2 = N + 4
      BY <1>1, <1>7
    <2>6. QED BY <1>1, <2>1, <2>4, <2>5
  <1>9. \A i \in 1..p - 1 : /\ s[i] = t[lo + i - 1] /\ lo + i - 1 \in 1..N + 1
                            /\ s[i] \in Paused
    <2> SUFFICES ASSUME NEW i \in 1..p - 1
                 PROVE  s[i] = t[lo + i - 1] /\ lo + i - 1 \in 1..N + 1 /\ s[i] \in Paused
      OBVIOUS
    <2>1. i \in 1..N + 5 - lo /\ lo + i - 1 \in 1..N + 1
      BY <1>1, <1>4, <1>7
    <2>2. s[i] = t[lo + i - 1]
      BY <1>6, <2>1
    <2>3. CASE lo + i - 1 \in 1..N
      BY <1>1, <2>1, <2>2, <2>3
    <2>4. CASE lo + i - 1 = N + 1
      BY <1>1, <2>1, <2>2, <2>4 DEF Paused
    <2>5. lo + i - 1 \in 1..N \/ lo + i - 1 = N + 1
      BY <1>1, <2>1
    <2>6. QED BY <2>1, <2>2, <2>3, <2>4, <2>5
  <1>10. marks = {p}
    <2>1. \A i \in DOMAIN s : s[i] = "x" => i = p
      <3> SUFFICES ASSUME NEW i \in DOMAIN s, s[i] = "x" PROVE i = p
        OBVIOUS
      <3>1. i \in 1..p - 1 \/ i = p \/ i = p + 1 \/ i = p + 2
        BY <1>7, <1>8
      <3>2. QED BY <1>3, <1>8, <1>9, <3>1
    <2>2. extension_at(s, p)
      <3> DEFINE tail == SubSeq(s, p + 1, p + 2)
      <3>1. p > 1 => s[p - 1] \notin Digits \cup {"x"}
        <4> SUFFICES ASSUME p > 1 PROVE s[p - 1] = Space
          BY <1>3
        <4>1. p - 1 \in 1..p - 1 /\ lo + (p - 1) - 1 = N + 1
          BY <1>1, <1>4, <1>7
        <4>2. QED BY <1>1, <1>9, <4>1
      <3>2. /\ tail \in Seq(X) /\ Len(tail) = 2 /\ tail[1] = Space /\ tail[2] = d
        <4>1. /\ p + 1 \in Int /\ p + 2 \in Int /\ p + 1 <= p + 2
              /\ p + 2 - (p + 1) + 1 = 2 /\ p + 1 + 1 - 1 = p + 1 /\ p + 1 + 2 - 1 = p + 2
          BY <1>7
        <4>2. \A i \in p + 1..p + 2 : s[i] \in X
          BY <1>6, <1>7, ElementOfSeq
        <4>3. /\ tail \in Seq(X)
              /\ Len(tail) = (IF p + 1 <= p + 2 THEN p + 2 - (p + 1) + 1 ELSE 0)
              /\ \A i \in 1..p + 2 - (p + 1) + 1 : tail[i] = s[p + 1 + i - 1]
          BY <4>1, <4>2, SubSeqProperties
        <4> HIDE DEF tail
        <4>4. tail[1] = s[p + 1 + 1 - 1] /\ tail[2] = s[p + 1 + 2 - 1]
          <5>1. \A i \in 1..2 : tail[i] = s[p + 1 + i - 1]
            BY <4>1, <4>3
          <5>2. QED BY <5>1
        <4>5. QED BY <1>8, <4>1, <4>3, <4>4
      <3> HIDE DEF tail
      <3>3. strip(tail) # <<>> /\ ToSet(strip(tail)) \subseteq Digits
        BY <3>2, PauseStripped
      <3>4. Len(s) = p + 2
        BY <1>6, <1>7
      <3>5. QED BY <1>8, <3>1, <3>3, <3>4, Zenon DEF extension_at, tail
    <2>3. QED BY <1>7, <1>8, <2>1, <2>2 DEF extension_at
  <1>11. without_extension(s) = SubSeq(s, 1, p - 1)
    <2>1. Min({p}) = p
      <3>1. {p} \subseteq 1..N + 2 /\ {p} # {} /\ N + 2 \in Nat
        BY <1>1, <1>7
      <3>2. Min({p}) \in {p}
        BY <3>1, Extremes
      <3>3. QED BY <3>2
    <2>2. QED BY <1>10, <2>1, Zenon DEF without_extension
  <1> HIDE DEF marks
  <1>12. /\ u \in Seq(Paused) /\ Len(u) = N + 1 /\ \A i \in 1..N + 1 : u[i] = t[i]
    <2>1. <<Space>> \in Seq(Paused) /\ Len(<<Space>>) = 1 /\ <<Space>>[1] = Space
      BY DEF Paused
    <2>2. /\ u \in Seq(Paused) /\ Len(u) = Len(text) + 1
          /\ \A i \in 1..Len(text) + 1 :
                 u[i] = IF i <= Len(text) THEN text[i] ELSE <<Space>>[i - Len(text)]
      BY <2>1, ConcatProperties
    <2> HIDE DEF u
    <2>3. u[N + 1] = Space
      <3>1. N + 1 \in 1..N + 1 /\ ~(N + 1 <= N) /\ N + 1 - N = 1
        BY <1>1
      <3>2. QED BY <2>1, <2>2, <3>1 DEF N
    <2>4. \A i \in 1..N : u[i] = text[i]
      <3>1. \A i \in 1..N : i \in 1..N + 1 /\ i <= N
        BY <1>1
      <3>2. QED BY <2>2, <3>1 DEF N
    <2>5. \A i \in 1..N + 1 : i \in 1..N \/ i = N + 1
      BY <1>1
    <2>6. QED BY <1>1, <2>2, <2>3, <2>4, <2>5 DEF N
  <1> HIDE DEF u
  <1>13. SubSeq(s, 1, p - 1) = SubSeq(u, lo, N + 1) /\ SubSeq(s, 1, p - 1) \in Seq(Paused)
    <2>1. /\ SubSeq(s, 1, p - 1) \in Seq(Paused)
          /\ Len(SubSeq(s, 1, p - 1)) = p - 1
          /\ \A i \in 1..p - 1 : SubSeq(s, 1, p - 1)[i] = s[i]
      <3>1. /\ p - 1 \in Int /\ 1 \in Int /\ p - 1 - 1 + 1 = p - 1
            /\ (IF 1 <= p - 1 THEN p - 1 - 1 + 1 ELSE 0) = p - 1
            /\ \A i \in 1..p - 1 : 1 + i - 1 = i
        BY <1>7
      <3>2. \A i \in 1..p - 1 : s[i] \in Paused
        BY <1>9
      <3>3. /\ SubSeq(s, 1, p - 1) \in Seq(Paused)
            /\ Len(SubSeq(s, 1, p - 1)) = (IF 1 <= p - 1 THEN p - 1 - 1 + 1 ELSE 0)
            /\ \A i \in 1..p - 1 - 1 + 1 : SubSeq(s, 1, p - 1)[i] = s[1 + i - 1]
        BY <3>1, <3>2, SubSeqProperties
      <3>4. QED BY <3>1, <3>3
    <2>2. /\ SubSeq(u, lo, N + 1) \in Seq(Paused)
          /\ Len(SubSeq(u, lo, N + 1)) = p - 1
          /\ \A i \in 1..p - 1 : SubSeq(u, lo, N + 1)[i] = u[lo + i - 1]
      <3> DEFINE hi == N + 1
      <3>1. lo \in 1..Len(u) + 1 /\ hi \in lo - 1..Len(u) /\ hi - lo + 1 = p - 1
        BY <1>1, <1>4, <1>7, <1>12
      <3> HIDE DEF hi
      <3>2. /\ SubSeq(u, lo, hi) \in Seq(Paused) /\ Len(SubSeq(u, lo, hi)) = hi - lo + 1
            /\ \A i \in 1..hi - lo + 1 : SubSeq(u, lo, hi)[i] = u[lo + i - 1]
        BY <1>12, <3>1, Part
      <3>3. QED BY <3>1, <3>2 DEF hi
    <2>3. \A i \in 1..p - 1 : SubSeq(s, 1, p - 1)[i] = SubSeq(u, lo, N + 1)[i]
      BY <1>9, <1>12, <2>1, <2>2
    <2>4. SubSeq(s, 1, p - 1) = SubSeq(u, lo, N + 1)
      BY <2>1, <2>2, <2>3, SeqEqual
    <2>5. QED BY <2>1, <2>4
  <1>14. only(SubSeq(u, lo, N + 1), Digits) = only(text, Digits)
    <2>1. only(SubSeq(u, lo, N + 1), Digits) = only(u, Digits)
      <3>1. /\ lo \in 1..Len(u) + 1 /\ N + 1 \in lo - 1..Len(u)
            /\ \A i \in 1..lo - 1 : u[i] \notin Digits
            /\ \A i \in N + 1 + 1..Len(u) : u[i] \notin Digits
        <4>1. \A i \in 1..lo - 1 : i \in 1..N + 1
          BY <1>1, <1>4
        <4>2. \A i \in 1..lo - 1 : u[i] \notin Digits
          BY <1>3, <1>4, <1>12, <4>1
        <4>3. lo \in 1..N + 1 + 1 /\ N + 1 \in lo - 1..N + 1 /\ N + 1 + 1..N + 1 = {}
          BY <1>1, <1>4
        <4>4. QED BY <1>12, <4>2, <4>3
      <3>2. QED BY <1>12, <3>1, KeptMiddle
    <2>2. only(u, Digits) = only(text, Digits)
      <3>1. <<Space>> \in Seq(Paused)
        BY DEF Paused
      <3>2. only(u, Digits) = only(text, Digits) \o only(<<Space>>, Digits)
        BY <3>1, KeptConcat DEF u
      <3>3. only(<<Space>>, Digits) = <<>>
        BY <1>3, KeptOne
      <3>4. only(text, Digits) \in Seq(Digits)
        BY KeptOnly
      <3>5. QED BY <3>2, <3>3, <3>4, ConcatEmptySeq
    <2>3. QED BY <2>1, <2>2
  <1> DEFINE rest == SubSeq(s, 1, p - 1)
  <1>15. only(rest, Digits) = only(text, Digits) /\ rest \in Seq(Paused)
    BY <1>13, <1>14
  <1> HIDE DEF rest
  <1>16. ~had_plus(rest)
    BY <1>15, PausedSpelled
  <1>17. without_extension(strip(t)) = rest
    BY <1>11 DEF rest, s
  <1>18. normalize_phone(t) = Spelled(only(text, Digits), FALSE)
    BY <1>15, <1>16, <1>17, Zenon DEF normalize_phone, Spelled, digits_of
  <1>19. QED BY <1>18 DEF t

\* However it is spelled, it is one number.
LEMMA OneSpelling ==
    ASSUME NEW S, NEW text \in Seq(S)
    PROVE  SpelledAlike(text)
  <1> DEFINE number == squeeze(text)
             code == default_country_code
             whole == normalize_phone(number)
  <1> SUFFICES ASSUME ToSet(number) \subseteq Digits, ~IsPrefix(code, number)
               PROVE  /\ normalize_phone(text) = whole
                      /\ normalize_phone(<<Space>> \o text) = whole
                      /\ normalize_phone(code \o text) = whole
                      /\ normalize_phone(<<Space, "+">> \o code \o text) = whole
                      /\ \A d \in Digits :
                             normalize_phone(text \o <<Space, "x", Space, d>>) = whole
    BY Zenon DEF SpelledAlike
  <1>1. text \in Seq(Paused)
    <2>1. ToSet(text) \subseteq Paused
      <3>1. ToSet(number) = ToSet(text) \cap (ToSet(text) \ {Space})
        BY KeptMembers DEF squeeze
      <3> HIDE DEF number
      <3>2. QED BY <3>1 DEF Paused
    <2>2. Len(text) \in Nat /\ text \in [1..Len(text) -> S] /\ DOMAIN text = 1..Len(text)
      BY LenProperties
    <2>3. text \in [1..Len(text) -> Paused]
      BY <2>1, <2>2 DEF ToSet
    <2>4. QED BY <2>2, <2>3, PlacesFilled
  <1>2. number = only(text, Digits)
    BY <1>1, PausedSpelled
  <1>3. number \in Seq(Digits) /\ number \in Seq(Paused)
    <2>1. number \in Seq(Digits)
      BY <1>1, <1>2, KeptOnly
    <2>2. Digits \subseteq Paused
      BY DEF Paused
    <2>3. QED BY <2>1, <2>2, SeqMonotonic
  <1>4. code \in Seq(Digits) /\ code \in Seq(Paused)
    <2>1. Digits \subseteq Paused
      BY DEF Paused
    <2>2. QED BY <2>1, PhoneAssumption, SeqMonotonic
  <1>5. only(number, Digits) = number /\ only(code, Digits) = code
    BY <1>3, <1>4, Members, KeptWhole
  <1> HIDE DEF number, code
  <1>6. whole = Spelled(number, FALSE)
    BY <1>3, <1>5, PausedSpelled
  <1> HIDE DEF whole
  <1>7. normalize_phone(text) = whole
    BY <1>1, <1>2, <1>6, PausedSpelled
  <1>8. normalize_phone(<<Space>> \o text) = whole
    <2>1. <<Space>> \in Seq(Paused)
      BY DEF Paused
    <2>2. <<Space>> \o text \in Seq(Paused)
      BY <1>1, <2>1, ConcatProperties
    <2>3. only(<<Space>> \o text, Digits) = only(<<Space>>, Digits) \o number
      BY <1>1, <1>2, <2>1, KeptConcat
    <2>4. only(<<Space>>, Digits) = <<>>
      BY KeptOne, SpellingAssumption
    <2>5. only(<<Space>> \o text, Digits) = number
      BY <1>3, <2>3, <2>4, ConcatEmptySeq
    <2>6. QED BY <1>6, <2>2, <2>5, PausedSpelled
  <1>9. only(code \o text, Digits) = code \o number /\ code \o text \in Seq(Paused)
    <2>1. code \o text \in Seq(Paused)
      BY <1>1, <1>4, ConcatProperties
    <2>2. only(code \o text, Digits) = only(code, Digits) \o only(text, Digits)
      BY <1>1, <1>4, KeptConcat
    <2>3. QED BY <1>2, <1>5, <2>1, <2>2, Zenon
  <1>10. Spelled(code \o number, FALSE) = whole /\ Spelled(code \o number, TRUE) = whole
    BY <1>3, <1>6, CodeGiven DEF code
  <1>11. normalize_phone(code \o text) = whole
    BY <1>9, <1>10, PausedSpelled
  <1>12. normalize_phone(<<Space, "+">> \o code \o text) = whole
    <2> DEFINE X == Paused \cup {"+"}
               mark == <<Space, "+">>
               rest == code \o text
               t == mark \o rest
    <2>1. /\ rest \in Seq(X) /\ mark \in Seq(X) /\ <<Space>> \in Seq(X) /\ <<"+">> \in Seq(X)
          /\ mark = <<Space>> \o <<"+">>
      <3>1. Paused \subseteq X /\ Space \in X /\ "+" \in X
        BY DEF Paused
      <3>2. rest \in Seq(X)
        BY <1>9, <3>1, SeqMonotonic
      <3> HIDE DEF X
      <3>3. QED BY <3>1, <3>2
    <2>2. (mark \o code) \o text = t
      <3>1. code \in Seq(X) /\ text \in Seq(X)
        BY <1>1, <1>4, SeqMonotonic
      <3> HIDE DEF X, mark
      <3>2. QED BY <2>1, <3>1, ConcatAssociative
    <2> HIDE DEF X, mark, rest
    <2>3. t \in Seq(X)
      BY <2>1, ConcatProperties
    <2>4. "x" \notin ToSet(t)
      <3>1. ToSet(t) \subseteq X
        BY <2>3, Members
      <3>2. "x" \notin X
        BY SpellingAssumption DEF X, Paused
      <3>3. QED BY <3>1, <3>2
    <2>5. \A A : only(t, A) = (only(<<Space>>, A) \o only(<<"+">>, A)) \o only(rest, A)
      <3> SUFFICES ASSUME NEW A
                   PROVE  only(t, A) = (only(<<Space>>, A) \o only(<<"+">>, A)) \o only(rest, A)
        OBVIOUS
      <3>1. only(t, A) = only(mark, A) \o only(rest, A)
        BY <2>1, KeptConcat
      <3>2. only(mark, A) = only(<<Space>>, A) \o only(<<"+">>, A)
        BY <2>1, KeptConcat
      <3>3. QED BY <3>1, <3>2
    <2>6. only(t, Digits) = code \o number
      <3>1. only(<<Space>>, Digits) = <<>> /\ only(<<"+">>, Digits) = <<>>
        BY KeptOne, SpellingAssumption
      <3>2. only(rest, Digits) = code \o number
        BY <1>9 DEF rest
      <3>3. code \o number \in Seq(Digits)
        BY <1>3, <1>4, ConcatProperties
      <3>4. <<>> \o <<>> = <<>>
        BY EmptySeq, ConcatEmptySeq
      <3>5. only(t, Digits) = (<<>> \o <<>>) \o (code \o number)
        BY <2>5, <3>1, <3>2
      <3>6. QED BY <3>3, <3>4, <3>5, ConcatEmptySeq
    <2>7. had_plus(t) = TRUE
      <3> DEFINE B == X \ {Space}
                 r == only(rest, B)
      <3>1. squeeze(t) = only(t, B)
        BY <2>3, Squeezed
      <3>2. only(<<Space>>, B) = <<>> /\ only(<<"+">>, B) = <<"+">>
        <4>1. "+" \in B /\ Space \notin B
          BY SpellingAssumption DEF X
        <4> HIDE DEF B
        <4>2. QED BY <4>1, KeptOne
      <3>3. r \in Seq(X)
        BY <2>1, KeptType
      <3>4. <<>> \o <<"+">> = <<"+">>
        BY <2>1, ConcatEmptySeq
      <3> HIDE DEF B, r
      <3>5. squeeze(t) = <<"+">> \o r
        <4>1. only(t, B) = (<<>> \o <<"+">>) \o r
          BY <2>5, <3>2 DEF r
        <4>2. QED BY <3>1, <3>4, <4>1
      <3>6. <<"+">> \o r # <<>> /\ (<<"+">> \o r)[1] = "+"
        <4>1. Len(<<"+">>) = 1 /\ <<"+">>[1] = "+" /\ Len(r) \in Nat
          BY <3>3, LenProperties
        <4>2. /\ Len(<<"+">> \o r) = 1 + Len(r)
              /\ \A i \in 1..1 + Len(r) : (<<"+">> \o r)[i] = IF i <= 1 THEN <<"+">>[i] ELSE r[i - 1]
          BY <2>1, <3>3, <4>1, ConcatProperties
        <4> DEFINE all == <<"+">> \o r
        <4> HIDE DEF all
        <4>3. Len(all) # 0 /\ all[1] = "+"
          BY <4>1, <4>2 DEF all
        <4>4. QED BY <4>3, EmptySeq DEF all
      <3>7. QED BY <3>5, <3>6, Zenon DEF had_plus
    <2>8. normalize_phone(t) = Spelled(code \o number, TRUE)
      BY <2>3, <2>4, <2>6, <2>7, SpelledPlainly
    <2>9. QED BY <1>10, <2>2, <2>8 DEF mark
  <1>13. ASSUME NEW d \in Digits
         PROVE  normalize_phone(text \o <<Space, "x", Space, d>>) = whole
    BY <1>1, <1>2, <1>6, ExtensionLeft DEF Extended
  <1>14. QED BY <1>7, <1>8, <1>11, <1>12, <1>13 DEF whole, number, code

\* A number once spelled is spelled the same again.
LEMMA SpelledTwice ==
    ASSUME NEW S, NEW text \in Seq(S)
    PROVE  Idempotent(text)
  <1> DEFINE once == normalize_phone(text)
             D == Digits \cup {"+"}
  <1> SUFFICES ASSUME once # None PROVE normalize_phone(once) = once
    BY DEF Idempotent
  <1>1. PICK number \in Seq(Digits) : /\ once = canonical(number) /\ number # <<>>
                                      /\ Len(number) \in _MIN_DIGITS.._MAX_DIGITS
    BY SpelledDigits
  <1>2. once = <<"+">> \o number
    BY <1>1 DEF canonical
  <1>3. number \in Seq(D) /\ <<"+">> \in Seq(D) /\ once \in Seq(D)
    <2>1. number \in Seq(D) /\ <<"+">> \in Seq(D)
      BY SeqMonotonic
    <2>2. QED BY <1>2, <2>1, ConcatProperties
  <1>4. Len(once) = 1 + Len(number) /\ once[1] = "+" /\ Len(number) \in Nat
    <2>1. Len(<<"+">>) = 1 /\ <<"+">>[1] = "+" /\ Len(number) \in Nat
      BY LenProperties
    <2>2. QED BY <1>2, <1>3, <2>1, ConcatProperties
  <1> HIDE DEF once
  <1>5. ToSet(once) \subseteq D /\ "x" \notin D /\ Space \notin D
    BY <1>3, Members, SpellingAssumption
  <1>6. only(once, Digits) = number
    <2>1. only(once, Digits) = only(<<"+">>, Digits) \o only(number, Digits)
      BY <1>2, <1>3, KeptConcat
    <2>2. only(<<"+">>, Digits) = <<>>
      BY KeptOne, SpellingAssumption
    <2>3. only(number, Digits) = number
      BY Members, KeptWhole
    <2>4. QED BY <2>1, <2>2, <2>3, ConcatEmptySeq
  <1>7. had_plus(once)
    <2>1. squeeze(once) = once
      <3>1. ToSet(once) \subseteq ToSet(once) \ {Space}
        BY <1>5
      <3>2. QED BY <1>3, <3>1, KeptWhole DEF squeeze
    <2>2. once # <<>>
      BY <1>3, <1>4, EmptySeq
    <2>3. QED BY <1>4, <2>1, <2>2 DEF had_plus
  <1>8. normalize_phone(once) = Spelled(number, TRUE)
    BY <1>3, <1>5, <1>6, <1>7, SpelledPlainly
  <1>9. Spelled(number, TRUE) = canonical(number)
    BY <1>1 DEF Spelled
  <1>10. QED BY <1>1, <1>8, <1>9

-----------------------------------------------------------------------------
(* Rows of a sheet *)

\* A row as the API sends it, without its trailing blanks.
LEMMA RowSent ==
    ASSUME NEW S, NEW row \in Seq(S)
    PROVE  /\ trimmed(row) \in Seq(S) /\ Len(trimmed(row)) \in 0..Len(row)
           /\ \A n \in 1..Len(trimmed(row)) : trimmed(row)[n] = row[n]
           /\ \A n \in 1..Len(row) : row[n] # <<>> => n <= Len(trimmed(row))
  <1> DEFINE full == {n \in DOMAIN row : row[n] # <<>>}
             last == Max(full)
  <1>1. DOMAIN row = 1..Len(row) /\ Len(row) \in Nat
    BY LenProperties
  <1>2. CASE full = {}
    <2>1. trimmed(row) = <<>>
      BY <1>2 DEF trimmed
    <2>2. QED BY <1>1, <1>2, <2>1, EmptySeq
  <1>3. CASE full # {}
    <2>1. full \subseteq 1..Len(row)
      BY <1>1
    <2>2. trimmed(row) = SubSeq(row, 1, last)
      BY <1>3 DEF trimmed
    <2> HIDE DEF last
    <2>3. last \in 1..Len(row) /\ \A n \in full : n <= last
      <3> HIDE DEF full
      <3>1. last \in full /\ \A n \in full : last >= n
        BY <1>1, <1>3, <2>1, Extremes DEF last
      <3>2. QED BY <1>1, <2>1, <3>1
    <2>4. /\ SubSeq(row, 1, last) \in Seq(S) /\ Len(SubSeq(row, 1, last)) = last
          /\ \A n \in 1..last : SubSeq(row, 1, last)[n] = row[n]
      <3>1. \A n \in 1..last : row[n] \in S
        BY <1>1, <2>3
      <3>2. last \in Int /\ 1 \in Int /\ 1 <= last
        BY <2>3
      <3>3. QED BY <3>1, <3>2, SubSeqProperties
    <2>5. QED BY <1>1, <2>2, <2>3, <2>4
  <1>4. QED BY <1>2, <1>3

\* A cell holds what was written under its name, wherever the column is.
LEMMA CellRead ==
    ASSUME NEW S, NEW header \in Seq(S), NEW record, NEW column \in DOMAIN record,
           column \in ToSet(header), column \in CUSTOMER_COLUMNS \cup CLAIM_COLUMNS
    PROVE  _cell(trimmed(written(header, record)), index_header(header), column)
               = strip(record[column])
  <1> DEFINE Cell == {record[name] : name \in DOMAIN record} \cup {<<>>}
             row == written(header, record)
             places == {n \in DOMAIN header : header[n] = column}
             n == Max(places)
  <1>1. DOMAIN header = 1..Len(header) /\ Len(header) \in Nat
    BY LenProperties
  <1>2. row \in Seq(Cell) /\ Len(row) = Len(header)
    <2>1. row \in [1..Len(header) -> Cell]
      BY <1>1 DEF written
    <2> HIDE DEF Cell, row
    <2>2. QED BY <1>1, <2>1, PlacesFilled
  <1>3. \A i \in places : row[i] = record[column]
    BY DEF written
  <1>4. index_header(header)[column] = n
    BY DEF index_header, CUSTOMER_COLUMNS, CLAIM_COLUMNS
  <1>5. places \subseteq 1..Len(header) /\ places # {}
    BY <1>1 DEF ToSet
  <1> HIDE DEF places, row, Cell
  <1>6. n \in places
    BY <1>1, <1>5, Extremes
  <1> HIDE DEF n
  <1>7. n \in 1..Len(header) /\ row[n] = record[column]
    BY <1>3, <1>5, <1>6
  <1>8. /\ Len(trimmed(row)) \in Nat
        /\ n <= Len(trimmed(row)) => trimmed(row)[n] = row[n]
        /\ row[n] # <<>> => n <= Len(trimmed(row))
    <2>1. /\ Len(trimmed(row)) \in 0..Len(row)
          /\ \A i \in 1..Len(trimmed(row)) : trimmed(row)[i] = row[i]
          /\ \A i \in 1..Len(row) : row[i] # <<>> => i <= Len(trimmed(row))
      BY <1>2, RowSent
    <2>2. /\ Len(trimmed(row)) \in Nat /\ n \in 1..Len(row)
          /\ n <= Len(trimmed(row)) => n \in 1..Len(trimmed(row))
      BY <1>1, <1>2, <1>7, <2>1
    <2>3. QED BY <2>1, <2>2, Zenon
  <1>9. _cell(trimmed(row), index_header(header), column)
            = IF n <= Len(trimmed(row)) THEN strip(trimmed(row)[n]) ELSE <<>>
    BY <1>4 DEF _cell
  <1>10. QED BY <1>7, <1>8, <1>9, BlankStripped DEF row

\* The sheet, row by row.
LEMMA SheetWritten ==
    ASSUME NEW S, NEW header \in Seq(S), NEW R, NEW records \in Seq(R)
    PROVE  LET sheet == sheet_of(header, records) IN
           /\ sheet # <<>> /\ Head(sheet) = header
           /\ Len(sheet) - 1 = Len(records) /\ Len(records) \in Nat
           /\ \A n \in 1..Len(records) : sheet[n + 1] = trimmed(written(header, records[n]))
  <1> DEFINE rows == [n \in DOMAIN records |-> trimmed(written(header, records[n]))]
             Row == {header} \cup {rows[n] : n \in DOMAIN records}
             sheet == <<header>> \o rows
  <1>1. DOMAIN records = 1..Len(records) /\ Len(records) \in Nat
    BY LenProperties
  <1>2. rows \in Seq(Row) /\ Len(rows) = Len(records)
        /\ \A n \in 1..Len(records) : rows[n] = trimmed(written(header, records[n]))
    <2>1. rows \in [1..Len(records) -> Row]
      BY <1>1
    <2>2. \A n \in 1..Len(records) : rows[n] = trimmed(written(header, records[n]))
      BY <1>1
    <2> HIDE DEF Row, rows
    <2>3. QED BY <1>1, <2>1, <2>2, PlacesFilled
  <1> HIDE DEF rows
  <1>3. <<header>> \in Seq(Row) /\ Len(<<header>>) = 1 /\ <<header>>[1] = header
    OBVIOUS
  <1> HIDE DEF Row
  <1>4. /\ sheet \in Seq(Row) /\ Len(sheet) = 1 + Len(records)
        /\ sheet[1] = header
        /\ \A n \in 1..Len(records) : sheet[n + 1] = rows[n]
    <2>1. /\ sheet \in Seq(Row) /\ Len(sheet) = Len(<<header>>) + Len(rows)
          /\ \A i \in 1..Len(<<header>>) + Len(rows) :
                 sheet[i] = IF i <= Len(<<header>>) THEN <<header>>[i]
                            ELSE rows[i - Len(<<header>>)]
      BY <1>2, <1>3, ConcatProperties
    <2> HIDE DEF sheet
    <2>2. QED BY <1>1, <1>2, <1>3, <2>1
  <1>5. sheet_of(header, records) = sheet
    BY DEF sheet_of, rows
  <1> HIDE DEF sheet
  <1>6. sheet # <<>> /\ Head(sheet) = header
    <2>1. sheet # <<>>
      BY <1>1, <1>4, EmptySeq
    <2>2. QED BY <1>4, <2>1
  <1>7. QED BY <1>1, <1>2, <1>4, <1>5, <1>6

\* What is read of a customer's record, whatever the layout of the sheet.
ReadOff(record) ==
    LET number == normalize_phone(strip(record["phone_number"])) IN
    IF (\E c \in CUSTOMER_COLUMNS : strip(record[c]) = <<>>) \/ number = None THEN None
    ELSE [customer_id        |-> strip(record["customer_id"]),
          full_name          |-> strip(record["full_name"]),
          phone_number       |-> number,
          verification_value |-> strip(record["verification_value"])]

LEMMA RowRead ==
    ASSUME NEW S, NEW header \in Seq(S), CUSTOMER_COLUMNS \subseteq ToSet(header),
           NEW record, CUSTOMER_COLUMNS \subseteq DOMAIN record
    PROVE  parse_customer_row(trimmed(written(header, record)), index_header(header))
               = ReadOff(record)
  <1> DEFINE row == trimmed(written(header, record))
             index == index_header(header)
  <1>1. \A c \in CUSTOMER_COLUMNS : _cell(row, index, c) = strip(record[c])
    BY CellRead
  <1>2. /\ "customer_id" \in CUSTOMER_COLUMNS /\ "full_name" \in CUSTOMER_COLUMNS
        /\ "phone_number" \in CUSTOMER_COLUMNS /\ "verification_value" \in CUSTOMER_COLUMNS
    BY DEF CUSTOMER_COLUMNS
  <1> HIDE DEF row, index
  <1>3. blank(row, index, CUSTOMER_COLUMNS) <=> \E c \in CUSTOMER_COLUMNS : strip(record[c]) = <<>>
    BY <1>1 DEF blank
  <1>4. /\ _cell(row, index, "customer_id") = strip(record["customer_id"])
        /\ _cell(row, index, "full_name") = strip(record["full_name"])
        /\ _cell(row, index, "phone_number") = strip(record["phone_number"])
        /\ _cell(row, index, "verification_value") = strip(record["verification_value"])
    BY <1>1, <1>2
  <1>5. parse_customer_row(row, index) = ReadOff(record)
    BY <1>3, <1>4, Zenon DEF parse_customer_row, ReadOff
  <1>6. QED BY <1>5 DEF row, index

\* The customers of a sheet, whatever the order of its columns.
LEMMA CustomersRead ==
    ASSUME NEW S, NEW header \in Seq(S), CUSTOMER_COLUMNS \subseteq ToSet(header),
           NEW R, \A r \in R : CUSTOMER_COLUMNS \subseteq DOMAIN r, NEW records \in Seq(R)
    PROVE  customers_in(sheet_of(header, records))
               = parsed([n \in 1..Len(records) |-> ReadOff(records[n])])
  <1> DEFINE sheet == sheet_of(header, records)
             index == index_header(header)
  <1>1. /\ sheet # <<>> /\ Head(sheet) = header /\ Len(sheet) - 1 = Len(records)
        /\ \A n \in 1..Len(records) : sheet[n + 1] = trimmed(written(header, records[n]))
    BY SheetWritten
  <1>2. \A n \in 1..Len(records) : records[n] \in R
    BY ElementOfSeq
  <1> HIDE DEF sheet
  <1>3. \A n \in 1..Len(records) : parse_customer_row(sheet[n + 1], index) = ReadOff(records[n])
    BY <1>1, <1>2, RowRead
  <1>4. ~unreadable(sheet, CUSTOMER_COLUMNS)
    BY <1>1 DEF unreadable
  <1>5. customers_in(sheet)
            = parsed([n \in 1..Len(sheet) - 1 |-> parse_customer_row(sheet[n + 1], index)])
    BY <1>1, <1>4, Zenon DEF customers_in
  <1> HIDE DEF index
  <1>6. [n \in 1..Len(sheet) - 1 |-> parse_customer_row(sheet[n + 1], index)]
            = [n \in 1..Len(records) |-> ReadOff(records[n])]
    BY <1>1, <1>3
  <1>7. QED BY <1>5, <1>6 DEF sheet

\* A sheet answers as any other with the same records, by whatever columns.
LEMMA ColumnsMove ==
    ASSUME NEW S, NEW header \in Seq(S), CUSTOMER_COLUMNS \subseteq ToSet(header),
           NEW plain \in Seq(S), CUSTOMER_COLUMNS \subseteq ToSet(plain),
           NEW R, \A r \in R : CUSTOMER_COLUMNS \subseteq DOMAIN r, NEW records \in Seq(R),
           NEW phones, NEW answers
    PROVE  ColumnsMayMove(header, plain, records, phones, answers)
  <1> DEFINE moved == sheet_of(header, records)
             still == sheet_of(plain, records)
             rows == parsed([n \in 1..Len(records) |-> ReadOff(records[n])])
  <1>1. customers_in(moved) = rows /\ customers_in(still) = rows
    BY CustomersRead
  <1> HIDE DEF moved, still, rows
  <1>2. \A phone : lookup_customer_by_phone(moved, phone) = lookup_customer_by_phone(still, phone)
    BY <1>1, Zenon DEF lookup_customer_by_phone
  <1>3. \A id, answer : verify_customer(moved, id, answer) = verify_customer(still, id, answer)
    BY <1>1, Zenon DEF verify_customer
  <1>4. QED BY <1>2, <1>3, Zenon DEF ColumnsMayMove, moved, still

\* Everybody's cells are over the symbols.
CustomerRecord(record) ==
    CUSTOMER_COLUMNS \subseteq DOMAIN record /\ \A c \in CUSTOMER_COLUMNS : record[c] \in Seq(Symbols)

\* A record is read off as a row just when it is usable.
LEMMA UsableRead ==
    ASSUME NEW record, CustomerRecord(record)
    PROVE  /\ usable(record) => /\ ReadOff(record) \in CustomerRows
                                /\ ReadOff(record).customer_id = strip(record.customer_id)
                                /\ ReadOff(record).phone_number = normalize_phone(record.phone_number)
           /\ ~usable(record) => ReadOff(record) = None
  <1>1. \A c \in CUSTOMER_COLUMNS : /\ record[c] \in Seq(Symbols)
                                    /\ strip(record[c]) \in Seq(Symbols)
    BY Stripped DEF CustomerRecord
  <1>2. /\ "customer_id" \in CUSTOMER_COLUMNS /\ "full_name" \in CUSTOMER_COLUMNS
        /\ "phone_number" \in CUSTOMER_COLUMNS /\ "verification_value" \in CUSTOMER_COLUMNS
    BY DEF CUSTOMER_COLUMNS
  <1> DEFINE number == normalize_phone(record["phone_number"])
  <1>3. normalize_phone(strip(record["phone_number"])) = number
    <2>1. strip(strip(record["phone_number"])) = strip(record["phone_number"])
      BY <1>1, <1>2, StrippedTwice
    <2>2. QED BY <2>1, Zenon DEF normalize_phone
  <1>4. number = None \/ number \in Seq(Symbols)
    <2> SUFFICES ASSUME number # None PROVE number \in Seq(Symbols)
      OBVIOUS
    <2>1. PICK digits \in Seq(Digits) : number = canonical(digits)
      BY <1>1, <1>2, SpelledDigits
    <2>2. Digits \subseteq Symbols /\ "+" \in Symbols
      BY Zenon DEF Symbols
    <2>3. digits \in Seq(Symbols) /\ <<"+">> \in Seq(Symbols)
      BY <2>2, SeqMonotonic
    <2>4. QED BY <2>1, <2>3, ConcatProperties DEF canonical
  <1> HIDE DEF number
  <1>5. usable(record) <=> ~ ((\E c \in CUSTOMER_COLUMNS : strip(record[c]) = <<>>) \/ number = None)
    BY Zenon DEF usable, number
  <1> DEFINE row == [customer_id        |-> strip(record["customer_id"]),
                     full_name          |-> strip(record["full_name"]),
                     phone_number       |-> number,
                     verification_value |-> strip(record["verification_value"])]
  <1>6. ReadOff(record) = IF usable(record) THEN row ELSE None
    BY <1>3, <1>5, Zenon DEF ReadOff
  <1>7. usable(record) => row \in CustomerRows
    <2>1. usable(record) => number \in Seq(Symbols)
      BY <1>4, <1>5
    <2>2. QED BY <1>1, <1>2, <2>1 DEF CustomerRows
  <1>8. row.customer_id = strip(record["customer_id"]) /\ row.phone_number = number
    OBVIOUS
  <1> HIDE DEF row
  <1>9. QED BY <1>6, <1>7, <1>8 DEF number

\* Whoever has a usable row is found, by his number, as the first who has it.
LEMMA NobodyHidden ==
    ASSUME NEW S, NEW header \in Seq(S), CUSTOMER_COLUMNS \subseteq ToSet(header),
           NEW R, \A r \in R : CustomerRecord(r), NEW records \in Seq(R), NEW phones
    PROVE  BadRowHidesNobody(header, records, phones)
  <1> DEFINE N == Len(records)
             rows == [n \in 1..N |-> ReadOff(records[n])]
             kept == parsed(rows)
             X == CustomerRows \cup {None}
             sheet == sheet_of(header, records)
  <1>1. N \in Nat /\ DOMAIN records = 1..N /\ \A n \in 1..N : CustomerRecord(records[n])
    BY LenProperties, ElementOfSeq
  <1>2. rows \in Seq(X) /\ Len(rows) = N
    <2>1. \A n \in 1..N : ReadOff(records[n]) \in X
      BY <1>1, UsableRead
    <2> HIDE DEF X, N
    <2>2. rows \in [1..N -> X]
      BY <2>1
    <2> HIDE DEF rows
    <2>3. QED BY <1>1, <2>2, PlacesFilled
  <1>3. customers_in(sheet) = kept
    <2>1. \A r \in R : CUSTOMER_COLUMNS \subseteq DOMAIN r
      BY DEF CustomerRecord
    <2>2. QED BY <2>1, CustomersRead
  <1>4. \A n \in 1..N : rows[n] = ReadOff(records[n])
    OBVIOUS
  <1> HIDE DEF rows, sheet
  <1>5. kept \in Seq(CustomerRows) /\ ToSet(kept) = ToSet(rows) \ {None} /\ kept # None
    <2>1. ToSet(kept) = ToSet(rows) \cap (ToSet(rows) \ {None})
      BY <1>2, KeptMembers DEF parsed
    <2>2. kept \in Seq(ToSet(rows) \ {None})
      BY <1>2, KeptOnly DEF parsed
    <2>3. ToSet(rows) \ {None} \subseteq CustomerRows
      BY <1>2, Members
    <2>4. kept \in Seq(CustomerRows)
      BY <2>2, <2>3, SeqMonotonic
    <2>5. QED BY <2>1, <2>4, RowsAreTold
  <1>6. kept = only(rows, ToSet(rows) \ {None})
    BY DEF parsed
  <1> HIDE DEF kept
  <1>7. Len(kept) \in Nat /\ DOMAIN kept = 1..Len(kept)
    BY <1>5, LenProperties
  <1>8. DOMAIN rows = 1..N
    BY <1>2, LenProperties
  <1> SUFFICES ASSUME NEW phone \in phones, normalize_phone(phone) # None
               PROVE  LET number == normalize_phone(phone)
                          owners == {n \in DOMAIN records :
                                        usable(records[n])
                                        /\ normalize_phone(records[n].phone_number) = number}
                          answer == lookup_customer_by_phone(sheet, phone)
                      IN  IF owners = {} THEN answer.outcome = "CUSTOMER_NOT_FOUND"
                          ELSE /\ answer.outcome = "CUSTOMER_FOUND"
                               /\ answer.customer.customer_id = strip(records[Min(owners)].customer_id)
    BY Zenon DEF BadRowHidesNobody, sheet
  <1> DEFINE number == normalize_phone(phone)
             owners == {n \in DOMAIN records :
                           usable(records[n])
                           /\ normalize_phone(records[n].phone_number) = number}
             answer == lookup_customer_by_phone(sheet, phone)
             C == {row \in ToSet(rows) : row # None /\ row.phone_number = number}
             found == {n \in DOMAIN kept : kept[n].phone_number = number}
             match == first(kept, found)
  <1>9. answer = IF match = None
                 THEN CustomerResult("CUSTOMER_NOT_FOUND", None, "NO_MATCHING_RECORD")
                 ELSE CustomerResult("CUSTOMER_FOUND", to_customer(match), None)
    BY <1>3, <1>5, Zenon DEF lookup_customer_by_phone
  <1> HIDE DEF number, answer, match
  <1>10. \A n \in 1..N : rows[n] \in C <=> n \in owners
    <2>1. \A n \in 1..N : rows[n] \in ToSet(rows)
      BY <1>8 DEF ToSet
    <2>2. ASSUME NEW n \in 1..N
          PROVE  /\ usable(records[n]) => /\ rows[n] # None
                                          /\ rows[n].phone_number
                                                 = normalize_phone(records[n].phone_number)
                 /\ ~usable(records[n]) => rows[n] = None
      BY <1>1, <1>4, UsableRead, RowsAreTold
    <2>3. QED BY <1>1, <2>1, <2>2
  <1>11. \A m \in 1..Len(kept) : kept[m] \in C <=> m \in found
    <2>1. \A m \in 1..Len(kept) : kept[m] \in ToSet(rows) /\ kept[m] # None
      BY <1>5, <1>7 DEF ToSet
    <2>2. QED BY <1>7, <2>1
  <1>12. owners \subseteq 1..N /\ found \subseteq 1..Len(kept)
    BY <1>1, <1>7
  <1> HIDE DEF owners, found
  <1>13. CASE owners = {}
    <2>1. found = {}
      <3> SUFFICES ASSUME NEW m \in found PROVE FALSE
        OBVIOUS
      <3>1. kept[m] \in C
        BY <1>11, <1>12
      <3>2. PICK n \in 1..N : rows[n] = kept[m]
        BY <1>8, <3>1 DEF ToSet
      <3>3. QED BY <1>10, <1>13, <3>1, <3>2
    <2>2. match = None
      BY <2>1 DEF match, first
    <2>3. answer.outcome = "CUSTOMER_NOT_FOUND"
      BY <1>9, <2>2 DEF CustomerResult
    <2>4. QED BY <1>13, <2>3 DEF owners, answer, number
  <1>14. CASE owners # {}
    <2> DEFINE o == Min(owners)
    <2>1. o \in owners /\ \A n \in owners : o <= n
      BY <1>1, <1>12, <1>14, Extremes
    <2> HIDE DEF o
    <2>2. o \in 1..N /\ FirstAt(rows, o, C)
      <3>1. o \in 1..N /\ rows[o] \in C
        BY <1>10, <1>12, <2>1
      <3>2. ASSUME NEW i \in 1..(o - 1) PROVE rows[i] \notin C
        <4>1. i \in 1..N /\ i \notin owners
          BY <1>1, <2>1, <3>1
        <4>2. QED BY <1>10, <4>1
      <3>3. QED BY <1>2, <3>1, <3>2 DEF FirstAt
    <2>3. PICK m \in 1..Len(kept) : FirstAt(kept, m, C) /\ kept[m] = rows[o]
      <3>1. C \subseteq ToSet(rows) \ {None}
        OBVIOUS
      <3> HIDE DEF C
      <3>2. QED BY <1>2, <1>6, <2>2, <3>1, FirstIsKept
    <2>4. m \in found /\ \A i \in found : m <= i
      <3>1. m \in found
        BY <1>11, <2>3 DEF FirstAt
      <3>2. ASSUME NEW i \in found PROVE ~(i < m)
        <4>1. i \in 1..Len(kept) /\ kept[i] \in C
          BY <1>11, <1>12
        <4>2. i < m => i \in 1..(m - 1)
          BY <1>7, <4>1
        <4>3. QED BY <2>3, <4>1, <4>2 DEF FirstAt
      <3>3. QED BY <1>7, <1>12, <3>1, <3>2
    <2>5. Min(found) = m
      <3> DEFINE lo == Min(found)
      <3>1. lo \in found /\ \A i \in found : lo <= i
        BY <1>7, <1>12, <2>4, Extremes
      <3> HIDE DEF lo
      <3>2. lo \in Nat /\ m \in Nat /\ lo <= m /\ m <= lo
        BY <1>7, <1>12, <2>4, <3>1
      <3>3. lo = m
        BY <3>2
      <3>4. QED BY <3>3 DEF lo
    <2>6. match = rows[o]
      <3>1. found # {}
        BY <2>4
      <3>2. QED BY <2>3, <2>5, <3>1 DEF match, first
    <2>7. usable(records[o])
      BY <2>1 DEF owners
    <2>8. match # None /\ match.customer_id = strip(records[o].customer_id)
      BY <1>1, <1>4, <2>2, <2>6, <2>7, UsableRead, RowsAreTold
    <2>9. answer = CustomerResult("CUSTOMER_FOUND", to_customer(match), None)
      BY <1>9, <2>8
    <2>10. /\ answer.outcome = "CUSTOMER_FOUND"
           /\ answer.customer.customer_id = match.customer_id
      BY <2>9 DEF CustomerResult, to_customer
    <2>11. QED BY <1>14, <2>8, <2>10 DEF owners, answer, number, o
  <1>15. QED BY <1>13, <1>14 DEF number

\* A header with one more column.
LEMMA OneMoreColumn ==
    ASSUME NEW S, NEW header \in Seq(S), NEW x \in S
    PROVE  /\ <<x>> \o header \in Seq(S) /\ ToSet(header) \subseteq ToSet(<<x>> \o header)
           /\ header \o <<x>> \in Seq(S) /\ ToSet(header) \subseteq ToSet(header \o <<x>>)
  <1>1. <<x>> \in Seq(S)
    OBVIOUS
  <1>2. /\ ToSet(<<x>> \o header) = ToSet(<<x>>) \cup ToSet(header)
        /\ ToSet(header \o <<x>>) = ToSet(header) \cup ToSet(<<x>>)
    BY <1>1, Members
  <1>3. QED BY <1>1, <1>2, ConcatProperties

Name == CUSTOMER_COLUMNS \cup {"", "notes"}

\* The sheets that are read: every column is there.
LEMMA SheetsPicked ==
    /\ Plain \in Seq(Name) /\ CUSTOMER_COLUMNS \subseteq ToSet(Plain)
    /\ \A plain \in Headers(Plain) : \A header \in Noted(plain) :
           header \in Seq(Name) /\ CUSTOMER_COLUMNS \subseteq ToSet(header)
    /\ \A r \in Records : CUSTOMER_COLUMNS \subseteq DOMAIN r
  <1> DEFINE S == CUSTOMER_COLUMNS \cup {"notes"}
  <1>1. Plain \in Seq(S) /\ ToSet(Plain) = CUSTOMER_COLUMNS /\ Len(Plain) = 4
    <2>1. /\ Plain \in Seq(S) /\ Len(Plain) = 4
      BY DEF Plain, CUSTOMER_COLUMNS
    <2>2. /\ Plain[1] = "customer_id" /\ Plain[2] = "full_name"
          /\ Plain[3] = "phone_number" /\ Plain[4] = "verification_value"
      BY DEF Plain
    <2>3. DOMAIN Plain = 1..4
      BY <2>1, LenProperties
    <2>4. QED BY <2>1, <2>2, <2>3 DEF ToSet, CUSTOMER_COLUMNS
  <1>2. S \subseteq Name /\ "" \in Name /\ "notes" \in Name
    BY Zenon DEF Name
  <1>3. Plain \in Seq(Name)
    BY <1>1, <1>2, SeqMonotonic
  <1>4. ASSUME NEW plain \in Headers(Plain)
        PROVE  plain \in Seq(Name) /\ CUSTOMER_COLUMNS \subseteq ToSet(plain)
    <2>1. plain \in [1..4 -> CUSTOMER_COLUMNS] /\ ToSet(plain) = CUSTOMER_COLUMNS
      BY <1>1, Zenon DEF Headers
    <2>2. plain \in Seq(CUSTOMER_COLUMNS)
      BY <2>1, PlacesFilled
    <2>3. CUSTOMER_COLUMNS \subseteq Name
      BY Zenon DEF Name
    <2>4. QED BY <2>1, <2>2, <2>3, SeqMonotonic
  <1>5. ASSUME NEW plain \in Headers(Plain), NEW header \in Noted(plain)
        PROVE  header \in Seq(Name) /\ CUSTOMER_COLUMNS \subseteq ToSet(header)
    <2>1. \/ header = plain
          \/ header = <<"">> \o plain
          \/ header = plain \o <<"notes">>
      BY Zenon DEF Noted
    <2>2. plain \in Seq(Name) /\ CUSTOMER_COLUMNS \subseteq ToSet(plain)
      BY <1>4
    <2>3. /\ <<"">> \o plain \in Seq(Name) /\ ToSet(plain) \subseteq ToSet(<<"">> \o plain)
          /\ plain \o <<"notes">> \in Seq(Name)
          /\ ToSet(plain) \subseteq ToSet(plain \o <<"notes">>)
      BY <1>2, <2>2, OneMoreColumn, Zenon
    <2>4. QED BY <2>1, <2>2, <2>3, Zenon
  <1>6. ASSUME NEW r \in Records PROVE CUSTOMER_COLUMNS \subseteq DOMAIN r
    BY DEF Records, Rows, CUSTOMER_COLUMNS
  <1>7. QED BY <1>1, <1>3, <1>4, <1>5, <1>6, Zenon

\* The records that are read are over the symbols.
LEMMA CellsPicked == \A r \in Records : CustomerRecord(r)
  <1> DEFINE Cells == {<<"c1">>, <<"c2", Space>>, <<>>, <<"n">>, <<"v", "w">>, <<Space>>}
                          \cup Phones
  <1>1. {"+", "x", Space} \cup {"1", "5", "c1", "c2", "n", "v", "w"} \subseteq Symbols
    BY Zenon DEF Symbols
  <1>2. /\ "+" \in Symbols /\ Space \in Symbols /\ "1" \in Symbols /\ "5" \in Symbols
        /\ "c1" \in Symbols /\ "c2" \in Symbols /\ "n" \in Symbols /\ "v" \in Symbols
        /\ "w" \in Symbols
    BY <1>1, Zenon
  <1>3. Cells \subseteq Seq(Symbols)
    BY <1>2 DEF Phones
  <1> HIDE DEF Cells
  <1>4. ASSUME NEW r \in Records, NEW c \in CUSTOMER_COLUMNS
        PROVE  c \in DOMAIN r /\ r[c] \in Cells
    <2>1. PICK ids \in SUBSET Cells, values \in SUBSET Cells :
              r \in Rows(ids, Phones, values)
      BY DEF Records, Rows, Cells, Phones
    <2>2. <<"n">> \in Cells /\ Phones \subseteq Cells
      BY DEF Cells
    <2> HIDE DEF Cells
    <2>3. QED BY <2>1, <2>2 DEF Rows, CUSTOMER_COLUMNS
  <1>5. QED BY <1>3, <1>4 DEF CustomerRecord

-----------------------------------------------------------------------------
(* Claims *)

\* A day of the calendar has a month and a date, and these say which it is.
LEMMA DayWritten ==
    ASSUME NEW d \in 1..Months * Days
    PROVE  LET month == 1 + (d - 1) \div Days
               date  == 1 + ((d - 1) % Days)
           IN  month \in 1..Months /\ date \in 1..Days /\ day(month, date) = d
  <1> DEFINE q == (d - 1) \div Days
             r == (d - 1) % Days
  <1>1. Months \in Nat /\ Days \in Nat /\ Months * Days \in Nat
    BY CalendarAssumption
  <1>2. d - 1 \in Nat /\ d - 1 < Months * Days /\ Days > 0
    BY <1>1
  <1>3. q \in Nat /\ r \in 0..Days - 1 /\ q * Days + r = d - 1
    BY <1>1, <1>2
  <1> HIDE DEF q, r
  <1>4. q < Months
    <2> SUFFICES ASSUME q >= Months PROVE FALSE
      BY <1>1, <1>3
    <2>1. q * Days >= Months * Days
      BY <1>1, <1>3
    <2>2. q * Days \in Nat
      BY <1>1, <1>3
    <2>3. QED BY <1>1, <1>2, <1>3, <2>1, <2>2
  <1>5. 1 + q \in 1..Months /\ 1 + r \in 1..Days
    BY <1>1, <1>3, <1>4
  <1>6. day(1 + q, 1 + r) = d
    <2>1. 1 + q - 1 = q /\ q * Days \in Nat
      BY <1>1, <1>3
    <2>2. (1 + q - 1) * Days + (1 + r) = q * Days + r + 1
      BY <1>1, <1>3, <2>1
    <2>3. QED BY <1>1, <1>3, <2>2 DEF day
  <1>7. QED BY <1>5, <1>6 DEF q, r

\* What is on the sheet of a day, or of none, in a locale.
WrittenDate(locale, d) ==
    IF d = NoDate THEN <<>>
    ELSE date_cell(locale, 1 + (d - 1) \div Days, 1 + ((d - 1) % Days))

\* It is read as that day, except where the month is written first.
LEMMA DateRead ==
    ASSUME NEW locale \in {"iso", "day_first"}, NEW d \in 0..Months * Days
    PROVE  parse_date(strip(WrittenDate(locale, d))) = d
  <1>1. CASE d = 0
    <2>1. strip(WrittenDate(locale, d)) = <<>>
      BY <1>1, BlankStripped DEF WrittenDate, NoDate
    <2>2. Len(<<>>) # 3
      OBVIOUS
    <2>3. parse_date(<<>>) = NoDate
      BY <2>2 DEF parse_date
    <2>4. QED BY <1>1, <2>1, <2>3 DEF NoDate
  <1>2. CASE d # 0
    <2> DEFINE month == 1 + (d - 1) \div Days
               date == 1 + ((d - 1) % Days)
    <2>1. Months \in Nat /\ Days \in Nat /\ Months * Days \in Nat
      BY CalendarAssumption
    <2>2. d \in 1..Months * Days
      BY <1>2, <2>1
    <2>3. month \in 1..Months /\ date \in 1..Days /\ day(month, date) = d
      BY <2>2, DayWritten
    <2>4. WrittenDate(locale, d) = date_cell(locale, month, date)
      BY <1>2 DEF WrittenDate, NoDate
    <2> HIDE DEF month, date
    <2>5. month \in Nat /\ date \in Nat /\ date <= Days /\ month <= Months
      BY <2>1, <2>3
    <2>6. Space # month /\ Space # date /\ Space # "iso" /\ Space # "slash"
      BY <2>5, ClaimsAreWritten
    <2>7. CASE locale = "iso"
      <3> DEFINE cell == <<"iso", month, date>>
      <3>1. /\ cell \in Seq(Nat \cup {"iso"}) /\ Len(cell) = 3 /\ cell # <<>>
            /\ cell[1] = "iso" /\ cell[2] = month /\ cell[3] = date
        BY <2>5
      <3>2. WrittenDate(locale, d) = cell
        BY <2>4, <2>7 DEF date_cell
      <3> HIDE DEF cell
      <3>3. strip(cell) = cell
        BY <2>6, <3>1, NothingToStrip
      <3>4. parse_date(cell) = day(month, date)
        BY <3>1 DEF parse_date
      <3>5. QED BY <2>3, <3>2, <3>3, <3>4
    <2>8. CASE locale = "day_first"
      <3> DEFINE cell == <<"slash", date, month>>
      <3>1. /\ cell \in Seq(Nat \cup {"slash"}) /\ Len(cell) = 3 /\ cell # <<>>
            /\ cell[1] = "slash" /\ cell[2] = date /\ cell[3] = month
        BY <2>5
      <3>2. WrittenDate(locale, d) = cell
        BY <2>4, <2>8 DEF date_cell
      <3> HIDE DEF cell
      <3>3. strip(cell) = cell
        BY <2>6, <3>1, NothingToStrip
      <3>4. parse_date(cell) = day(month, date)
        BY <2>5, <3>1 DEF parse_date
      <3>5. QED BY <2>3, <3>2, <3>3, <3>4
    <2>9. QED BY <2>7, <2>8
  <1>3. QED BY <1>1, <1>2

Filed == CHOOSE s \in ClaimStatus : TRUE

\* The n-th claim as it is written on the sheet, and as it is read.
WrittenClaim(locale, owner, n, d) ==
    [claim_id |-> <<n>>, customer_id |-> owner, status |-> <<Filed>>,
     required_documents |-> <<>>, last_updated |-> WrittenDate(locale, d)]

ReadClaim(owner, n, d) ==
    [claim_id |-> <<n>>, customer_id |-> owner, status |-> Filed, last_updated |-> d]

LEMMA ClaimRead ==
    ASSUME NEW S, NEW header \in Seq(S), CLAIM_COLUMNS \subseteq ToSet(header),
           NEW locale \in {"iso", "day_first"}, NEW n \in Nat, NEW d \in 0..Months * Days,
           NEW owner, owner # <<>>, strip(owner) = owner
    PROVE  parse_claim_row(trimmed(written(header, WrittenClaim(locale, owner, n, d))),
                           index_header(header)) = ReadClaim(owner, n, d)
  <1> DEFINE record == WrittenClaim(locale, owner, n, d)
             row == trimmed(written(header, record))
             index == index_header(header)
  <1>1. /\ DOMAIN record = CLAIM_COLUMNS
        /\ record["claim_id"] = <<n>> /\ record["customer_id"] = owner
        /\ record["status"] = <<Filed>>
        /\ record["last_updated"] = WrittenDate(locale, d)
    BY DEF WrittenClaim, CLAIM_COLUMNS
  <1> HIDE DEF record
  <1>2. \A c \in CLAIM_COLUMNS : _cell(row, index, c) = strip(record[c])
    BY <1>1, CellRead
  <1>3. Filed \in ClaimStatus /\ Space # Filed /\ Space # n
    BY ClaimsAreWritten DEF Filed
  <1>4. strip(<<n>>) = <<n>> /\ strip(<<Filed>>) = <<Filed>>
    <2>1. /\ <<n>> \in Seq({n}) /\ Len(<<n>>) = 1 /\ <<n>>[1] = n
          /\ <<Filed>> \in Seq({Filed}) /\ Len(<<Filed>>) = 1 /\ <<Filed>>[1] = Filed
      OBVIOUS
    <2>2. QED BY <1>3, <2>1, NothingToStrip
  <1>5. /\ "claim_id" \in CLAIM_COLUMNS /\ "customer_id" \in CLAIM_COLUMNS
        /\ "status" \in CLAIM_COLUMNS /\ "last_updated" \in CLAIM_COLUMNS
    BY DEF CLAIM_COLUMNS
  <1> HIDE DEF row, index
  <1>6. /\ _cell(row, index, "claim_id") = <<n>> /\ _cell(row, index, "customer_id") = owner
        /\ _cell(row, index, "status") = <<Filed>>
        /\ _cell(row, index, "last_updated") = strip(WrittenDate(locale, d))
    BY <1>1, <1>2, <1>4, <1>5
  <1>7. parse_date(strip(WrittenDate(locale, d))) = d
    BY DateRead
  <1>8. ~blank(row, index, {"claim_id", "customer_id", "status"})
    <2>1. <<n>> # <<>> /\ <<Filed>> # <<>>
      OBVIOUS
    <2>2. QED BY <1>6, <2>1 DEF blank
  <1>9. <<Filed>>[1] = Filed
    OBVIOUS
  <1>10. parse_claim_row(row, index) = ReadClaim(owner, n, d)
    BY <1>3, <1>6, <1>7, <1>8, <1>9, Zenon DEF parse_claim_row, ReadClaim
  <1>11. QED BY <1>10 DEF row, index, record

WrittenClaims(locale, owner, dates) ==
    [n \in DOMAIN dates |-> WrittenClaim(locale, owner, n, dates[n])]

ReadClaims(owner, dates, k) == [n \in 1..k |-> ReadClaim(owner, n, dates[n])]

\* The claims of a sheet that holds some customer's only.
LEMMA ClaimsRead ==
    ASSUME NEW S, NEW header \in Seq(S), CLAIM_COLUMNS \subseteq ToSet(header),
           NEW locale \in {"iso", "day_first"}, NEW k \in Nat,
           NEW dates \in [1..k -> 0..Months * Days],
           NEW owner \in Seq(Symbols), owner # <<>>, strip(owner) = owner
    PROVE  /\ claims_in(sheet_of(header, WrittenClaims(locale, owner, dates)))
                  = ReadClaims(owner, dates, k)
           /\ ReadClaims(owner, dates, k) \in Seq(ClaimRows)
           /\ Len(ReadClaims(owner, dates, k)) = k
  <1> DEFINE records == [n \in DOMAIN dates |-> WrittenClaim(locale, owner, n, dates[n])]
             claims == [n \in 1..k |-> ReadClaim(owner, n, dates[n])]
             R == {records[n] : n \in 1..k}
             sheet == sheet_of(header, records)
             index == index_header(header)
  <1>1. \A n \in 1..k : n \in Nat /\ dates[n] \in 0..Months * Days
    OBVIOUS
  <1>2. \A n \in 1..k : records[n] = WrittenClaim(locale, owner, n, dates[n])
    OBVIOUS
  <1>3. records \in Seq(R) /\ Len(records) = k
    <2>1. records \in [1..k -> R]
      OBVIOUS
    <2> HIDE DEF R, records
    <2>2. QED BY <2>1, PlacesFilled
  <1> HIDE DEF records
  <1>4. /\ sheet # <<>> /\ Head(sheet) = header /\ Len(sheet) - 1 = k
        /\ \A n \in 1..k : sheet[n + 1] = trimmed(written(header, records[n]))
    <2> HIDE DEF R
    <2>1. QED BY <1>3, SheetWritten
  <1> HIDE DEF sheet, R
  <1>5. \A n \in 1..k : parse_claim_row(sheet[n + 1], index) = ReadClaim(owner, n, dates[n])
    BY <1>1, <1>2, <1>4, ClaimRead
  <1>6. ~unreadable(sheet, CLAIM_COLUMNS)
    BY <1>4 DEF unreadable
  <1>7. claims_in(sheet)
            = parsed([n \in 1..Len(sheet) - 1 |-> parse_claim_row(sheet[n + 1], index)])
    BY <1>4, <1>6, Zenon DEF claims_in
  <1> HIDE DEF index
  <1>8. [n \in 1..Len(sheet) - 1 |-> parse_claim_row(sheet[n + 1], index)] = claims
    BY <1>4, <1>5
  <1>9. claims \in Seq(ClaimRows) /\ Len(claims) = k
    <2>1. ASSUME NEW n \in 1..k PROVE ReadClaim(owner, n, dates[n]) \in ClaimRows
      <3>1. Months * Days \in Nat
        BY CalendarAssumption
      <3>2. <<n>> \in Seq(Nat) /\ dates[n] \in Nat /\ Filed \in ClaimStatus
        BY <1>1, <3>1, ClaimsAreWritten DEF Filed
      <3>3. QED BY <3>2 DEF ReadClaim, ClaimRows
    <2>2. claims \in [1..k -> ClaimRows]
      BY <2>1
    <2> HIDE DEF claims
    <2>3. QED BY <2>2, PlacesFilled
  <1> HIDE DEF claims
  <1>10. parsed(claims) = claims
    <2>1. ToSet(claims) \subseteq ToSet(claims) \ {None}
      BY <1>9, Members, RowsAreTold
    <2>2. QED BY <1>9, <2>1, KeptWhole DEF parsed
  <1>11. claims_in(sheet) = claims
    BY <1>7, <1>8, <1>10
  <1>12. QED BY <1>9, <1>11 DEF claims, sheet, records, WrittenClaims, ReadClaims

\* Of these, the claim updated last is told.
LEMMA LatestTold ==
    ASSUME NEW S, NEW header \in Seq(S), CLAIM_COLUMNS \subseteq ToSet(header),
           NEW locale \in {"iso", "day_first"}, NEW k \in Nat,
           NEW dates \in [1..k -> 0..Months * Days],
           NEW owner \in Seq(Symbols), owner # <<>>, strip(owner) = owner
    PROVE  LatestIsTold(header, locale, dates, owner)
  <1> DEFINE records == WrittenClaims(locale, owner, dates)
             claims == ReadClaims(owner, dates, k)
             sheet == sheet_of(header, records)
             answer == get_claim_for_customer(sheet, owner)
  <1>1. claims_in(sheet) = claims /\ claims \in Seq(ClaimRows) /\ Len(claims) = k
    BY ClaimsRead
  <1>2. \A n \in 1..k : /\ claims[n].customer_id = owner /\ claims[n].claim_id = <<n>>
                        /\ claims[n].last_updated = dates[n]
    BY DEF ReadClaims, ReadClaim
  <1> SUFFICES ASSUME dates # <<>>
               PROVE  /\ answer.outcome = "CLAIM_FOUND"
                      /\ \A n \in DOMAIN dates : dates[answer.claim.claim_id[1]] >= dates[n]
    BY DEF LatestIsTold, WrittenClaims, WrittenClaim, WrittenDate, Filed
  <1> HIDE DEF claims, records, sheet
  <1>3. k > 0 /\ DOMAIN claims = 1..k
    <2>1. dates \in Seq(0..Months * Days) /\ Len(dates) = k
      BY PlacesFilled
    <2>2. QED BY <1>1, <2>1, LenProperties, EmptySeq
  <1> DEFINE latest == Max({claims[n].last_updated : n \in DOMAIN claims})
             lasts == {n \in DOMAIN claims : claims[n].last_updated = latest}
             m == Min(lasts)
  <1>4. lasts # {} /\ \A n \in 1..k : latest >= dates[n]
    <2> DEFINE T == {claims[n].last_updated : n \in DOMAIN claims}
    <2>1. T \subseteq 0..Months * Days /\ T # {}
      <3>1. 1 \in DOMAIN claims
        BY <1>3
      <3>2. \A n \in DOMAIN claims : claims[n].last_updated \in 0..Months * Days
        BY <1>2, <1>3
      <3>3. QED BY <3>1, <3>2
    <2>2. Months * Days \in Nat
      BY CalendarAssumption
    <2>3. Max(T) \in T /\ \A i \in T : Max(T) >= i
      <3> HIDE DEF T
      <3>1. QED BY <2>1, <2>2, LeastAndGreatest
    <2> HIDE DEF latest
    <2>4. latest = Max(T)
      BY DEF latest
    <2>5. QED BY <1>2, <1>3, <2>3, <2>4
  <1>5. m \in lasts
    <2>1. lasts \subseteq 1..k
      BY <1>3
    <2> HIDE DEF lasts
    <2>2. QED BY <1>4, <2>1, Extremes
  <1>6. _most_recent(claims) = claims[m]
    BY <1>4, Zenon DEF _most_recent, first
  <1> HIDE DEF m
  <1>7. m \in 1..k /\ dates[m] = latest
    BY <1>2, <1>3, <1>5
  <1> HIDE DEF lasts, latest
  <1>8. answer = ClaimResult("CLAIM_FOUND", _most_recent(claims))
    <2> DEFINE theirs == {claim \in ToSet(claims) : claim.customer_id = owner}
    <2>1. only(claims, theirs) = claims
      <3>1. ToSet(claims) \subseteq theirs
        BY <1>2, <1>3 DEF ToSet
      <3>2. QED BY <1>1, <3>1, KeptWhole
    <2>2. claims # None /\ claims # <<>>
      BY <1>1, <1>3, RowsAreTold, EmptySeq
    <2> HIDE DEF theirs
    <2>3. QED BY <1>1, <2>1, <2>2, Zenon DEF get_claim_for_customer, theirs
  <1>9. answer.outcome = "CLAIM_FOUND" /\ answer.claim = claims[m]
    BY <1>6, <1>8 DEF ClaimResult
  <1>10. answer.claim.claim_id[1] = m
    BY <1>2, <1>7, <1>9
  <1>11. QED BY <1>4, <1>7, <1>9, <1>10

\* The sheets of claims that are read: every column is there.
LEMMA ClaimSheetsPicked ==
    \A header \in Headers(PlainClaims) :
        header \in Seq(CLAIM_COLUMNS) /\ CLAIM_COLUMNS \subseteq ToSet(header)
  <1>1. /\ PlainClaims \in Seq(CLAIM_COLUMNS) /\ Len(PlainClaims) = 5
        /\ ToSet(PlainClaims) = CLAIM_COLUMNS
    <2>1. PlainClaims \in Seq(CLAIM_COLUMNS) /\ Len(PlainClaims) = 5
      BY DEF PlainClaims, CLAIM_COLUMNS
    <2>2. /\ PlainClaims[1] = "claim_id" /\ PlainClaims[2] = "customer_id"
          /\ PlainClaims[3] = "status" /\ PlainClaims[4] = "required_documents"
          /\ PlainClaims[5] = "last_updated"
      BY DEF PlainClaims
    <2>3. DOMAIN PlainClaims = 1..5
      BY <2>1, LenProperties
    <2>4. QED BY <2>1, <2>2, <2>3 DEF ToSet, CLAIM_COLUMNS
  <1>2. ASSUME NEW header \in Headers(PlainClaims)
        PROVE  header \in Seq(CLAIM_COLUMNS) /\ CLAIM_COLUMNS \subseteq ToSet(header)
    <2>1. header \in [1..5 -> CLAIM_COLUMNS] /\ ToSet(header) = CLAIM_COLUMNS
      BY <1>1, Zenon DEF Headers
    <2>2. QED BY <2>1, PlacesFilled
  <1>3. QED BY <1>2

-----------------------------------------------------------------------------
(* Counters and latencies *)

\* The counters of a process under keys of K.
Counter(K) == [key : K, count : Nat]

\* What a counter adds to a sum.
adds(x, A) == IF x.key \in A THEN x.count ELSE 0

\* A counter that has one of these keys is added to a sum.
adding(K, A) ==
    [p \in Nat \X Counter(K) |-> p[1] + adds(p[2], A)]

\* A total is what the loop over the counters ends with.
LEMMA TotalFollows ==
    ASSUME NEW K, NEW A, NEW c \in Seq(Counter(K))
    PROVE  EndsWith(Rates!total(c, A), c, 0, Nat, adding(K, A))
  <1> DEFINE N == Len(c)
             sum[n \in 0..N] ==
                 IF n = 0 THEN 0
                 ELSE IF c[n].key \in A THEN sum[n - 1] + c[n].count ELSE sum[n - 1]
             g == adding(K, A)
  <1>1. /\ N \in Nat /\ \A n \in 1..N : c[n] \in Counter(K)
        /\ g \in [Nat \X Counter(K) -> Nat]
        /\ 0 \in Nat
        /\ \A v \in Nat, x \in Counter(K) :
               g[<<v, x>>] = IF x.key \in A THEN v + x.count ELSE v
    <2>1. \A x \in Counter(K) : adds(x, A) \in Nat /\ x.count \in Nat
      BY DEF adds, Counter
    <2>2. N \in Nat /\ \A n \in 1..N : c[n] \in Counter(K)
      BY LenProperties, ElementOfSeq
    <2>3. /\ g \in [Nat \X Counter(K) -> Nat]
          /\ \A v \in Nat, x \in Counter(K) : g[<<v, x>>] = v + adds(x, A)
      BY <2>1 DEF adding
    <2> HIDE DEF g, N
    <2>4. QED BY <2>1, <2>2, <2>3 DEF adds
  <1> HIDE DEF g, N
  <1>2. PICK f \in [0..N -> Nat] :
            f = [n \in 0..N |-> IF n = 0 THEN 0 ELSE g[<<f[n - 1], c[n]>>]]
    <2>1. \E f \in [0..Len(c) -> Nat] : IsLoopOver(f, c, 0, g)
      BY <1>1, LoopOver
    <2>2. QED BY <2>1 DEF IsLoopOver, N
  <1>3. \A n \in 0..N : (IF n = 0 THEN 0 ELSE g[<<f[n - 1], c[n]>>])
            = IF n = 0 THEN 0
              ELSE IF c[n].key \in A THEN f[n - 1] + c[n].count ELSE f[n - 1]
    <2> SUFFICES ASSUME NEW n \in 0..N, n # 0
                 PROVE  g[<<f[n - 1], c[n]>>]
                            = IF c[n].key \in A THEN f[n - 1] + c[n].count ELSE f[n - 1]
      OBVIOUS
    <2>1. f[n - 1] \in Nat /\ c[n] \in Counter(K)
      BY <1>1
    <2>2. QED BY <1>1, <2>1
  <1>4. \E h : h = [n \in 0..N |-> IF n = 0 THEN 0
                     ELSE IF c[n].key \in A THEN h[n - 1] + c[n].count ELSE h[n - 1]]
    <2>1. f = [n \in 0..N |-> IF n = 0 THEN 0
                  ELSE IF c[n].key \in A THEN f[n - 1] + c[n].count ELSE f[n - 1]]
      BY <1>2, <1>3
    <2>2. QED BY <2>1
  <1>5. sum = [n \in 0..N |-> IF n = 0 THEN 0
                  ELSE IF c[n].key \in A THEN sum[n - 1] + c[n].count ELSE sum[n - 1]]
    BY <1>4
  <1>6. Rates!total(c, A) = sum[N]
    BY DEF Rates!total, N
  <1> HIDE DEF sum
  <1>7. sum[0] = 0
    BY <1>1, <1>5
  <1>8. ASSUME NEW n \in Nat, n + 1 <= N, sum[n] \in Nat
        PROVE  sum[n + 1] = g[<<sum[n], c[n + 1]>>]
    <2>1. n + 1 \in 0..N /\ n + 1 # 0 /\ (n + 1) - 1 = n /\ c[n + 1] \in Counter(K)
      BY <1>1, <1>8
    <2>2. sum[n + 1] = IF c[n + 1].key \in A THEN sum[n] + c[n + 1].count ELSE sum[n]
      BY <1>5, <2>1
    <2>3. QED BY <1>1, <1>8, <2>1, <2>2
  <1>9. Follows(sum, c, 0, Nat, g)
    BY <1>7, <1>8 DEF Follows, N
  <1>10. QED BY <1>6, <1>9 DEF g, N, EndsWith

\* Counter by counter.
LEMMA TotalAppend ==
    ASSUME NEW K, NEW A
    PROVE  /\ Rates!total(<<>>, A) = 0
           /\ \A c \in Seq(Counter(K)) : Rates!total(c, A) \in Nat
           /\ \A c \in Seq(Counter(K)), x \in Counter(K) :
                  Rates!total(Append(c, x), A)
                      = Rates!total(c, A) + adds(x, A)
  <1> DEFINE C == Counter(K)
             g == adding(K, A)
  <1>1. /\ g \in [Nat \X C -> Nat] /\ 0 \in Nat
        /\ \A v \in Nat, x \in C : g[<<v, x>>] = v + adds(x, A)
    <2>1. \A x \in C : adds(x, A) \in Nat
      BY DEF adds, Counter
    <2>2. QED BY <2>1 DEF adding
  <1>2. \A v \in Nat, x \in C : g[<<v, x>>] = v + adds(x, A)
    BY <1>1
  <1> DEFINE V == Nat
             z == 0
  <1>3. \A c \in Seq(C) : EndsWith(Rates!total(c, A), c, z, V, g)
    BY TotalFollows
  <1>4. z \in V /\ g \in [V \X C -> V]
    BY <1>1
  <1> HIDE DEF C, g, V, z
  <1>5. Rates!total(<<>>, A) = 0
    <2>1. <<>> \in Seq(C)
      BY EmptySeq
    <2>2. Rates!total(<<>>, A) = z
      BY <1>3, <2>1, FollowedNowhere
    <2>3. QED BY <2>2 DEF z
  <1>6. \A c \in Seq(C) : Rates!total(c, A) \in Nat
    <2>1. \A c \in Seq(C) : Rates!total(c, A) \in V
      BY <1>3, <1>4, Followed
    <2>2. QED BY <2>1 DEF V
  <1>7. ASSUME NEW c \in Seq(C), NEW x \in C
        PROVE  Rates!total(Append(c, x), A) = Rates!total(c, A) + adds(x, A)
    <2> DEFINE r == Append(c, x)
    <2>1. r \in Seq(C) /\ OneMore(r, c, x)
      BY AppendProperties DEF OneMore
    <2> HIDE DEF r
    <2>2. Rates!total(r, A) = g[<<Rates!total(c, A), x>>]
      <3>1. EndsWith(Rates!total(c, A), c, z, V, g) /\ EndsWith(Rates!total(r, A), r, z, V, g)
        BY <1>3, <2>1
      <3>2. QED BY <1>4, <2>1, <3>1, FollowedOn, Zenon
    <2>3. QED BY <1>2, <1>6, <2>2 DEF r
  <1>8. QED BY <1>5, <1>6, <1>7 DEF C

\* Place n of a sequence has y instead.
Put(c, n, y) == [c EXCEPT ![n] = y]

\* A member is exchanged before or after another is appended.
LEMMA AppendExcept ==
    ASSUME NEW S, NEW c \in Seq(S), NEW x \in S, NEW y \in S
    PROVE  /\ Put(Append(c, x), Len(c) + 1, y) = Append(c, y)
           /\ \A n \in 1..Len(c) : Put(Append(c, x), n, y) = Append(Put(c, n, y), x)
  <1> DEFINE N == Len(c)
             r == Append(c, x)
  <1>1. N \in Nat /\ r \in Seq(S) /\ Len(r) = N + 1
    BY AppendProperties, LenProperties
  <1>2. ASSUME NEW d \in Seq(S), NEW z \in S, NEW n \in 1..(N + 1), Len(d) = N,
               \A i \in 1..(N + 1) :
                   (IF i = n THEN y ELSE r[i]) = IF i = N + 1 THEN z ELSE d[i]
        PROVE  [r EXCEPT ![n] = y] = Append(d, z)
    <2> DEFINE p == [r EXCEPT ![n] = y]
               q == Append(d, z)
    <2> HIDE DEF r, N
    <2>1. /\ p \in Seq(S) /\ Len(p) = N + 1
          /\ \A i \in 1..(N + 1) : p[i] = IF i = n THEN y ELSE r[i]
      BY <1>1, ExceptSeq
    <2>2. /\ q \in Seq(S) /\ Len(q) = N + 1
          /\ \A i \in 1..(N + 1) : q[i] = IF i = N + 1 THEN z ELSE d[i]
      BY <1>1, <1>2, AppendProperties
    <2> HIDE DEF p, q
    <2>3. \A i \in 1..Len(p) : p[i] = q[i]
      BY <1>2, <2>1, <2>2
    <2>4. p = q
      BY <2>1, <2>2, <2>3, SeqEqual
    <2>5. QED BY <2>4 DEF p, q
  <1>3. \A i \in 1..(N + 1) : r[i] = IF i = N + 1 THEN x ELSE c[i]
    BY AppendProperties, LenProperties
  <1>4. [r EXCEPT ![N + 1] = y] = Append(c, y)
    <2>1. \A i \in 1..(N + 1) :
              (IF i = N + 1 THEN y ELSE r[i]) = IF i = N + 1 THEN y ELSE c[i]
      BY <1>3
    <2> HIDE DEF r
    <2>2. QED BY <1>1, <1>2, <2>1
  <1>5. ASSUME NEW n \in 1..N PROVE [r EXCEPT ![n] = y] = Append([c EXCEPT ![n] = y], x)
    <2> DEFINE d == [c EXCEPT ![n] = y]
    <2>1. d \in Seq(S) /\ Len(d) = N /\ \A i \in 1..N : d[i] = IF i = n THEN y ELSE c[i]
      BY ExceptSeq
    <2>2. n \in 1..(N + 1) /\ n # N + 1
      BY <1>1
    <2> HIDE DEF d, r, N
    <2>3. \A i \in 1..(N + 1) :
              (IF i = n THEN y ELSE r[i]) = IF i = N + 1 THEN x ELSE d[i]
      BY <1>1, <1>3, <2>1, <2>2
    <2>4. [r EXCEPT ![n] = y] = Append(d, x)
      BY <1>2, <2>1, <2>2, <2>3
    <2>5. QED BY <2>4 DEF d
  <1>6. QED BY <1>4, <1>5, Zenon DEF Put

\* One counter of a sequence has gone up.
Raised(c, n) == Put(c, n, [key |-> c[n].key, count |-> c[n].count + 1])

LEMMA TotalRaised ==
    ASSUME NEW K, NEW A
    PROVE  \A c \in Seq(Counter(K)) : \A n \in 1..Len(c) :
               Rates!total(Raised(c, n), A)
                   = Rates!total(c, A) + IF c[n].key \in A THEN 1 ELSE 0
  <1> DEFINE C == Counter(K)
             T == {c \in Seq(C) : \A n \in 1..Len(c) :
                      Rates!total(Raised(c, n), A)
                          = Rates!total(c, A) + IF c[n].key \in A THEN 1 ELSE 0}
  <1>1. <<>> \in T
    BY EmptySeq
  <1>2. ASSUME NEW c \in Seq(C), NEW x \in C, c \in T PROVE Append(c, x) \in T
    <2> DEFINE r == Append(c, x)
    <2>1. /\ r \in Seq(C) /\ Len(r) = Len(c) + 1 /\ Len(c) \in Nat
          /\ \A i \in 1..Len(c) : r[i] = c[i] /\ c[i] \in C
          /\ r[Len(c) + 1] = x
      BY AppendProperties, LenProperties, ElementOfSeq
    <2>2. /\ Rates!total(r, A) = Rates!total(c, A) + adds(x, A)
          /\ Rates!total(c, A) \in Nat
      BY TotalAppend, Zenon
    <2> SUFFICES ASSUME NEW n \in 1..Len(r)
                 PROVE  Rates!total(Raised(r, n), A)
                            = Rates!total(r, A) + IF r[n].key \in A THEN 1 ELSE 0
      BY <2>1
    <2>3. CASE n = Len(c) + 1
      <3> DEFINE y == [key |-> x.key, count |-> x.count + 1]
      <3>1. y \in C /\ y.key = x.key /\ y.count = x.count + 1 /\ x.count \in Nat
        BY DEF Counter
      <3>2. Raised(r, n) = Append(c, y)
        <4>1. r[n] = x
          BY <2>1, <2>3
        <4> HIDE DEF y, r
        <4>2. Raised(r, n) = Put(r, n, y)
          BY <4>1, Zenon DEF Raised, y
        <4>3. Put(Append(c, x), Len(c) + 1, y) = Append(c, y)
          BY <3>1, AppendExcept
        <4>4. QED BY <2>3, <4>2, <4>3, Zenon DEF r
      <3> HIDE DEF y
      <3>3. Rates!total(Append(c, y), A)
                = Rates!total(c, A) + adds(y, A)
        BY <3>1, TotalAppend, Zenon
      <3>4. r[n] = x
        BY <2>1, <2>3
      <3> HIDE DEF r
      <3>5. adds(y, A) = adds(x, A) + (IF x.key \in A THEN 1 ELSE 0) /\ adds(x, A) \in Nat
        BY <3>1 DEF adds
      <3>6. Rates!total(r, A) = Rates!total(c, A) + adds(x, A)
        BY <2>2
      <3>7. QED BY <2>2, <3>2, <3>3, <3>4, <3>5, <3>6
    <2>4. CASE n # Len(c) + 1
      <3>1. n \in 1..Len(c) /\ r[n] = c[n] /\ c[n] \in C
        BY <2>1, <2>4
      <3> DEFINE y == [key |-> c[n].key, count |-> c[n].count + 1]
                 u == Raised(c, n)
      <3>2. y \in C
        BY <3>1 DEF Counter
      <3>3. u \in Seq(C) /\ Raised(r, n) = Append(u, x)
        <4>1. u = Put(c, n, y)
          BY Zenon DEF Raised
        <4>2. u \in Seq(C)
          <5> HIDE DEF u, y
          <5>1. [c EXCEPT ![n] = y] \in Seq(C)
            BY <3>1, <3>2, ExceptSeq
          <5>2. QED BY <4>1, <5>1, Zenon DEF Put
        <4> HIDE DEF u, y
        <4>3. Raised(r, n) = Put(r, n, y)
          BY <3>1, Zenon DEF Raised, y
        <4>4. Put(Append(c, x), n, y) = Append(Put(c, n, y), x)
          BY <3>1, <3>2, AppendExcept
        <4>5. QED BY <4>1, <4>2, <4>3, <4>4, Zenon DEF r
      <3>4. Rates!total(u, A) = Rates!total(c, A) + IF c[n].key \in A THEN 1 ELSE 0
        BY <1>2, <3>1
      <3> HIDE DEF u, r
      <3>5. Rates!total(Append(u, x), A)
                = Rates!total(u, A) + adds(x, A)
        BY <3>3, TotalAppend, Zenon
      <3>6. adds(x, A) \in Nat
        BY DEF adds, Counter
      <3>7. QED BY <2>2, <3>1, <3>3, <3>4, <3>5, <3>6
    <2>5. QED BY <2>3, <2>4
  <1>3. \A c \in Seq(C) : c \in T
    <2> HIDE DEF T
    <2>1. QED BY <1>1, <1>2, SequencesGrow
  <1>4. QED BY <1>3

\* What an increment does: it makes one more of its key, and nothing else.
LEMMA Incremented ==
    ASSUME NEW K, NEW c \in Seq(Counter(K)), NEW k \in K
    PROVE  /\ Rates!increment(c, k) \in Seq(Counter(K))
           /\ Rates!recorded(Rates!increment(c, k)) = Rates!recorded(c) \cup {k}
           /\ \A A : Rates!total(Rates!increment(c, k), A)
                         = Rates!total(c, A) + IF k \in A THEN 1 ELSE 0
  <1> DEFINE C == Counter(K)
             d == Rates!increment(c, k)
             N == Len(c)
  <1>1. N \in Nat /\ DOMAIN c = 1..N /\ \A i \in 1..N : c[i] \in C
    BY LenProperties, ElementOfSeq
  <1>2. CASE k \in Rates!recorded(c)
    <2> DEFINE n == CHOOSE i \in DOMAIN c : c[i].key = k
    <2>1. n \in DOMAIN c /\ c[n].key = k
      <3>1. \E i \in DOMAIN c : c[i].key = k
        BY <1>2 DEF Rates!recorded
      <3>2. QED BY <3>1
    <2>2. d = [c EXCEPT ![n] = [key |-> k, count |-> c[n].count + 1]]
      BY <1>2, Zenon DEF Rates!increment
    <2> HIDE DEF n, d
    <2> DEFINE y == [key |-> k, count |-> c[n].count + 1]
    <2>3. n \in 1..N /\ y \in C /\ y.key = k
      BY <1>1, <2>1 DEF Counter
    <2> HIDE DEF y
    <2>4. /\ d \in Seq(C) /\ Len(d) = N
          /\ \A i \in 1..N : d[i] = IF i = n THEN y ELSE c[i]
      BY <2>2, <2>3, ExceptSeq DEF y
    <2>5. DOMAIN d = 1..N
      BY <2>4
    <2>6. \A i \in 1..N : d[i].key = c[i].key
      BY <2>1, <2>3, <2>4
    <2>7. Rates!recorded(d) = Rates!recorded(c)
      BY <1>1, <2>5, <2>6 DEF Rates!recorded
    <2>8. d = Raised(c, n)
      BY <2>1, <2>2, Zenon DEF Raised, Put
    <2>9. \A A : Rates!total(d, A) = Rates!total(c, A) + IF k \in A THEN 1 ELSE 0
      BY <2>1, <2>3, <2>8, TotalRaised
    <2>10. QED BY <1>2, <2>4, <2>7, <2>9 DEF d
  <1>3. CASE k \notin Rates!recorded(c)
    <2> DEFINE x == [key |-> k, count |-> 1]
    <2>1. x \in C /\ x.key = k /\ x.count = 1
      BY DEF Counter
    <2>2. d = Append(c, x)
      BY <1>3, Zenon DEF Rates!increment
    <2> HIDE DEF x, d
    <2>3. /\ d \in Seq(C) /\ Len(d) = N + 1 /\ DOMAIN d = 1..(N + 1)
          /\ \A i \in 1..N : d[i] = c[i]
          /\ d[N + 1] = x
      BY <2>1, <2>2, AppendProperties, LenProperties
    <2>4. Rates!recorded(d) = Rates!recorded(c) \cup {k}
      <3>1. ASSUME NEW i \in 1..(N + 1) PROVE d[i].key \in Rates!recorded(c) \cup {k}
        BY <1>1, <2>1, <2>3 DEF Rates!recorded
      <3>2. \A i \in 1..N : c[i].key \in Rates!recorded(d)
        BY <1>1, <2>3 DEF Rates!recorded
      <3>3. k \in Rates!recorded(d)
        BY <1>1, <2>1, <2>3 DEF Rates!recorded
      <3>4. QED BY <1>1, <2>3, <3>1, <3>2, <3>3 DEF Rates!recorded
    <2>5. \A A : Rates!total(d, A) = Rates!total(c, A) + IF k \in A THEN 1 ELSE 0
      <3> SUFFICES ASSUME NEW A
                   PROVE  Rates!total(d, A) = Rates!total(c, A) + IF k \in A THEN 1 ELSE 0
        OBVIOUS
      <3>1. Rates!total(Append(c, x), A) = Rates!total(c, A) + adds(x, A)
        BY <2>1, TotalAppend
      <3>2. adds(x, A) = IF k \in A THEN 1 ELSE 0
        BY <2>1 DEF adds
      <3>3. QED BY <2>2, <3>1, <3>2
    <2>6. QED BY <2>3, <2>4, <2>5 DEF d
  <1>4. QED BY <1>2, <1>3

\* The loop over the increments of a process.
counting(K) == [p \in Seq(Counter(K)) \X K |-> Rates!increment(p[1], p[2])]

LEMMA CountersFollow ==
    ASSUME NEW K, NEW s \in Seq(K)
    PROVE  EndsWith(Rates!counters_after(s), s, <<>>, Seq(Counter(K)), counting(K))
  <1> DEFINE N == Len(s)
             V == Seq(Counter(K))
             after[n \in 0..N] ==
                 IF n = 0 THEN <<>> ELSE Rates!increment(after[n - 1], s[n])
             g == counting(K)
             a == <<>>
  <1>1. /\ N \in Nat /\ \A n \in 1..N : s[n] \in K
        /\ a \in V
    BY LenProperties, ElementOfSeq, EmptySeq
  <1>2. /\ g \in [V \X K -> V]
        /\ \A c \in V, k \in K : g[<<c, k>>] = Rates!increment(c, k)
    BY Incremented DEF counting
  <1> HIDE DEF g, N, V
  <1>3. PICK f \in [0..N -> V] : f = [n \in 0..N |-> IF n = 0 THEN a ELSE g[<<f[n - 1], s[n]>>]]
    <2> HIDE DEF a
    <2>1. \E f \in [0..Len(s) -> V] : IsLoopOver(f, s, a, g)
      BY <1>1, <1>2, LoopOver
    <2>2. QED BY <2>1 DEF IsLoopOver, N
  <1>4. \A n \in 0..N : n # 0 => g[<<f[n - 1], s[n]>>] = Rates!increment(f[n - 1], s[n])
    <2> SUFFICES ASSUME NEW n \in 0..N, n # 0
                 PROVE  g[<<f[n - 1], s[n]>>] = Rates!increment(f[n - 1], s[n])
      OBVIOUS
    <2>1. f[n - 1] \in V /\ s[n] \in K
      BY <1>1
    <2>2. QED BY <1>2, <2>1
  <1>5. after = [n \in 0..N |-> IF n = 0 THEN <<>> ELSE Rates!increment(after[n - 1], s[n])]
    <2>1. f = [n \in 0..N |-> IF n = 0 THEN <<>> ELSE Rates!increment(f[n - 1], s[n])]
      BY <1>3, <1>4
    <2>2. \E h : h = [n \in 0..N |-> IF n = 0 THEN <<>>
                                     ELSE Rates!increment(h[n - 1], s[n])]
      BY <2>1
    <2>3. QED BY <2>2
  <1>6. Rates!counters_after(s) = after[N]
    BY DEF Rates!counters_after, N
  <1> HIDE DEF after
  <1>7. after[0] = a
    BY <1>1, <1>5
  <1>8. ASSUME NEW n \in Nat, n + 1 <= N, after[n] \in V
        PROVE  after[n + 1] = g[<<after[n], s[n + 1]>>]
    <2>1. n + 1 \in 0..N /\ n + 1 # 0 /\ (n + 1) - 1 = n /\ s[n + 1] \in K
      BY <1>1, <1>8
    <2>2. after[n + 1] = Rates!increment(after[n], s[n + 1])
      BY <1>5, <2>1
    <2>3. QED BY <1>2, <1>8, <2>1, <2>2
  <1> HIDE DEF a
  <1>9. Follows(after, s, a, V, g)
    BY <1>7, <1>8 DEF Follows, N
  <1>10. QED BY <1>6, <1>9 DEF a, g, N, V, EndsWith

\* How many members of a sequence are in a set.
Times(s, A) == {n \in DOMAIN s : s[n] \in A}

LEMMA TimesAppend ==
    ASSUME NEW K, NEW A, NEW s \in Seq(K), NEW x \in K
    PROVE  /\ Cardinality(Times(s, A)) \in Nat
           /\ Cardinality(Times(Append(s, x), A))
                  = Cardinality(Times(s, A)) + IF x \in A THEN 1 ELSE 0
  <1> DEFINE r == Append(s, x)
             N == Len(s)
  <1>1. /\ N \in Nat /\ DOMAIN s = 1..N /\ DOMAIN r = 1..(N + 1)
        /\ \A i \in 1..N : r[i] = s[i]
        /\ r[N + 1] = x
    BY AppendProperties, LenProperties
  <1> HIDE DEF r, N
  <1>2. IsFiniteSet(Times(s, A)) /\ Cardinality(Times(s, A)) \in Nat
    <2>1. IsFiniteSet(1..N)
      BY <1>1, FS_Interval
    <2>2. Times(s, A) \subseteq 1..N
      BY <1>1 DEF Times
    <2>3. QED BY <2>1, <2>2, FS_Subset, FS_CardinalityType
  <1>3. CASE x \in A
    <2>1. Times(r, A) = Times(s, A) \cup {N + 1} /\ N + 1 \notin Times(s, A)
      BY <1>1, <1>3 DEF Times
    <2>2. Cardinality(Times(s, A) \cup {N + 1}) = Cardinality(Times(s, A)) + 1
      BY <1>2, <2>1, FS_AddElement
    <2>3. QED BY <1>2, <1>3, <2>1, <2>2 DEF r
  <1>4. CASE x \notin A
    <2>1. Times(r, A) = Times(s, A)
      BY <1>1, <1>4 DEF Times
    <2>2. QED BY <1>2, <1>4, <2>1 DEF r
  <1>5. QED BY <1>3, <1>4

\* The counters hold how often each key came up, in whatever order it did.
LEMMA CountersCount ==
    ASSUME NEW K
    PROVE  \A s \in Seq(K) :
               /\ Rates!recorded(Rates!counters_after(s)) = ToSet(s)
               /\ \A A : Rates!total(Rates!counters_after(s), A) = Cardinality(Times(s, A))
  <1> DEFINE V == Seq(Counter(K))
             g == counting(K)
             a == <<>>
             after(s) == Rates!counters_after(s)
             T == {s \in Seq(K) :
                      /\ Rates!recorded(after(s)) = ToSet(s)
                      /\ \A A : Rates!total(after(s), A) = Cardinality(Times(s, A))}
  <1>1. /\ a \in V /\ g \in [V \X K -> V]
        /\ \A c \in V, k \in K : g[<<c, k>>] = Rates!increment(c, k)
    BY EmptySeq, Incremented DEF counting
  <1>2. \A s \in Seq(K) : EndsWith(after(s), s, a, V, g)
    BY CountersFollow
  <1>3. <<>> \in T
    <2>1. <<>> \in Seq(K) /\ DOMAIN <<>> = {}
      BY EmptySeq
    <2>2. after(<<>>) = <<>>
      <3> HIDE DEF V, g
      <3>1. QED BY <1>2, <2>1, FollowedNowhere
    <2>3. Rates!recorded(<<>>) = {} /\ ToSet(<<>>) = {}
      BY <2>1, Members DEF Rates!recorded
    <2>4. \A A : Rates!total(<<>>, A) = 0 /\ Cardinality(Times(<<>>, A)) = 0
      BY <2>1, TotalAppend, FS_EmptySet DEF Times
    <2>5. QED BY <2>1, <2>2, <2>3, <2>4
  <1>4. ASSUME NEW s \in Seq(K), NEW x \in K, s \in T PROVE Append(s, x) \in T
    <2> DEFINE r == Append(s, x)
    <2>1. r \in Seq(K) /\ OneMore(r, s, x) /\ ToSet(r) = ToSet(s) \cup {x}
      BY AppendProperties, Members DEF OneMore
    <2>2. \A A : /\ Cardinality(Times(s, A)) \in Nat
                 /\ Cardinality(Times(r, A))
                        = Cardinality(Times(s, A)) + IF x \in A THEN 1 ELSE 0
      BY TimesAppend
    <2> HIDE DEF r
    <2>3. after(s) \in V /\ after(r) = Rates!increment(after(s), x)
      <3> DEFINE e == after(s)
                 d == after(r)
      <3>1. EndsWith(e, s, a, V, g) /\ EndsWith(d, r, a, V, g)
        BY <1>2, <2>1
      <3> HIDE DEF e, d, V, g, a
      <3>2. e \in V
        BY <1>1, <3>1, Followed
      <3>3. d = g[<<e, x>>]
        <4>1. a \in V /\ g \in [V \X K -> V] /\ OneMore(r, s, x)
          BY <1>1, <2>1
        <4>2. QED BY <3>1, <4>1, FollowedOn, Zenon
      <3>4. QED BY <1>1, <3>2, <3>3 DEF e, d
    <2> HIDE DEF after
    <2>4. /\ Rates!recorded(after(r)) = Rates!recorded(after(s)) \cup {x}
          /\ \A A : Rates!total(after(r), A)
                        = Rates!total(after(s), A) + IF x \in A THEN 1 ELSE 0
      BY <2>3, Incremented
    <2>5. r \in T
      BY <1>4, <2>1, <2>2, <2>4
    <2>6. QED BY <2>5 DEF r
  <1>5. \A s \in Seq(K) : s \in T
    <2> HIDE DEF T
    <2>1. QED BY <1>3, <1>4, SequencesGrow
  <1>6. QED BY <1>5

\* Cardinality, in the counters' module as everywhere.
LEMMA Counted ==
    ASSUME NEW S
    PROVE  Rates!Cardinality(S) = Cardinality(S)
  BY DEF Rates!Cardinality, Cardinality

\* What the keys that are counted look like.
LEMMA KeysLabelled ==
    ASSUME NEW k \in Keys
    PROVE  /\ k.metric = "calls_total" => k = Rates!CallsTotal
           /\ k.metric # "calls_total" => k.labels # {}
           /\ Rates!CallsTotal.metric = "calls_total"
  <1> DEFINE labelled == {"escalations_total", "authentication_attempts_total",
                          "postcall_total", "tool_calls_total"}
             with(metric, label) == k.metric = metric /\ label \in k.labels
  <1>1. Rates!CallsTotal = [metric |-> "calls_total", labels |-> {}]
    BY Zenon DEF Rates!CallsTotal
  <1>2. CASE k \in {[metric |-> "calls_total", labels |-> {}]}
    <2>1. k = Rates!CallsTotal /\ k.metric = "calls_total"
      BY <1>1, <1>2
    <2>2. QED BY <2>1
  <1>3. CASE k \notin {[metric |-> "calls_total", labels |-> {}]}
    <2>1. \E metric \in labelled : \E label : with(metric, label)
      <3>1. CASE k \in {[metric |-> "escalations_total", labels |-> {<<"reason", reason>>}] :
                            reason \in {"emergency", "requested"}}
        <4>1. PICK reason :
                  k = [metric |-> "escalations_total", labels |-> {<<"reason", reason>>}]
          BY <3>1, Zenon
        <4>2. k.metric = "escalations_total" /\ k.labels = {<<"reason", reason>>}
          BY <4>1
        <4>3. QED BY <4>2, Zenon
      <3>2. CASE k \in {[metric |-> "authentication_attempts_total",
                         labels |-> {<<"outcome", outcome>>}] :
                            outcome \in {"success", "failure"}}
        <4>1. PICK outcome :
                  k = [metric |-> "authentication_attempts_total",
                       labels |-> {<<"outcome", outcome>>}]
          BY <3>2, Zenon
        <4>2. /\ k.metric = "authentication_attempts_total"
              /\ k.labels = {<<"outcome", outcome>>}
          BY <4>1
        <4>3. QED BY <4>2, Zenon
      <3>3. CASE k \in {[metric |-> "postcall_total", labels |-> {<<"outcome", outcome>>}] :
                            outcome \in {"persisted", "failed"}}
        <4>1. PICK outcome :
                  k = [metric |-> "postcall_total", labels |-> {<<"outcome", outcome>>}]
          BY <3>3, Zenon
        <4>2. k.metric = "postcall_total" /\ k.labels = {<<"outcome", outcome>>}
          BY <4>1
        <4>3. QED BY <4>2, Zenon
      <3>4. CASE k \in UNION {{[metric |-> "tool_calls_total",
                                labels |-> {<<"outcome", outcome>>, <<"tool", tool>>}] :
                                    outcome \in {"SUCCESS", "FAILED"}} :
                                        tool \in {"search_faq", "get_claim_status"}}
        <4>1. PICK outcome, tool :
                  k = [metric |-> "tool_calls_total",
                       labels |-> {<<"outcome", outcome>>, <<"tool", tool>>}]
          BY <3>4, Zenon
        <4>2. /\ k.metric = "tool_calls_total"
              /\ k.labels = {<<"outcome", outcome>>, <<"tool", tool>>}
          BY <4>1
        <4>3. QED BY <4>2, Zenon
      <3>5. QED BY <1>3, <3>1, <3>2, <3>3, <3>4, Zenon DEF Keys
    <2>2. k.metric # "calls_total" /\ k.labels # {}
      BY <2>1
    <2>3. Rates!CallsTotal.metric = "calls_total"
      BY <1>1
    <2>4. QED BY <2>2, <2>3
  <1>4. QED BY <1>2, <1>3

\* The sums of _sum_where count what happened and how it turned out.
LEMMA SumsCount ==
    ASSUME NEW s \in Seq(Keys), NEW metric, metric # "calls_total"
    PROVE  LET c == Rates!counters_after(s) IN
           /\ Rates!_sum_where(c, metric, None) = Rates!happened(s, metric)
           /\ \A outcome \in {"success", "SUCCESS", "persisted"} :
                  Rates!_sum_where(c, metric, <<"outcome", outcome>>)
                      = Rates!turned_out(s, metric, outcome)
  <1> DEFINE c == Rates!counters_after(s)
             R == Rates!recorded(c)
  <1>1. /\ R = ToSet(s)
        /\ \A A : Rates!total(c, A) = Cardinality(Times(s, A))
    BY CountersCount
  <1>2. \A n \in DOMAIN s : s[n] \in R /\ s[n] \in Keys
    <2>1. DOMAIN s = 1..Len(s) /\ \A n \in 1..Len(s) : s[n] \in Keys
      BY LenProperties, ElementOfSeq
    <2> HIDE DEF R
    <2>2. QED BY <1>1, <2>1 DEF ToSet
  <1>3. \A n \in DOMAIN s : s[n].metric = metric => s[n].labels # {}
    BY <1>2, KeysLabelled
  <1> HIDE DEF c, R
  <1>4. Rates!_sum_where(c, metric, None) = Rates!happened(s, metric)
    <2> DEFINE A == {k \in R : k.metric = metric /\ k.labels # {}
                                   /\ (None # None => None \in k.labels)}
    <2>1. Times(s, A) = {n \in DOMAIN s : s[n].metric = metric}
      BY <1>2, <1>3 DEF Times
    <2>2. Rates!_sum_where(c, metric, None) = Rates!total(c, A)
      BY DEF Rates!_sum_where, R
    <2> HIDE DEF A
    <2>3. QED BY <1>1, <2>1, <2>2, Counted, Zenon DEF Rates!happened
  <1>5. ASSUME NEW outcome \in {"success", "SUCCESS", "persisted"}
        PROVE  Rates!_sum_where(c, metric, <<"outcome", outcome>>)
                   = Rates!turned_out(s, metric, outcome)
    <2> DEFINE label == <<"outcome", outcome>>
               A == {k \in R : k.metric = metric /\ k.labels # {}
                                   /\ (label # None => label \in k.labels)}
    <2>1. label # None
      BY NothingIsTold
    <2>2. Rates!_sum_where(c, metric, label) = Rates!total(c, A)
      BY DEF Rates!_sum_where, R
    <2>3. Rates!turned_out(s, metric, outcome)
              = Cardinality({n \in DOMAIN s : s[n].metric = metric /\ label \in s[n].labels})
      BY Counted, Zenon DEF Rates!turned_out
    <2> HIDE DEF label
    <2>4. Times(s, A) = {n \in DOMAIN s : s[n].metric = metric /\ label \in s[n].labels}
      BY <1>2, <1>3, <2>1 DEF Times
    <2> HIDE DEF A
    <2>5. QED BY <1>1, <2>2, <2>3, <2>4, Zenon DEF label
  <1>6. QED BY <1>4, <1>5 DEF c

LEMMA RatesCount ==
    ASSUME NEW s \in Seq(Keys)
    PROVE  Rates!RatesCountEverything(s)
  <1> DEFINE c == Rates!counters_after(s)
             happened(metric) == Rates!happened(s, metric)
  <1>1. \A metric \in {"authentication_attempts_total", "tool_calls_total",
                       "postcall_total", "escalations_total"} :
            /\ Rates!_sum_where(c, metric, None) = happened(metric)
            /\ \A outcome \in {"success", "SUCCESS", "persisted"} :
                   Rates!_sum_where(c, metric, <<"outcome", outcome>>)
                       = Rates!turned_out(s, metric, outcome)
    BY SumsCount
  <1>2. Rates!total(c, {Rates!CallsTotal}) = happened("calls_total")
    <2>1. \A n \in DOMAIN s : s[n] \in Keys
      BY LenProperties, ElementOfSeq
    <2>2. \A n \in DOMAIN s :
              s[n] \in {Rates!CallsTotal} <=> s[n].metric = "calls_total"
      BY <2>1, KeysLabelled
    <2>3. Times(s, {Rates!CallsTotal}) = {n \in DOMAIN s : s[n].metric = "calls_total"}
      BY <2>2 DEF Times
    <2>4. Rates!total(c, {Rates!CallsTotal}) = Cardinality(Times(s, {Rates!CallsTotal}))
      BY CountersCount
    <2>5. QED BY <2>3, <2>4, Counted, Zenon DEF Rates!happened
  <1> HIDE DEF c
  <1> DEFINE rates == Rates!_derived_rates(c)
             share(metric, outcome) ==
                 IF happened(metric) = 0 THEN None
                 ELSE <<Rates!turned_out(s, metric, outcome), happened(metric)>>
  <1>3. /\ rates.authentication_success_rate
               = Rates!_ratio(Rates!turned_out(s, "authentication_attempts_total", "success"),
                              happened("authentication_attempts_total"))
        /\ rates.tool_success_rate
               = Rates!_ratio(Rates!turned_out(s, "tool_calls_total", "SUCCESS"),
                              happened("tool_calls_total"))
        /\ rates.postcall_persistence_success_rate
               = Rates!_ratio(Rates!turned_out(s, "postcall_total", "persisted"),
                              happened("postcall_total"))
        /\ rates.escalation_rate
               = Rates!_ratio(happened("escalations_total"), happened("calls_total"))
    BY <1>1, <1>2 DEF Rates!_derived_rates
  <1> HIDE DEF rates, happened
  <1>4. QED BY <1>3 DEF Rates!RatesCountEverything, Rates!_ratio, rates, happened, c

\* The loop over the durations of a metric.
Summaries ==
    [count : Nat, total_ms : Nat, min_ms : Nat \cup {None}, max_ms : Nat \cup {None}]

observing == [p \in Summaries \X Nat |-> Rates!observe(p[1], p[2])]

LEMMA Observed ==
    ASSUME NEW summary \in Summaries, NEW duration \in Nat
    PROVE  Rates!observe(summary, duration) \in Summaries
  BY DEF Rates!observe, Summaries

LEMMA SummariesFollow ==
    ASSUME NEW s \in Seq(Nat)
    PROVE  EndsWith(Rates!observed(s), s, Rates!LatencySummary, Summaries, observing)
  <1> DEFINE N == Len(s)
             V == Summaries
             a == Rates!LatencySummary
             g == observing
             summary[n \in 0..N] ==
                 IF n = 0 THEN a ELSE Rates!observe(summary[n - 1], s[n])
  <1>1. /\ N \in Nat /\ \A n \in 1..N : s[n] \in Nat
        /\ a \in V
    BY LenProperties, ElementOfSeq DEF Rates!LatencySummary, Summaries
  <1>2. /\ g \in [V \X Nat -> V]
        /\ \A v \in V, d \in Nat : g[<<v, d>>] = Rates!observe(v, d)
    BY Observed DEF observing
  <1> HIDE DEF a, g, N, V
  <1>3. PICK f \in [0..N -> V] : f = [n \in 0..N |-> IF n = 0 THEN a ELSE g[<<f[n - 1], s[n]>>]]
    <2>1. \E f \in [0..Len(s) -> V] : IsLoopOver(f, s, a, g)
      BY <1>1, <1>2, LoopOver
    <2>2. QED BY <2>1 DEF IsLoopOver, N
  <1>4. \A n \in 0..N : n # 0 => g[<<f[n - 1], s[n]>>] = Rates!observe(f[n - 1], s[n])
    <2> SUFFICES ASSUME NEW n \in 0..N, n # 0
                 PROVE  g[<<f[n - 1], s[n]>>] = Rates!observe(f[n - 1], s[n])
      OBVIOUS
    <2>1. f[n - 1] \in V /\ s[n] \in Nat
      BY <1>1
    <2>2. QED BY <1>2, <2>1
  <1>5. summary = [n \in 0..N |-> IF n = 0 THEN a ELSE Rates!observe(summary[n - 1], s[n])]
    <2>1. f = [n \in 0..N |-> IF n = 0 THEN a ELSE Rates!observe(f[n - 1], s[n])]
      BY <1>3, <1>4
    <2>2. \E h : h = [n \in 0..N |-> IF n = 0 THEN a ELSE Rates!observe(h[n - 1], s[n])]
      BY <2>1
    <2>3. QED BY <2>2
  <1>6. Rates!observed(s) = summary[N]
    BY DEF Rates!observed, N, a
  <1> HIDE DEF summary
  <1>7. summary[0] = a
    BY <1>1, <1>5
  <1>8. ASSUME NEW n \in Nat, n + 1 <= N, summary[n] \in V
        PROVE  summary[n + 1] = g[<<summary[n], s[n + 1]>>]
    <2>1. n + 1 \in 0..N /\ n + 1 # 0 /\ (n + 1) - 1 = n /\ s[n + 1] \in Nat
      BY <1>1, <1>8
    <2>2. summary[n + 1] = Rates!observe(summary[n], s[n + 1])
      BY <1>5, <2>1
    <2>3. QED BY <1>2, <1>8, <2>1, <2>2
  <1>9. Follows(summary, s, a, V, g)
    BY <1>7, <1>8 DEF Follows, N
  <1>10. QED BY <1>6, <1>9 DEF a, g, N, V, EndsWith

\* The least and the greatest of some durations, or none of none.
IsExtreme(summary, all) ==
    /\ all = {} => summary.min_ms = None /\ summary.max_ms = None
    /\ all # {} => /\ summary.min_ms \in all /\ \A d \in all : summary.min_ms <= d
                   /\ summary.max_ms \in all /\ \A d \in all : d <= summary.max_ms

LEMMA ExtremesKept ==
    ASSUME NEW summary \in Summaries, NEW all \in SUBSET Nat, NEW duration \in Nat,
           IsExtreme(summary, all)
    PROVE  IsExtreme(Rates!observe(summary, duration), all \cup {duration})
  <1> DEFINE next == Rates!observe(summary, duration)
  <1>1. /\ next.min_ms = IF summary.min_ms = None \/ duration < summary.min_ms
                         THEN duration ELSE summary.min_ms
        /\ next.max_ms = IF summary.max_ms = None \/ duration > summary.max_ms
                         THEN duration ELSE summary.max_ms
    BY DEF Rates!observe
  <1> DEFINE low == summary.min_ms
             high == summary.max_ms
             more == all \cup {duration}
  <1> HIDE DEF next
  <1>2. CASE all = {}
    <2>1. next.min_ms = duration /\ next.max_ms = duration /\ more = {duration}
      BY <1>1, <1>2 DEF IsExtreme
    <2>2. QED BY <2>1 DEF IsExtreme, next
  <1>3. CASE all # {}
    <2>1. /\ low \in all /\ high \in all
          /\ \A d \in all : d \in Nat /\ low <= d /\ d <= high
      BY <1>3 DEF IsExtreme
    <2>2. low \in Nat /\ high \in Nat /\ low # None /\ high # None
      BY <2>1, NothingIsTold
    <2>3. /\ next.min_ms = IF duration < low THEN duration ELSE low
          /\ next.max_ms = IF duration > high THEN duration ELSE high
      BY <1>1, <2>2
    <2> HIDE DEF low, high
    <2>4. next.min_ms \in more /\ next.max_ms \in more
      BY <2>1, <2>3
    <2>5. \A d \in more : next.min_ms <= d /\ d <= next.max_ms
      BY <2>1, <2>2, <2>3
    <2>6. QED BY <2>4, <2>5 DEF IsExtreme, next
  <1>4. QED BY <1>2, <1>3

LEMMA ExtremesFound ==
    ASSUME NEW s \in Seq(Nat)
    PROVE  Rates!ExtremesOfAll(s)
  <1> DEFINE V == Summaries
             a == Rates!LatencySummary
             g == observing
             end(t) == Rates!observed(t)
             T == {t \in Seq(Nat) : IsExtreme(end(t), ToSet(t))}
  <1>1. /\ a \in V /\ g \in [V \X Nat -> V]
        /\ \A v \in V, d \in Nat : g[<<v, d>>] = Rates!observe(v, d)
        /\ a.min_ms = None /\ a.max_ms = None
    BY Observed DEF observing, Rates!LatencySummary, Summaries
  <1>2. \A t \in Seq(Nat) : EndsWith(end(t), t, a, V, g)
    BY SummariesFollow
  <1> HIDE DEF V, a, g, end
  <1>3. <<>> \in T
    <2>1. <<>> \in Seq(Nat) /\ ToSet(<<>>) = {}
      BY EmptySeq, Members
    <2>2. end(<<>>) = a
      BY <1>2, <2>1, FollowedNowhere
    <2>3. QED BY <1>1, <2>1, <2>2 DEF IsExtreme
  <1>4. ASSUME NEW t \in Seq(Nat), NEW x \in Nat, t \in T PROVE Append(t, x) \in T
    <2> DEFINE r == Append(t, x)
    <2>1. r \in Seq(Nat) /\ ToSet(r) = ToSet(t) \cup {x} /\ ToSet(t) \in SUBSET Nat
      <3> DEFINE D == Nat
      <3>1. t \in Seq(D) /\ x \in D
        OBVIOUS
      <3> HIDE DEF D
      <3>2. /\ Append(t, x) \in Seq(D) /\ ToSet(Append(t, x)) = ToSet(t) \cup {x}
            /\ ToSet(t) \subseteq D
        BY <3>1, AppendProperties, Members
      <3>3. QED BY <3>2 DEF D
    <2>2. OneMore(r, t, x)
      BY DEF OneMore
    <2> HIDE DEF r
    <2>3. end(t) \in V /\ end(r) = Rates!observe(end(t), x)
      <3> DEFINE e == end(t)
                 d == end(r)
                 D == Nat
      <3>1. EndsWith(e, t, a, V, g) /\ EndsWith(d, r, a, V, g)
        BY <1>2, <2>1
      <3>2. g \in [V \X D -> V] /\ a \in V /\ t \in Seq(D) /\ x \in D
        BY <1>1
      <3> HIDE DEF e, d, D
      <3>3. e \in V
        BY <3>1, <3>2, Followed
      <3>4. d = g[<<e, x>>]
        BY <2>2, <3>1, <3>2, FollowedOn, Zenon
      <3>5. QED BY <1>1, <3>3, <3>4 DEF e, d
    <2>4. IsExtreme(end(t), ToSet(t))
      BY <1>4
    <2>5. IsExtreme(end(r), ToSet(r))
      BY <2>1, <2>3, <2>4, ExtremesKept DEF V
    <2>6. QED BY <2>1, <2>5 DEF r
  <1>5. \A t \in Seq(Nat) : t \in T
    <2> HIDE DEF T
    <2>1. QED BY <1>3, <1>4, SequencesGrow
  <1>6. IsExtreme(end(s), ToSet(s))
    BY <1>5
  <1>7. s # <<>> => ToSet(s) # {}
    <2> SUFFICES ASSUME s # <<>> PROVE ToSet(s) # {}
      OBVIOUS
    <2>1. Len(s) \in Nat /\ Len(s) # 0 /\ DOMAIN s = 1..Len(s)
      BY EmptySeq, LenProperties
    <2>2. 1 \in DOMAIN s
      BY <2>1
    <2>3. s[1] \in ToSet(s)
      BY <2>2 DEF ToSet
    <2>4. QED BY <2>3
  <1>8. QED BY <1>6, <1>7 DEF Rates!ExtremesOfAll, IsExtreme, end, ToSet

-----------------------------------------------------------------------------
(* Every input *)

\* A setting of an environment is one of its values, or is not there.
LEMMA KeysGiven ==
    ASSUME NEW env \in Environments
    PROVE  setting(env, "google_service_account_json")
               \in {None, "not_json", "no_object", "incomplete", "complete"}
  <1>1. \A name \in DOMAIN env : name = "google_service_account_json" =>
            env[name] \in {None, "not_json", "no_object", "incomplete", "complete"}
    <2>1. PICK values : /\ env = Given(values)
                        /\ values["google_service_account_json"]
                               \in {None, "not_json", "no_object", "incomplete", "complete"}
      BY DEF Environments
    <2>2. QED BY <2>1 DEF Given, Restrict
  <1>2. QED BY <1>1 DEF setting, _blank_means_unset, Restrict

\* The knowledge bases that are searched: entries told apart by their ids.
LEMMA EntriesPicked ==
    ASSUME NEW n \in 1..MaxEntries, NEW keywords \in [1..n -> (SUBSET Words) \ {{}}]
    PROVE  LET entries == [k \in 1..n |-> [id |-> k, keywords |-> keywords[k]]] IN
           entries \in Seq(Entry) /\ IsInjective(entries)
  <1> DEFINE entries == [k \in 1..n |-> [id |-> k, keywords |-> keywords[k]]]
  <1>1. n \in Nat
    OBVIOUS
  <1>2. entries \in [1..n -> Entry]
    BY <1>1 DEF Entry, Vocabulary
  <1>3. entries \in Seq(Entry)
    BY <1>1, <1>2
  <1>4. \A j, k \in 1..n : entries[j] = entries[k] => j = k
    <2> SUFFICES ASSUME NEW j \in 1..n, NEW k \in 1..n, entries[j] = entries[k] PROVE j = k
      OBVIOUS
    <2>1. entries[j].id = j /\ entries[k].id = k
      OBVIOUS
    <2>2. QED BY <2>1
  <1>5. QED BY <1>3, <1>4 DEF IsInjective

\* A process that is started: the wiring.
LEMMA EveryStart ==
    ASSUME NEW env \in Environments, NEW content \in Contents,
           case' = [of |-> "wiring", env |-> env, content |-> content]
    PROVE  StartsAsConfigured'
  <1>1. case'.env = env /\ case'.content = content
    OBVIOUS
  <1>2. QED BY <1>1, KeysGiven, InteractionsApart, BlanksLeftOut, GuidanceIsWhole
        DEF StartsAsConfigured

\* What a step picks, by kind.
LEMMA Pick ==
    ASSUME Next
    PROVE  /\ case'.of = "wiring" => process_started
           /\ case'.of = "read" => sheet_read
           /\ case'.of = "faq" => question_asked
           /\ case'.of = "phone" => number_said
           /\ case'.of = "claims" => claims_read
           /\ case'.of = "customers" => customers_read
           /\ case'.of = "knowledge" => knowledge_loaded
           /\ case'.of = "rates" => events_counted
           /\ case'.of = "latency" => durations_observed
  <1>1. /\ number_said => case'.of = "phone"
        /\ question_asked => case'.of = "faq"
        /\ knowledge_loaded => case'.of = "knowledge"
    BY DEF number_said, question_asked, knowledge_loaded
  <1>2. /\ customers_read => case'.of = "customers"
        /\ claims_read => case'.of = "claims"
        /\ process_started => case'.of = "wiring"
    BY DEF customers_read, claims_read, process_started
  <1>3. /\ events_counted => case'.of = "rates"
        /\ durations_observed => case'.of = "latency"
        /\ sheet_read => case'.of = "read"
    BY DEF events_counted, durations_observed, sheet_read
  <1>4. QED BY <1>1, <1>2, <1>3 DEF Next

\* StartsAsConfigured, whatever the environment and the files say: a broken log of
\* interactions costs only itself, a blank is not a value, and a process that serves
\* calls has something to say of every status.
THEOREM EveryProcessStartsAsConfigured == Spec => []StartsAsConfigured
  <1>1. Init => StartsAsConfigured
    BY DEF Init, StartsAsConfigured
  <1>2. StartsAsConfigured /\ [Next]_case => StartsAsConfigured'
    <2> SUFFICES ASSUME StartsAsConfigured, [Next]_case, case'.of = "wiring"
                 PROVE  StartsAsConfigured'
      BY DEF StartsAsConfigured
    <2>1. CASE process_started
      BY <2>1, EveryStart DEF process_started
    <2>2. CASE UNCHANGED case
      BY <2>2 DEF StartsAsConfigured
    <2>3. QED BY <2>1, <2>2, Pick
  <1>3. QED BY <1>1, <1>2, PTL DEF Spec

\* FaqBestAnswer, for any number of entries over any finite vocabulary: the best
\* entry answers, and file names decide only between equals.
THEOREM EveryQuestionFindsItsBest == Spec => []FaqBestAnswer
  <1>1. Init => FaqBestAnswer
    BY DEF Init, FaqBestAnswer
  <1>2. FaqBestAnswer /\ [Next]_case => FaqBestAnswer'
    <2> SUFFICES ASSUME FaqBestAnswer, [Next]_case, case'.of = "faq"
                 PROVE  FaqBestAnswer'
      BY DEF FaqBestAnswer
    <2>1. CASE question_asked
      <3>1. PICK tokens \in SUBSET Words, n \in 1..MaxEntries :
            \E keywords \in [1..n -> (SUBSET Words) \ {{}}] :
                case' = [of |-> "faq", tokens |-> tokens,
                         entries |-> [k \in 1..n |-> [id |-> k, keywords |-> keywords[k]]]]
        BY <2>1 DEF question_asked
      <3>2. PICK keywords \in [1..n -> (SUBSET Words) \ {{}}] :
                case' = [of |-> "faq", tokens |-> tokens,
                         entries |-> [k \in 1..n |-> [id |-> k, keywords |-> keywords[k]]]]
        BY <3>1
      <3> DEFINE entries == [k \in 1..n |-> [id |-> k, keywords |-> keywords[k]]]
      <3>3. entries \in Seq(Entry) /\ IsInjective(entries)
        BY EntriesPicked
      <3>4. case'.tokens = tokens /\ case'.entries = entries
        BY <3>2
      <3> HIDE DEF entries
      <3>5. BestAnswer(tokens, entries) /\ FileOrderOnlyBreaksTies(tokens, entries)
        BY <3>3, BestAnswers, FileOrderBreaksTies DEF Vocabulary
      <3>6. QED BY <3>4, <3>5 DEF FaqBestAnswer
    <2>2. CASE UNCHANGED case
      BY <2>2 DEF FaqBestAnswer
    <2>3. QED BY <2>1, <2>2, Pick
  <1>3. QED BY <1>1, <1>2, PTL DEF Spec

\* FaultsAreTold, however the credentials, the endpoint and the sheet end: a failure
\* is never told as the absence of a record, and is retried just when it may pass by
\* itself.
THEOREM EveryFaultIsTold == Spec => []FaultsAreTold
  <1>1. Init => FaultsAreTold
    BY DEF Init, FaultsAreTold
  <1>2. FaultsAreTold /\ [Next]_case => FaultsAreTold'
    <2> SUFFICES ASSUME FaultsAreTold, [Next]_case, case'.of = "read"
                 PROVE  FaultsAreTold'
      BY DEF FaultsAreTold
    <2>1. CASE sheet_read
      <3>1. PICK read \in Faults!Reads : case' = [of |-> "read", read |-> read]
        BY <2>1 DEF sheet_read
      <3>2. case'.read = read
        BY <3>1
      <3>3. QED BY <3>2, ReadsAreTold DEF FaultsAreTold
    <2>2. CASE UNCHANGED case
      BY <2>2 DEF FaultsAreTold
    <2>3. QED BY <2>1, <2>2, Pick
  <1>3. QED BY <1>1, <1>2, PTL DEF Spec

\* FaqFilesAreAnswered, for any number of files, any vocabulary and any required
\* topics: a service that starts answers from each of its files when it is asked in
\* the file's own words.
THEOREM EveryFileIsAnswered == Spec => []FaqFilesAreAnswered
  <1>1. Init => FaqFilesAreAnswered
    BY DEF Init, FaqFilesAreAnswered
  <1>2. FaqFilesAreAnswered /\ [Next]_case => FaqFilesAreAnswered'
    <2> SUFFICES ASSUME FaqFilesAreAnswered, [Next]_case, case'.of = "knowledge"
                 PROVE  FaqFilesAreAnswered'
      BY DEF FaqFilesAreAnswered
    <2>1. CASE knowledge_loaded
      <3>1. PICK n \in 0..MaxEntries : \E files \in [1..n -> Files] :
                case' = [of |-> "knowledge", files |-> files]
        BY <2>1 DEF knowledge_loaded
      <3>2. PICK files \in [1..n -> Files] : case' = [of |-> "knowledge", files |-> files]
        BY <3>1
      <3>3. files \in Seq(Files) /\ case'.files = files
        <4>1. n \in Nat
          OBVIOUS
        <4>2. QED BY <3>2, <4>1, PlacesFilled
      <3>4. FilesAreAnswered(files, Words)
        BY <3>3, FilesAnswered
      <3>5. QED BY <3>3, <3>4 DEF FaqFilesAreAnswered
    <2>2. CASE UNCHANGED case
      BY <2>2 DEF FaqFilesAreAnswered
    <2>3. QED BY <2>1, <2>2, Pick
  <1>3. QED BY <1>1, <1>2, PTL DEF Spec

\* RowsColumnsMayMove, for any number of customers: what the service reads of a sheet
\* of customers does not depend on where its columns are.
THEOREM EveryColumnIsFound == Spec => []RowsColumnsMayMove
  <1>1. Init => RowsColumnsMayMove
    BY DEF Init, RowsColumnsMayMove
  <1>2. RowsColumnsMayMove /\ [Next]_case => RowsColumnsMayMove'
    <2> SUFFICES ASSUME RowsColumnsMayMove, [Next]_case, case'.of = "customers"
                 PROVE  RowsColumnsMayMove'
      BY DEF RowsColumnsMayMove
    <2>1. CASE customers_read
      <3>1. PICK plain \in Headers(Plain), n \in 1..MaxCustomers :
                \E header \in Noted(plain), records \in [1..n -> Records] :
                    case' = [of |-> "customers", header |-> header, records |-> records]
        BY <2>1, Zenon DEF customers_read
      <3>2. PICK header \in Noted(plain), records \in [1..n -> Records] :
                case' = [of |-> "customers", header |-> header, records |-> records]
        BY <3>1, Zenon
      <3>3. case'.header = header /\ case'.records = records
        BY <3>2
      <3>4. records \in Seq(Records)
        <4>1. n \in Nat
          OBVIOUS
        <4>2. QED BY <4>1, PlacesFilled
      <3>5. \A phones, answers : ColumnsMayMove(header, Plain, records, phones, answers)
        BY <3>4, SheetsPicked, ColumnsMove
      <3>6. QED BY <3>3, <3>5, Zenon DEF RowsColumnsMayMove
    <2>2. CASE UNCHANGED case
      BY <2>2 DEF RowsColumnsMayMove
    <2>3. QED BY <2>1, <2>2, Pick
  <1>3. QED BY <1>1, <1>2, PTL DEF Spec

\* RowsBadRowHidesNobody, for any number of customers: whoever has a usable row is
\* found by his number, and a malformed row costs nobody but itself.
THEOREM EveryUsableRowIsFound == Spec => []RowsBadRowHidesNobody
  <1>1. Init => RowsBadRowHidesNobody
    BY DEF Init, RowsBadRowHidesNobody
  <1>2. RowsBadRowHidesNobody /\ [Next]_case => RowsBadRowHidesNobody'
    <2> SUFFICES ASSUME RowsBadRowHidesNobody, [Next]_case, case'.of = "customers"
                 PROVE  RowsBadRowHidesNobody'
      BY DEF RowsBadRowHidesNobody
    <2>1. CASE customers_read
      <3>1. PICK plain \in Headers(Plain), n \in 1..MaxCustomers :
                \E header \in Noted(plain), records \in [1..n -> Records] :
                    case' = [of |-> "customers", header |-> header, records |-> records]
        BY <2>1, Zenon DEF customers_read
      <3>2. PICK header \in Noted(plain), records \in [1..n -> Records] :
                case' = [of |-> "customers", header |-> header, records |-> records]
        BY <3>1, Zenon
      <3>3. case'.header = header /\ case'.records = records
        BY <3>2
      <3>4. records \in Seq(Records)
        <4>1. n \in Nat
          OBVIOUS
        <4>2. QED BY <4>1, PlacesFilled
      <3>5. \A phones : BadRowHidesNobody(header, records, phones)
        BY <3>4, SheetsPicked, CellsPicked, NobodyHidden
      <3>6. QED BY <3>3, <3>5, Zenon DEF RowsBadRowHidesNobody
    <2>2. CASE UNCHANGED case
      BY <2>2 DEF RowsBadRowHidesNobody
    <2>3. QED BY <2>1, <2>2, Pick
  <1>3. QED BY <1>1, <1>2, PTL DEF Spec

\* ClaimsLatestIsTold, for any number of claims in any calendar: of a customer's
\* claims the one updated last is told, unless the sheet writes its months first.
THEOREM EveryLatestClaimIsTold == Spec => []ClaimsLatestIsTold
  <1>1. Init => ClaimsLatestIsTold
    BY DEF Init, ClaimsLatestIsTold
  <1>2. ClaimsLatestIsTold /\ [Next]_case => ClaimsLatestIsTold'
    <2> SUFFICES ASSUME ClaimsLatestIsTold, [Next]_case, case'.of = "claims"
                 PROVE  ClaimsLatestIsTold'
      BY DEF ClaimsLatestIsTold
    <2>1. CASE claims_read
      <3>1. PICK header \in Headers(PlainClaims), n \in 1..MaxClaims,
                 locale \in {"iso", "day_first", "month_first"} :
                \E dates \in [1..n -> 0..Months * Days] :
                    case' = [of |-> "claims", header |-> header, locale |-> locale,
                             dates |-> dates]
        BY <2>1, Zenon DEF claims_read
      <3>2. PICK dates \in [1..n -> 0..Months * Days] :
                case' = [of |-> "claims", header |-> header, locale |-> locale,
                         dates |-> dates]
        BY <3>1, Zenon
      <3>3. case'.header = header /\ case'.locale = locale /\ case'.dates = dates
        BY <3>2
      <3>4. <<"c1">> \in Seq(Symbols) /\ <<"c1">> # <<>> /\ strip(<<"c1">>) = <<"c1">>
        <4>1. {"1", "5", "c1", "c2", "n", "v", "w"} \subseteq Symbols
          BY Zenon DEF Symbols
        <4>2. /\ <<"c1">> \in Seq(Symbols) /\ Len(<<"c1">>) = 1 /\ <<"c1">>[1] = "c1"
          BY <4>1
        <4>3. "c1" # Space
          BY ClaimsAreWritten
        <4>4. QED BY <4>2, <4>3, NothingToStrip
      <3>5. LatestIsTold(header, locale, dates, <<"c1">>)
        <4>1. CASE locale = "month_first"
          BY <4>1 DEF LatestIsTold
        <4>2. CASE locale \in {"iso", "day_first"}
          <5>1. n \in Nat
            OBVIOUS
          <5>2. QED BY <3>4, <4>2, <5>1, ClaimSheetsPicked, LatestTold
        <4>3. QED BY <4>1, <4>2
      <3>6. QED BY <3>3, <3>5, Zenon DEF ClaimsLatestIsTold
    <2>2. CASE UNCHANGED case
      BY <2>2 DEF ClaimsLatestIsTold
    <2>3. QED BY <2>1, <2>2, Pick
  <1>3. QED BY <1>1, <1>2, PTL DEF Spec

\* PhoneSpelledAlike, for texts of any length over any digits: one number has one
\* spelling, however it is said, and keeps it when it is normalised again.
THEOREM EveryNumberHasOneSpelling == Spec => []PhoneSpelledAlike
  <1>1. Init => PhoneSpelledAlike
    BY DEF Init, PhoneSpelledAlike
  <1>2. PhoneSpelledAlike /\ [Next]_case => PhoneSpelledAlike'
    <2> SUFFICES ASSUME PhoneSpelledAlike, [Next]_case, case'.of = "phone"
                 PROVE  PhoneSpelledAlike'
      BY DEF PhoneSpelledAlike
    <2>1. CASE number_said
      <3>1. PICK text \in Texts : case' = [of |-> "phone", text |-> text]
        BY <2>1, Zenon DEF number_said
      <3>2. case'.text = text
        BY <3>1
      <3> DEFINE S == Digits \cup {"+", "x", Space}
      <3>3. text \in Seq(S)
        <4>1. PICK n \in 0..TextLength : text \in [1..n -> S]
          BY Zenon DEF Texts
        <4>2. n \in Nat
          OBVIOUS
        <4> HIDE DEF S
        <4>3. QED BY <4>1, <4>2, PlacesFilled
      <3>4. SpelledAlike(text) /\ Idempotent(text)
        BY <3>3, OneSpelling, SpelledTwice
      <3>5. QED BY <3>2, <3>4 DEF PhoneSpelledAlike
    <2>2. CASE UNCHANGED case
      BY <2>2 DEF PhoneSpelledAlike
    <2>3. QED BY <2>1, <2>2, Pick
  <1>3. QED BY <1>1, <1>2, PTL DEF Spec

\* MetricsCountEverything, for any number of events in any order and any durations:
\* each rate is the share of what happened, and each summary has the extremes of all
\* it was told.
THEOREM EveryEventIsCounted == Spec => []MetricsCountEverything
  <1>1. Init => MetricsCountEverything
    BY DEF Init, MetricsCountEverything
  <1>2. MetricsCountEverything /\ [Next]_case => MetricsCountEverything'
    <2> SUFFICES ASSUME MetricsCountEverything, [Next]_case, case'.of \in {"rates", "latency"}
                 PROVE  MetricsCountEverything'
      BY DEF MetricsCountEverything
    <2>1. CASE events_counted
      <3>1. PICK n \in 0..MaxEvents : \E keys \in [1..n -> Keys] : case' = [of |-> "rates", keys |-> keys]
        BY <2>1, Zenon DEF events_counted
      <3>2. PICK keys \in [1..n -> Keys] : case' = [of |-> "rates", keys |-> keys]
        BY <3>1, Zenon
      <3>3. case'.of = "rates" /\ case'.keys = keys
        BY <3>2
      <3>4. keys \in Seq(Keys)
        BY PlacesFilled
      <3>5. Rates!RatesCountEverything(keys)
        BY <3>4, RatesCount
      <3>6. case'.of # "latency"
        BY <3>3
      <3>7. QED BY <3>3, <3>5, <3>6, Zenon DEF MetricsCountEverything
    <2>2. CASE durations_observed
      <3>1. PICK n \in 0..MaxEvents : \E durations \in [1..n -> 0..MaxDuration] :
                case' = [of |-> "latency", durations |-> durations]
        BY <2>2, Zenon DEF durations_observed
      <3>2. PICK durations \in [1..n -> 0..MaxDuration] :
                case' = [of |-> "latency", durations |-> durations]
        BY <3>1, Zenon
      <3>3. case'.of = "latency" /\ case'.durations = durations
        BY <3>2
      <3>4. durations \in Seq(Nat)
        <4>1. n \in Nat /\ durations \in [1..n -> Nat]
          OBVIOUS
        <4>2. QED BY <4>1, PlacesFilled
      <3>5. Rates!ExtremesOfAll(durations)
        BY <3>4, ExtremesFound
      <3>6. case'.of # "rates"
        BY <3>3
      <3>7. QED BY <3>3, <3>5, <3>6, Zenon DEF MetricsCountEverything
    <2>3. CASE UNCHANGED case
      BY <2>3 DEF MetricsCountEverything
    <2>4. QED BY <2>1, <2>2, <2>3, Pick
  <1>3. QED BY <1>1, <1>2, PTL DEF Spec

=============================================================================
