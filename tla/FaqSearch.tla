------------------------------ MODULE FaqSearch ------------------------------
(***************************************************************************)
(* services/faq.py: which knowledge files are loaded, and which entry      *)
(* answers a question (FaqService.search).                                 *)
(*                                                                         *)
(* A question is the set of its tokens without the stop words; an entry is *)
(* its id and its keywords, a phrase or a stop word among them counting as *)
(* a word that no question contains.  Scores are quotients of small numbers*)
(* and are compared by cross-multiplication.                               *)
(***************************************************************************)
EXTENDS Naturals, FiniteSets, Sequences, SequencesExt, Selection

CONSTANTS _HIGH_CONFIDENCE, _MEDIUM_CONFIDENCE,     \* in hundredths
          REQUIRED_TOPIC_IDS,
          NoEntry

ASSUME FaqAssumption ==
    /\ {_HIGH_CONFIDENCE, _MEDIUM_CONFIDENCE} \subseteq Nat
    /\ _MEDIUM_CONFIDENCE <= _HIGH_CONFIDENCE /\ _HIGH_CONFIDENCE <= 100

accepted(ids) ==
    /\ ids # <<>>
    /\ IsInjective(ids)
    /\ REQUIRED_TOPIC_IDS \subseteq ToSet(ids)

\* Fault: the first file that is not ours ends the listing.
ours_until(files) ==
    LET strays == {n \in DOMAIN files : ~files[n].frontmatter} IN
    IF strays = {} THEN files ELSE SubSeq(files, 1, Min(strays) - 1)

\* A file without frontmatter is not ours.
ours(files) == only(files, {file \in ToSet(files) : file.frontmatter})

\* missing: nothing of the id, the topic and the answer (described), nor of the
\* keywords.
complete(file) == file.described /\ file.keywords # {}

\* load_faq_entries: the entries served, or NoEntry where startup fails.  Every
\* file is read, ours or not, before it is looked at.
load_faq_entries(files) ==
    LET kept == ours(files) IN
    IF /\ \A n \in DOMAIN files : files[n].readable
       /\ \A n \in DOMAIN kept : complete(kept[n])
       /\ accepted([n \in DOMAIN kept |-> kept[n].id])
    THEN [n \in DOMAIN kept |-> [id |-> kept[n].id, keywords |-> kept[n].keywords]]
    ELSE NoEntry

matched(tokens, entry) == tokens \cap entry.keywords
hits(tokens, entry) == Cardinality(matched(tokens, entry))

\* Fault: coverage alone, so that the first file wins a tie.
outranks_by_coverage(tokens, entry, best) ==
    best = NoEntry \/ hits(tokens, entry) > hits(tokens, best)

\* rank > best_rank: first the share of the question, then the share of the
\* entry's own vocabulary.
outranks(tokens, entry, best) ==
    \/ best = NoEntry
    \/ hits(tokens, entry) > hits(tokens, best)
    \/ /\ hits(tokens, entry) = hits(tokens, best)
       /\ hits(tokens, entry) * Cardinality(best.keywords)
              > hits(tokens, best) * Cardinality(entry.keywords)

\* One round of the loop over the entries.
preferred(tokens, best, entry) ==
    IF matched(tokens, entry) # {} /\ outranks(tokens, entry, best) THEN entry ELSE best

\* The loop over the entries in file order.
best_entry(tokens, entries) ==
    LET best[n \in 0..Len(entries)] ==
            IF n = 0 THEN NoEntry ELSE preferred(tokens, best[n - 1], entries[n])
    IN  best[Len(entries)]

\* _confidence_for, of the share of the question the best entry accounts for.
_confidence_for(hit, asked) ==
    CASE 100 * hit >= _HIGH_CONFIDENCE * asked   -> "HIGH"
      [] /\ 100 * hit >= _MEDIUM_CONFIDENCE * asked
         /\ 100 * hit < _HIGH_CONFIDENCE * asked -> "MEDIUM"
      [] /\ hit > 0
         /\ 100 * hit < _MEDIUM_CONFIDENCE * asked -> "LOW"
      [] OTHER -> "NONE"

search(tokens, entries) ==
    LET best       == best_entry(tokens, entries)
        hit        == IF best = NoEntry THEN 0 ELSE hits(tokens, best)
        confidence == IF tokens = {} THEN "NONE"
                      ELSE IF hit = 0 THEN "NONE"
                      ELSE _confidence_for(hit, Cardinality(tokens))
    IN  IF confidence \in {"HIGH", "MEDIUM"}
        THEN [outcome |-> "ANSWER_FOUND", confidence |-> confidence, entry |-> best]
        ELSE [outcome |-> IF confidence = "NONE" THEN "NO_MATCH" ELSE "LOW_CONFIDENCE",
              confidence |-> confidence, entry |-> NoEntry]

-----------------------------------------------------------------------------
\* Nothing is discovered "when a caller asks": of a service that starts, every
\* file with frontmatter, whatever files surround it, is answered from when the
\* caller uses exactly the words of its keywords that can be said.  The answer has
\* all of them and is no broader than the file; it is the file's own if all its
\* keywords can be said and no other file has the very same.  The topics that must
\* be known are among these files (services/faq.py:36-38, 151-160, 217-267).
FilesAreAnswered(files, sayable) ==
    LET entries == load_faq_entries(files) IN
    entries # NoEntry =>
        /\ \A topic \in REQUIRED_TOPIC_IDS :
               \E n \in DOMAIN files : files[n].frontmatter /\ files[n].id = topic
        /\ \A n \in DOMAIN files :
               LET own  == files[n].keywords \cap sayable
                   told == search(own, entries)
                   same == {m \in DOMAIN files : files[m].keywords = files[n].keywords}
               IN  files[n].frontmatter /\ own # {} =>
                       /\ told.outcome = "ANSWER_FOUND"
                       /\ own \subseteq told.entry.keywords
                       /\ Cardinality(told.entry.keywords) <= Cardinality(files[n].keywords)
                       /\ own = files[n].keywords /\ same = {n}
                          => told.entry.id = files[n].id

\* The answer read out is the best one: no other entry accounts for more of the
\* question, and none that accounts for as much is narrower
\* (services/faq.py:151-158).
BestAnswer(tokens, entries) ==
    LET result == search(tokens, entries) IN
    result.outcome = "ANSWER_FOUND" =>
        \A e \in ToSet(entries) :
            LET same == hits(tokens, e) = hits(tokens, result.entry) IN
            /\ hits(tokens, e) <= hits(tokens, result.entry)
            /\ same => Cardinality(e.keywords) >= Cardinality(result.entry.keywords)

\* Renaming a file, which moves its entry, changes the answer only between
\* entries that tie in both respects, and then keeps to file order; whether
\* there is an answer it never changes (services/faq.py:154-155).
FileOrderOnlyBreaksTies(tokens, entries) ==
    LET here  == search(tokens, entries)
        there == search(tokens, Reverse(entries))
    IN  /\ here.outcome = there.outcome
        /\ here.confidence = there.confidence
        /\ here.outcome = "ANSWER_FOUND" =>
               LET firsts == {n \in DOMAIN entries : entries[n] = here.entry}
                   lasts  == {n \in DOMAIN entries : entries[n] = there.entry}
               IN  /\ Cardinality(here.entry.keywords) = Cardinality(there.entry.keywords)
                   /\ \A n \in firsts, k \in lasts : n <= k

=============================================================================
