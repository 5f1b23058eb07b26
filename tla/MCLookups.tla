------------------------------ MODULE MCLookups ------------------------------
(***************************************************************************)
(* The pure functions of the service over bounded inputs: a behaviour picks*)
(* one input of one function and stops.                                    *)
(***************************************************************************)
EXTENDS SheetRows, FaqSearch

CONSTANTS TextLength, Words, Phrase, FileWords, MaxEntries, MaxCustomers, MaxClaims, MaxEvents, MaxDuration,
          Blank, Odd

INSTANCE Wiring

Rates == INSTANCE Metrics

Faults == INSTANCE UpstreamFaults

\* What is not there is told from what is.
ASSUME NothingIsTold ==
    /\ None \notin Faults!Error
    /\ None # Odd /\ None \notin Nat
    /\ None \notin {"outcome"} \X {"success", "SUCCESS", "persisted"}
    /\ None \notin {"local", "prod", "not_json", "no_object", "incomplete", "complete"}

\* What may stand among keywords: a word a question can contain, or a phrase.
Vocabulary == Words \cup {Phrase}

Topics == REQUIRED_TOPIC_IDS \cup {"other"}

\* Words can be counted, no entry is told from any, and no list of entries either.
ASSUME EntriesCount ==
    /\ IsFiniteSet(Words) /\ FileWords \subseteq Vocabulary
    /\ NoEntry \notin [id : Nat \cup Topics, keywords : SUBSET Vocabulary]

MCCountryCode == <<"1">>

VARIABLE case

Init == case = [of |-> "none"]

Texts == UNION {[1..n -> Digits \cup {"+", "x", Space}] : n \in 0..TextLength}

number_said ==
    /\ case.of = "none"
    /\ \E text \in Texts : case' = [of |-> "phone", text |-> text]

question_asked ==
    /\ case.of = "none"
    /\ \E tokens \in SUBSET Words, n \in 1..MaxEntries :
       \E keywords \in [1..n -> (SUBSET Words) \ {{}}] :
           case' = [of |-> "faq", tokens |-> tokens,
                    entries |-> [k \in 1..n |-> [id |-> k, keywords |-> keywords[k]]]]

Plain == <<"customer_id", "full_name", "phone_number", "verification_value">>
PlainClaims == <<"claim_id", "customer_id", "status", "required_documents", "last_updated">>

\* The columns in any order, with a blank column or one of notes, or without.
Headers(plain) ==
    {header \in [1..Len(plain) -> ToSet(plain)] : ToSet(header) = ToSet(plain)}

Noted(header) == {header, <<"">> \o header, header \o <<"notes">>}

\* A number in two spellings, another number, and none at all.
Phones == {<<"5", "5">>, <<"+", "1", Space, "5", "5">>, <<"5", "1", "5">>, <<"5">>}

Rows(ids, phones, values) ==
    [customer_id : ids, full_name : {<<"n">>}, phone_number : phones, verification_value : values]

\* Two customers who may share a number, or have none that can be used, and a row
\* without its first cell or with nothing in its last.
Records ==
    Rows({<<"c1">>, <<"c2", Space>>}, Phones, {<<"v", "w">>}) \cup
    Rows({<<>>}, {<<"5", "5">>}, {<<"v", "w">>}) \cup
    Rows({<<"c1">>}, {<<"5", "5">>}, {<<Space>>})

Symbols == Digits \cup {"+", "x", Space} \cup {"1", "5", "c1", "c2", "n", "v", "w"}

\* The rows that are read, of cells over these symbols.
CustomerRows ==
    [customer_id : Seq(Symbols), full_name : Seq(Symbols),
     phone_number : Seq(Symbols), verification_value : Seq(Symbols)]

ClaimRows ==
    [claim_id : Seq(Nat), customer_id : Seq(Symbols), status : ClaimStatus, last_updated : Nat]

\* No row, and no list of rows, is taken for one that is not there.
ASSUME RowsAreTold ==
    /\ None \notin CustomerRows /\ None \notin Seq(CustomerRows)
    /\ None \notin ClaimRows /\ None \notin Seq(ClaimRows)

\* There is a status to file a claim under; white space is told from what is written.
ASSUME ClaimsAreWritten ==
    /\ ClaimStatus # {}
    /\ Space \notin Nat \cup ClaimStatus \cup {"c1", "iso", "slash"}

\* A file that is no knowledge file, or cannot be read; one that lacks its
\* keywords or something else; and a complete one.
Files ==
    [readable : BOOLEAN, frontmatter : {FALSE}, described : {FALSE}, id : {"other"},
     keywords : {{}}] \cup
    [readable : {TRUE}, frontmatter : {TRUE}, described : {FALSE}, id : {"other"},
     keywords : {FileWords}] \cup
    [readable : {TRUE}, frontmatter : {TRUE}, described : {TRUE}, id : Topics,
     keywords : SUBSET FileWords]

knowledge_loaded ==
    /\ case.of = "none"
    /\ \E n \in 0..MaxEntries :
       \E files \in [1..n -> Files] : case' = [of |-> "knowledge", files |-> files]

customers_read ==
    /\ case.of = "none"
    /\ \E plain \in Headers(Plain), n \in 1..MaxCustomers :
       \E header \in Noted(plain), records \in [1..n -> Records] :
           case' = [of |-> "customers", header |-> header, records |-> records]

claims_read ==
    /\ case.of = "none"
    /\ \E header \in Headers(PlainClaims), n \in 1..MaxClaims,
          locale \in {"iso", "day_first", "month_first"} :
       \E dates \in [1..n -> 0..Months * Days] :
           case' = [of |-> "claims", header |-> header, locale |-> locale, dates |-> dates]

Given(values) == Restrict(values, {name \in DOMAIN values : values[name] # None})

Environments ==
    {Given(values) : values \in
        [environment : {None, "local", "prod", Odd},
         voice_platform_api_key : {None, Blank, "secret"},
         google_sheets_api_key : {None, Blank, "given"},
         google_sheets_spreadsheet_id : {None, "s1"},
         google_interactions_spreadsheet_id : {None, Blank, "s1"},
         google_service_account_json :
             {None, "not_json", "no_object", "incomplete", "complete"},
         voice_transfer_phone_number : {None, "number"}]}

\* Files with the lines of some statuses, a status there is not among them.
GuidanceFiles ==
    {[submission |-> submission, statuses |-> statuses] :
        submission \in BOOLEAN,
        statuses \in UNION {[D -> BOOLEAN] : D \in SUBSET (ClaimStatus \cup {"LOST"})}}
    \cup {None}

Contents ==
    [guidance : GuidanceFiles, faq : {TRUE}, prompt : {TRUE}] \cup
    [guidance : {None}, faq : BOOLEAN, prompt : BOOLEAN]

process_started ==
    /\ case.of = "none"
    /\ \E env \in Environments, content \in Contents :
           case' = [of |-> "wiring", env |-> env, content |-> content]

\* Every kind of event the rates count, with the labels they are counted with.
Keys ==
    {[metric |-> "calls_total", labels |-> {}]} \cup
    {[metric |-> "escalations_total", labels |-> {<<"reason", reason>>}] :
        reason \in {"emergency", "requested"}} \cup
    {[metric |-> "authentication_attempts_total", labels |-> {<<"outcome", outcome>>}] :
        outcome \in {"success", "failure"}} \cup
    {[metric |-> "postcall_total", labels |-> {<<"outcome", outcome>>}] :
        outcome \in {"persisted", "failed"}} \cup
    UNION {{[metric |-> "tool_calls_total", labels |-> {<<"outcome", outcome>>, <<"tool", tool>>}] :
        outcome \in {"SUCCESS", "FAILED"}} : tool \in {"search_faq", "get_claim_status"}}

events_counted ==
    /\ case.of = "none"
    /\ \E n \in 0..MaxEvents : \E keys \in [1..n -> Keys] : case' = [of |-> "rates", keys |-> keys]

durations_observed ==
    /\ case.of = "none"
    /\ \E n \in 0..MaxEvents : \E durations \in [1..n -> 0..MaxDuration] :
           case' = [of |-> "latency", durations |-> durations]

sheet_read ==
    /\ case.of = "none"
    /\ \E read \in Faults!Reads : case' = [of |-> "read", read |-> read]

Next ==
    \/ number_said \/ question_asked \/ knowledge_loaded
    \/ customers_read \/ claims_read \/ process_started
    \/ events_counted \/ durations_observed \/ sheet_read

Spec == Init /\ [][Next]_case

-----------------------------------------------------------------------------
\* SpelledAlike and Idempotent for every text: one number has one spelling, and
\* keeps it when it is normalised again (core/phone.py:3-8, 26-56).
PhoneSpelledAlike ==
    case.of = "phone" => SpelledAlike(case.text) /\ Idempotent(case.text)

\* FilesAreAnswered for every directory: a service that starts answers from each of
\* its files when it is asked in the file's own words (services/faq.py:36-38, 217-267).
FaqFilesAreAnswered == case.of = "knowledge" => FilesAreAnswered(case.files, Words)

\* BestAnswer and FileOrderOnlyBreaksTies for every question and knowledge base:
\* the best entry answers, and file names decide only between equals
\* (services/faq.py:136-197).
FaqBestAnswer ==
    case.of = "faq" =>
        /\ BestAnswer(case.tokens, case.entries)
        /\ FileOrderOnlyBreaksTies(case.tokens, case.entries)

\* ColumnsMayMove for every order of the columns and every rows
\* (integrations/sheets/rows.py:63-85).
RowsColumnsMayMove ==
    case.of = "customers" =>
        ColumnsMayMove(case.header, Plain, case.records, Phones,
                       {<<"v", Space, "w">>, <<"w">>, <<>>})

\* BadRowHidesNobody likewise (integrations/sheets/rows.py:7-9).
RowsBadRowHidesNobody ==
    case.of = "customers" => BadRowHidesNobody(case.header, case.records, Phones)

\* LatestIsTold for every order of the columns, every dates of claims and
\* every locale but one (integrations/sheets/claims.py:111-117).
ClaimsLatestIsTold ==
    case.of = "claims" => LatestIsTold(case.header, case.locale, case.dates, <<"c1">>)

\* Whatever the environment and the files say, the process starts with what was
\* filled in and nothing less: a broken log of interactions costs only itself, a
\* blank is not a value, and a status without guidance keeps the process from
\* starting (integrations/factory.py:107-110, core/config.py:114-135,
\* services/guidance.py:9-13).
StartsAsConfigured ==
    case.of = "wiring" =>
        /\ InteractionsCostNothingElse(case.env, case.content)
        /\ BlankIsNotThere(case.env, case.content)
        /\ SomethingToSay(case.env, case.content)

\* Each rate is the share of events of any kinds in any order, and each summary has
\* the extremes of any durations (core/metrics.py:42-46, 126-175).
MetricsCountEverything ==
    /\ case.of = "rates" => Rates!RatesCountEverything(case.keys)
    /\ case.of = "latency" => Rates!ExtremesOfAll(case.durations)

\* However a read ends, a failure is not told as the absence of a record, and it is
\* retried just when it may pass by itself (core/failures.py:11-14,
\* integrations/sheets/client.py:34-59).
FaultsAreTold ==
    case.of = "read" =>
        /\ Faults!FaultIsNoAnswer(case.read)
        /\ Faults!RetriedWhileItMayPass(case.read)

=============================================================================
