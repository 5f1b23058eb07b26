---------------------------- MODULE CallHandling ----------------------------
(***************************************************************************)
(* The whole of one process: every webhook of every call, suspended        *)
(* handlers interleaved, the process restarting at any time.               *)
(***************************************************************************)
EXTENDS Authentication, ClaimAccess, Escalation, PostCall

-----------------------------------------------------------------------------
\* The platform delivers a webhook, and the handler runs until it waits.
delivered(c) ==
    \/ "start" \in Events /\ start_call(c)
    \/ "faq" \in Events /\ \E topic \in Topics : search_faq(c, topic)
    \/ "emergency" \in Events /\ intercept(c)
    \/ /\ "representative" \in Events
       /\ \E supplied \in Reasons, notes_alarm \in BOOLEAN :
              representative_requested(c, supplied, notes_alarm)
    \/ \E h \in Handlers :
           \/ "lookup" \in Events /\ submit_phone(h, c)
           \/ "verify" \in Events /\ submit_verification(h, c)
           \/ /\ "claim" \in Events
              /\ \E expected \in Customers \cup {None} : get_claim_status(h, c, expected)
           \/ "end" \in Events /\ call_ended(h, c)

\* What a suspended handler waits for has arrived, or has failed.
answered(h) ==
    \/ lookup_answered(h)
    \/ verification_answered(h)
    \/ claim_answered(h)
    \/ sheet_read_answered(h)
    \/ append_answered(h)

\* The process dies and starts again: whatever it held in memory is lost.
restart ==
    /\ "restart" \in Events
    /\ sessions' = [c \in Calls |-> None]
    /\ handlers' = [h \in Handlers |-> Idle]
    /\ _recorded' = <<>>
    /\ _records' = <<>>
    /\ CALLS_TOTAL' = [c \in Calls |-> 0]
    /\ step' = [c \in Calls |-> None]
    /\ wrong' = [c \in Calls |-> 0]
    /\ UNCHANGED <<sheet, deliveries, verified, disclosed>>

Next ==
    \/ \E c \in Calls : delivered(c)
    \/ \E h \in Handlers : answered(h)
    \/ restart

Spec == Init /\ [][Next]_vars

\* Every upstream call ends: httpx bounds each attempt by a timeout and
\* retry_async bounds the attempts.  Callers and the platform promise nothing.
FairSpec == Spec /\ \A h \in Handlers : WF_vars(answered(h))

-----------------------------------------------------------------------------
(* Properties that hold however the handlers of a call overlap *)

\* The sessions a step could still act on: the stored one and the copies the
\* suspended handlers hold.
held(c) ==
    ({sessions[c]} \ {None})
        \cup {handlers[h].session : h \in {g \in Handlers : handlers[g].call = c}}

\* A session says AUTHENTICATED only for a customer the Customers sheet
\* confirmed on that call, and this is as true of every stale copy a
\* suspended handler may yet save as it is of the store
\* (models/enums.py:16-19).
VerifiedBeforeAuthenticated ==
    \A c \in Calls : \A s \in held(c) :
        is_authenticated(s) => s.customer_id \in verified[c]

\* A session that carries a claim is authenticated as the claim's owner, so
\* a claim number never outlives the verification it was disclosed under
\* (tools/faq_tool.py:108-110).
ClaimFollowsItsOwner ==
    \A c \in Calls : \A s \in held(c) :
        s.claim_id # None =>
            is_authenticated(s) /\ claim_owner[s.claim_id] = s.customer_id

\* A session, stored or held, is locked exactly when its budget of wrong
\* answers is spent: no copy can be made to judge a further one
\* (models/session.py:147-160, services/authentication.py:199-212).
LockedAtBudget ==
    \A c \in Calls : \A s \in held(c) :
        s.authentication_attempts >= MAX_AUTHENTICATION_ATTEMPTS
            <=> s.authentication_status = "AUTHENTICATION_FAILED"

\* A caller whose record was found can go on verifying until the budget is spent:
\* whatever failed, was raised half way (VERIFYING then stays on the session) or
\* was saved late, no session is in the middle of verification without a customer
\* to verify and an attempt left (services/authentication.py:204-259,
\* tools/registry.py:148-153).
FoundMayVerify ==
    \A c \in Calls : \A s \in held(c) :
        s.authentication_status \in {"CUSTOMER_FOUND", "VERIFYING"} => may_verify(s)

\* The row a call would be filed with tells one story: who ends a call verified is
\* told of as verified, and "no account" is only said of a caller whose last number
\* had none (models/session.py:113-130, services/summary.py:46-87).
RowTellsOneStory ==
    \A c \in Calls : \A s \in held(c) :
        LET ended == with_outcome(s, derive_outcome(s))
            identification == _identification_sentence(ended)
            closing == _closing_sentence(ended)
            sentiment == score_sentiment(ended)
        IN /\ closing = "completed" => identification = "verified"
           /\ identification = "verified" => closing \notin {"unverified", "no match", "ended"}
           /\ closing = "unverified" => identification = "not verified"
           /\ closing = "no match" \/ identification = "no account" =>
                  s.authentication_status = "UNAUTHENTICATED"
           /\ sentiment = "POSITIVE" => closing = "completed"
           /\ closing \in {"emergency", "unverified", "no match"} => sentiment = "NEGATIVE"

\* The process-wide guard never suppresses the only row of a call: what it
\* remembers is on the sheet (integrations/sheets/interactions.py:83-85).
RememberedIsOnFile == \A i \in DOMAIN _recorded : on_file(_recorded[i])

Boundary ==
    INSTANCE DisclosureBoundary
        WITH owner <- claim_owner,
             proved <- verified,
             filed <- {<<sheet[i].call_id, sheet[i].customer_id>> :
                           i \in {j \in DOMAIN sheet : sheet[j].authenticated}}

\* Every behaviour discloses and files only what the boundary allows.
ImplementsBoundary == Boundary!Spec

\* What makes the five session properties and the boundary inductive.  What
\* is true of a session given the customers verified on its call:
Grounded(s, proved) ==
    /\ is_authenticated(s) => s.customer_id \in proved
    /\ s.claim_id # None =>
           is_authenticated(s) /\ claim_owner[s.claim_id] = s.customer_id
    /\ s.authentication_attempts >= MAX_AUTHENTICATION_ATTEMPTS
           <=> s.authentication_status = "AUTHENTICATION_FAILED"
    /\ s.authentication_status \in {"CUSTOMER_FOUND", "VERIFYING"} => s.customer_id # None
    /\ s.conversation_outcome = "CUSTOMER_NOT_FOUND" =>
           s.authentication_status \notin {"CUSTOMER_FOUND", "VERIFYING"}

\* and what the guard before each wait established, which the held copy
\* keeps however the store moves on.
Fits(waiting) ==
    LET s == waiting.session IN
    /\ waiting.awaiting = "lookup" => ~is_terminal(s)
    /\ waiting.awaiting = "verify" => /\ s.authentication_status = "VERIFYING"
                                      /\ s.customer_id \in Customers
    /\ waiting.awaiting = "claim" => require_authenticated(s)
    /\ waiting.awaiting \in {"sheet_read", "sheet_append"} =>
           s.conversation_outcome \in ConversationOutcome

SessionsGrounded == \A c \in Calls : live(c) => Grounded(sessions[c], verified[c])

HandlersGrounded ==
    \A h \in Handlers : handlers[h].awaiting \in Waits =>
        /\ Fits(handlers[h])
        /\ Grounded(handlers[h].session, verified[handlers[h].call])

\* What has left the system was verified first.
OnlyProvedLeaves ==
    /\ \A c \in Calls : \A claim \in disclosed[c] : claim_owner[claim] \in verified[c]
    /\ \A i \in DOMAIN sheet :
           sheet[i].authenticated => sheet[i].customer_id \in verified[sheet[i].call_id]

\* The inductive invariant: every session a step can still act on is grounded
\* (models/session.py:74-102, services/authentication.py:199-218,
\* services/authorization.py:23-49).
Inductive == TypeOK /\ SessionsGrounded /\ HandlersGrounded /\ OnlyProvedLeaves

-----------------------------------------------------------------------------
(* Properties that need one webhook of a call at a time *)

\* What a suspended handler holds is what the store holds, and no second
\* handler holds the same call: there is nothing stale to save.
CopiesAreCurrent ==
    \A h \in Handlers : handlers[h] # Idle =>
        /\ handlers[h].session = sessions[handlers[h].call]
        /\ \A g \in Handlers : handlers[g].call = handlers[h].call => g = h

\* The attempt count of a session is the number of wrong answers judged since
\* it began (services/session_store.py:43-44 promises it for any overlap).
AttemptsAreWrongAnswers ==
    \A c \in Calls : live(c) => sessions[c].authentication_attempts = wrong[c]

phase_of(s) ==
    IF s = None THEN "none"
    ELSE IF is_authenticated(s) THEN "verified"
    ELSE IF s.authentication_status = "AUTHENTICATION_FAILED" THEN "locked"
    ELSE "open"

Budget ==
    INSTANCE VerificationBudget
        WITH Budget <- MAX_AUTHENTICATION_ATTEMPTS,
             phase <- [c \in Calls |-> phase_of(sessions[c])]

\* Three wrong answers lock a call, and a verified or locked call stays so
\* until it ends (models/enums.py:30-32).
ImplementsBudget == Budget!Spec

\* A call marked for a representative stays marked until its session is
\* released (services/escalation.py:120).
EscalationSticks ==
    [][\A c \in Calls :
           live(c) /\ sessions[c].escalated /\ (live(c))' => (sessions[c].escalated)']_vars

rows_of(c) == {i \in DOMAIN sheet : sheet[i].call_id = c}

\* However often the end of a call is delivered, and across restarts and
\* evictions from the guard, it has one row
\* (integrations/repositories.py:212-213).
OneRowPerCall == \A c \in Calls : Cardinality(rows_of(c)) <= 1

\* When acknowledgements are lost the duplicates of a call are at most the
\* retries of one append: no later end of the call adds to them.
RowsWithinRetries == \A c \in Calls : Cardinality(rows_of(c)) <= max_retries + 1

-----------------------------------------------------------------------------
(* Liveness *)

\* Once the end of a call is being filed its session is released, however the
\* filing fails (services/conversation.py:188-196).
EndedCallIsFreed ==
    \A c \in Calls :
        (\E h \in Handlers : handlers[h].call = c
                             /\ handlers[h].awaiting \in {"sheet_read", "sheet_append"})
            ~> ~live(c)

-----------------------------------------------------------------------------
(* Claims of the comments and documents, each checked on its own *)

\* ATTEMPTS_EXHAUSTED means three failed verification attempts
\* (core/failures.py:191-194).
ExhaustedMeansThreeFailures ==
    \A c \in Calls :
        step[c] = "ATTEMPTS_EXHAUSTED" => wrong[c] >= MAX_AUTHENTICATION_ATTEMPTS

\* An emergency is a bad call whatever else happened (services/summary.py:99-100).
EmergencyIsNegative ==
    [][\A c \in Calls :
           /\ rows_of(c)' # rows_of(c)
           /\ \E i \in DOMAIN _records : _records[i].call_id = c
                                         /\ _records[i].reason = "EMERGENCY"
           => (sheet[Len(sheet)].sentiment)' = "NEGATIVE"]_vars

=============================================================================
