----------------------------- MODULE ClaimAccess -----------------------------
(***************************************************************************)
(* services/claims.py, services/authorization.py and the two tools that    *)
(* read claim data out: tools/claim_status.py and tools/faq_tool.py.       *)
(***************************************************************************)
EXTENDS CallState

\* The session's own customer is the only one in reach.
require_authenticated(s) == is_authenticated(s) /\ s.customer_id # None

\* Fault: a request that names the session's customer needs no verification.
authorised_by_name(s, expected) ==
    /\ s.customer_id # None
    /\ expected \in {None, s.customer_id}

\* A customer_id the request names is checked, never used.
authorised(s, expected) ==
    /\ require_authenticated(s)
    /\ expected \in {None, s.customer_id}

-----------------------------------------------------------------------------
(* get_claim_status *)

\* Refused before the repository is touched; a session that was missing is
\* not created.
claim_refused(c, expected) ==
    /\ ~authorised(get(c), expected)
    /\ UNCHANGED handlers

claim_lookup_started(h, c, expected) ==
    /\ authorised(get(c), expected)
    /\ await(h, "claim", c, get(c))

get_claim_status(h, c, expected) ==
    /\ deliver(c)
    /\ \/ claim_refused(c, expected)
       \/ claim_lookup_started(h, c, expected)
    /\ UNCHANGED <<sessions, _recorded, _records, CALLS_TOTAL, sheet, step,
                   verified, wrong, disclosed>>

\* Fault: the repository does not filter by customer.
claim_found_any(c, s) ==
    \E claim \in Claims :
        /\ save(c, with_claim(s, claim))
        /\ disclosed' = [disclosed EXCEPT ![c] = @ \cup {claim}]

\* Found: the session the handler has held since before the wait is saved
\* with the claim, and the claim is read out.
claim_found(c, s) ==
    \E claim \in {k \in Claims : claim_owner[k] = s.customer_id} :
        /\ save(c, with_claim(s, claim))
        /\ disclosed' = [disclosed EXCEPT ![c] = @ \cup {claim}]

\* No claim, or an upstream failure: nothing is saved and nothing disclosed.
claim_unavailable == UNCHANGED <<sessions, disclosed>>

\* get_claim_for_customer has answered.
claim_answered(h) ==
    LET c == handlers[h].call
        s == handlers[h].session
    IN /\ handlers[h].awaiting = "claim"
       /\ \/ claim_found(c, s)
          \/ claim_unavailable
       /\ return(h)
       /\ UNCHANGED <<_recorded, _records, CALLS_TOTAL, sheet, step,
                      deliveries, verified, wrong>>

-----------------------------------------------------------------------------
(* search_faq *)

\* The claim number the submission answer quotes: only to a verified session
\* that has been given one.
_claim_reference(s, topic) ==
    IF /\ topic = SubmissionTopic
       /\ s # None
       /\ is_authenticated(s)
    THEN {s.claim_id} \ {None}
    ELSE {}

\* A question with a confident answer.  The topic is noted on a session that
\* exists; no session is created.
search_faq(c, topic) ==
    LET s == IF live(c) THEN with_faq_topic(sessions[c], topic) ELSE None IN
    /\ deliver(c)
    /\ save(c, s)
    /\ disclosed' = [disclosed EXCEPT ![c] = @ \cup _claim_reference(s, topic)]
    /\ UNCHANGED <<handlers, _recorded, _records, CALLS_TOTAL, sheet, step,
                   verified, wrong>>

=============================================================================
