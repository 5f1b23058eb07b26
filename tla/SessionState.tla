---------------------------- MODULE SessionState ----------------------------
(***************************************************************************)
(* models/session.py: the immutable state of one call and its transitions. *)
(*                                                                         *)
(* A session is a record and a transition an operator from sessions to     *)
(* sessions; who calls which transition, and on which copy of the session, *)
(* is the business of the modules that extend this one.                    *)
(*                                                                         *)
(* Abstracted: caller_phone, customer_name and the two timestamps (no      *)
(* property depends on them; customer_name is always assigned together     *)
(* with customer_id), and the order of faq_topics.                         *)
(***************************************************************************)
EXTENDS Integers, FiniteSets

CONSTANTS
    Customers,                  \* customer ids on the Customers sheet
    Claims,                     \* claim ids on the Claims sheet
    Topics,                     \* FAQ topics
    None,                       \* Python's None
    MAX_AUTHENTICATION_ATTEMPTS,
    MAX_LOOKUP_ATTEMPTS

ASSUME SessionAssumption ==
    /\ MAX_AUTHENTICATION_ATTEMPTS \in Nat \ {0}
    /\ MAX_LOOKUP_ATTEMPTS \in Nat \ {0}
    /\ None \notin Customers
    /\ None \notin Claims

-----------------------------------------------------------------------------
(* models/enums.py *)

AuthenticationStatus ==
    {"UNAUTHENTICATED", "CUSTOMER_FOUND", "VERIFYING",
     "AUTHENTICATED", "AUTHENTICATION_FAILED"}

EscalationReason ==
    {"CALLER_REQUEST", "AUTHENTICATION_FAILED", "CUSTOMER_NOT_FOUND",
     "UNSUPPORTED_REQUEST", "CLAIM_DATA_INCOMPLETE", "SYSTEM_ERROR", "EMERGENCY"}

ConversationOutcome ==
    {"RESOLVED", "ESCALATED", "AUTHENTICATION_FAILED", "CUSTOMER_NOT_FOUND",
     "EMERGENCY", "ABANDONED"}

Sentiment == {"POSITIVE", "NEUTRAL", "NEGATIVE"}

Session ==
    [customer_id : Customers \cup {None},
     authentication_status : AuthenticationStatus,
     authentication_attempts : Nat,
     lookup_attempts : Nat,
     claim_id : Claims \cup {None},
     faq_topics : SUBSET Topics,
     escalated : BOOLEAN,
     escalation_reason : EscalationReason \cup {None},
     conversation_outcome : ConversationOutcome \cup {None}]

NewSession ==
    [customer_id |-> None,
     authentication_status |-> "UNAUTHENTICATED",
     authentication_attempts |-> 0,
     lookup_attempts |-> 0,
     claim_id |-> None,
     faq_topics |-> {},
     escalated |-> FALSE,
     escalation_reason |-> None,
     conversation_outcome |-> None]

ASSUME NoSessionIsNone == None \notin Session
ASSUME NoOutcomeIsNone == None \notin ConversationOutcome

-----------------------------------------------------------------------------
(* Predicates *)

is_authenticated(s) == s.authentication_status = "AUTHENTICATED"

is_terminal(s) ==
    s.authentication_status \in {"AUTHENTICATED", "AUTHENTICATION_FAILED"}

\* Fault: a verification that never came to an end cannot be taken up again.
can_attempt_verification_once(s) ==
    /\ s.authentication_status = "CUSTOMER_FOUND"
    /\ s.authentication_attempts < MAX_AUTHENTICATION_ATTEMPTS

can_attempt_verification(s) ==
    /\ s.authentication_status \in {"CUSTOMER_FOUND", "VERIFYING"}
    /\ s.authentication_attempts < MAX_AUTHENTICATION_ATTEMPTS

-----------------------------------------------------------------------------
(* Transitions *)

with_caller_phone(s) == [s EXCEPT !.lookup_attempts = @ + 1]

\* Fault: a found record starts the session afresh.
with_customer_found_afresh(s, customer) ==
    [NewSession EXCEPT !.customer_id = customer,
                       !.authentication_status = "CUSTOMER_FOUND"]

\* Fault: the outcome of an earlier lookup stays.
with_customer_found_kept(s, customer) ==
    [s EXCEPT !.customer_id = customer,
              !.authentication_status = "CUSTOMER_FOUND"]

with_customer_found(s, customer) ==
    [s EXCEPT !.customer_id = customer,
              !.authentication_status = "CUSTOMER_FOUND",
              !.conversation_outcome = IF @ = "CUSTOMER_NOT_FOUND" THEN None ELSE @]

\* The customer_id of an earlier lookup stays on the session.
with_customer_not_found(s) ==
    [s EXCEPT !.authentication_status = "UNAUTHENTICATED",
              !.conversation_outcome = "CUSTOMER_NOT_FOUND"]

with_verification_started(s) == [s EXCEPT !.authentication_status = "VERIFYING"]

\* Fault: the budget is compared before this answer is counted.
with_verification_failed_late(s) ==
    LET exhausted == s.authentication_attempts >= MAX_AUTHENTICATION_ATTEMPTS IN
    [s EXCEPT !.authentication_attempts = @ + 1,
              !.authentication_status =
                  IF exhausted THEN "AUTHENTICATION_FAILED" ELSE "CUSTOMER_FOUND",
              !.conversation_outcome =
                  IF exhausted THEN "AUTHENTICATION_FAILED" ELSE None]

with_verification_failed(s) ==
    LET attempts  == s.authentication_attempts + 1
        exhausted == attempts >= MAX_AUTHENTICATION_ATTEMPTS
    IN [s EXCEPT !.authentication_attempts = attempts,
                 !.authentication_status =
                     IF exhausted THEN "AUTHENTICATION_FAILED" ELSE "CUSTOMER_FOUND",
                 !.conversation_outcome =
                     IF exhausted THEN "AUTHENTICATION_FAILED" ELSE None]

with_authenticated(s, customer) ==
    [s EXCEPT !.customer_id = customer,
              !.authentication_status = "AUTHENTICATED"]

with_verification_abandoned(s) ==
    IF s.authentication_status = "VERIFYING"
    THEN [s EXCEPT !.authentication_status = "CUSTOMER_FOUND"]
    ELSE s

with_claim(s, claim) == [s EXCEPT !.claim_id = claim]

with_faq_topic(s, topic) == [s EXCEPT !.faq_topics = @ \cup {topic}]

with_escalation(s, reason) ==
    [s EXCEPT !.escalated = TRUE,
              !.escalation_reason = reason,
              !.conversation_outcome = "ESCALATED"]

with_outcome(s, outcome) == [s EXCEPT !.conversation_outcome = outcome]

-----------------------------------------------------------------------------
(* What is read off a session when the call ends *)

derive_outcome(s) ==
    IF s.escalated THEN "ESCALATED"
    ELSE IF is_authenticated(s) THEN "RESOLVED"
    ELSE IF s.authentication_status = "AUTHENTICATION_FAILED" THEN "AUTHENTICATION_FAILED"
    ELSE IF s.conversation_outcome = "CUSTOMER_NOT_FOUND" THEN "CUSTOMER_NOT_FOUND"
    ELSE "ABANDONED"

score_sentiment(s) ==
    IF \/ s.escalation_reason = "EMERGENCY"
       \/ s.authentication_status = "AUTHENTICATION_FAILED"
       \/ s.conversation_outcome = "CUSTOMER_NOT_FOUND"
       \/ s.escalated /\ s.escalation_reason \in {"SYSTEM_ERROR", "CLAIM_DATA_INCOMPLETE"}
    THEN "NEGATIVE"
    ELSE IF is_authenticated(s) /\ s.claim_id # None /\ ~s.escalated
         THEN "POSITIVE"
         ELSE "NEUTRAL"

\* The first sentence of summarise.
_identification_sentence(s) ==
    CASE s.authentication_status = "AUTHENTICATED" -> "verified"
      [] s.authentication_status = "AUTHENTICATION_FAILED" -> "not verified"
      [] ~is_terminal(s) /\ s.conversation_outcome = "CUSTOMER_NOT_FOUND" -> "no account"
      [] s.authentication_status = "CUSTOMER_FOUND"
         /\ s.conversation_outcome # "CUSTOMER_NOT_FOUND" -> "identified"
      [] OTHER -> "not identified"

\* The last sentence of summarise.
_closing_sentence(s) ==
    CASE s.escalated /\ s.escalation_reason = "EMERGENCY" -> "emergency"
      [] s.escalated /\ s.escalation_reason # "EMERGENCY" -> "escalated"
      [] ~s.escalated /\ s.conversation_outcome = "RESOLVED" -> "completed"
      [] ~s.escalated /\ s.conversation_outcome = "AUTHENTICATION_FAILED" -> "unverified"
      [] ~s.escalated /\ s.conversation_outcome = "CUSTOMER_NOT_FOUND" -> "no match"
      [] OTHER -> "ended"

=============================================================================
