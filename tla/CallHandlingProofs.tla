-------------------------- MODULE CallHandlingProofs --------------------------
(***************************************************************************)
(* What CallHandling guarantees for every number of calls, handlers,       *)
(* customers and claims, and however the handlers of a call overlap: its   *)
(* types and its invariant, the authorization boundary it implements, and  *)
(* the guard against a second row.                                         *)
(*                                                                         *)
(* The types need one thing beside themselves, HandlersGrounded: a handler *)
(* that verifies holds a customer to ask about, and one that files holds an*)
(* outcome to write.                                                       *)
(***************************************************************************)
EXTENDS CallHandling, TLAPS

-----------------------------------------------------------------------------
(* Sessions and their transitions *)

\* The session a call begins with is a session.
LEMMA NewSessionType == NewSession \in Session
  BY SessionAssumption DEF NewSession, Session, AuthenticationStatus

\* Every transition of models/session.py returns a session.
LEMMA TransitionType ==
    ASSUME NEW s \in Session
    PROVE  /\ with_caller_phone(s) \in Session
           /\ \A customer \in Customers : with_customer_found(s, customer) \in Session
           /\ with_customer_not_found(s) \in Session
           /\ with_verification_started(s) \in Session
           /\ with_verification_failed(s) \in Session
           /\ \A customer \in Customers : with_authenticated(s, customer) \in Session
           /\ with_verification_abandoned(s) \in Session
           /\ \A claim \in Claims : with_claim(s, claim) \in Session
           /\ \A topic \in Topics : with_faq_topic(s, topic) \in Session
           /\ \A reason \in EscalationReason : with_escalation(s, reason) \in Session
           /\ \A outcome \in ConversationOutcome : with_outcome(s, outcome) \in Session
  <1>1. with_caller_phone(s) \in Session
    BY DEF Session, with_caller_phone
  <1>9. /\ with_customer_not_found(s) \in Session
        /\ with_verification_started(s) \in Session
    BY DEF Session, AuthenticationStatus, ConversationOutcome, 
           with_customer_not_found, with_verification_started
  <1>10. with_verification_abandoned(s) \in Session
    BY DEF Session, AuthenticationStatus, with_verification_abandoned
  <1>2. with_verification_failed(s) \in Session
    <2>1. s.authentication_attempts + 1 \in Nat
      BY DEF Session
    <2>2. CASE s.authentication_attempts + 1 >= MAX_AUTHENTICATION_ATTEMPTS
      BY <2>1, <2>2
         DEF Session, AuthenticationStatus, ConversationOutcome, with_verification_failed
    <2>3. CASE ~(s.authentication_attempts + 1 >= MAX_AUTHENTICATION_ATTEMPTS)
      BY <2>1, <2>3
         DEF Session, AuthenticationStatus, ConversationOutcome, with_verification_failed
    <2>4. QED BY <2>2, <2>3
  <1>3. \A customer \in Customers : /\ with_customer_found(s, customer) \in Session
                                    /\ with_authenticated(s, customer) \in Session
    BY DEF Session, AuthenticationStatus, with_customer_found, with_authenticated
  <1>4. \A claim \in Claims : with_claim(s, claim) \in Session
    BY DEF Session, with_claim
  <1>5. \A topic \in Topics : with_faq_topic(s, topic) \in Session
    BY DEF Session, with_faq_topic
  <1>6. \A reason \in EscalationReason : with_escalation(s, reason) \in Session
    BY DEF Session, ConversationOutcome, with_escalation
  <1>7. \A outcome \in ConversationOutcome : with_outcome(s, outcome) \in Session
    BY DEF Session, with_outcome
  <1>8. QED BY <1>9, <1>10, <1>1, <1>2, <1>3, <1>4, <1>5, <1>6, <1>7

-----------------------------------------------------------------------------
(* Type correctness *)

\* What a handler reads from the store is a session, fresh or stored.
LEMMA GetType ==
    ASSUME TypeOK, NEW c \in Calls
    PROVE  get(c) \in Session
  BY NewSessionType DEF TypeOK, get, live

\* A handler that waits is a suspended one.
LEMMA SuspendedType ==
    ASSUME TypeOK, NEW h \in Handlers, handlers[h].awaiting \in Waits
    PROVE  /\ handlers[h] \in Suspended
           /\ handlers[h].call \in Calls
           /\ handlers[h].session \in Session
           /\ handlers[h].attempt \in 0..max_retries
  <1>1. handlers[h] # Idle
    BY DEF Idle, Waits
  <1>2. QED BY <1>1 DEF TypeOK, Suspended

\* Saving a session, or dropping it, keeps the store well typed.
LEMMA SaveType ==
    ASSUME TypeOK, NEW c \in Calls, NEW s \in Session \cup {None}, save(c, s)
    PROVE  sessions' \in [Calls -> Session \cup {None}]
  BY DEF TypeOK, save

\* Discarding a session keeps the store and what belongs to the session typed.
LEMMA DiscardType ==
    ASSUME TypeOK, NEW c \in Calls, discard(c)
    PROVE  /\ sessions' \in [Calls -> Session \cup {None}]
           /\ step' \in [Calls -> AuthenticationStep \cup {None}]
           /\ wrong' \in [Calls -> Nat]
  <1>1. sessions' \in [Calls -> Session \cup {None}]
    BY DEF TypeOK, discard
  <1>2. step' \in [Calls -> AuthenticationStep \cup {None}]
    BY DEF TypeOK, discard
  <1>3. wrong' \in [Calls -> Nat]
    BY DEF TypeOK, discard
  <1>4. QED BY <1>1, <1>2, <1>3

\* Delivering a webhook stays within the bound.
LEMMA DeliverType ==
    ASSUME TypeOK, NEW c \in Calls, deliver(c)
    PROVE  deliveries' \in [Calls -> 0..MaxDeliveries]
  <1>1. deliveries[c] + 1 \in 0..MaxDeliveries
    BY CallAssumption DEF TypeOK, deliver
  <1>2. QED BY <1>1 DEF TypeOK, deliver

\* An answered step is one of the vocabulary.
LEMMA AnswerType ==
    ASSUME TypeOK, NEW c \in Calls, NEW result \in AuthenticationStep, answer(c, result)
    PROVE  step' \in [Calls -> AuthenticationStep \cup {None}]
  BY DEF TypeOK, answer

\* Suspending keeps the handlers well typed.
LEMMA AwaitType ==
    ASSUME TypeOK, NEW c \in Calls, NEW h \in Handlers,
           NEW s \in Session, NEW wait \in Waits, await(h, wait, c, s)
    PROVE  handlers' \in [Handlers -> Suspended \cup {Idle}]
  <1>1. 0 \in 0..max_retries
    BY CallAssumption
  <1>2. [awaiting |-> wait, call |-> c, session |-> s, attempt |-> 0] \in Suspended
    BY <1>1 DEF Suspended
  <1>3. QED BY <1>2 DEF TypeOK, await

\* Returning keeps the handlers well typed.
LEMMA ReturnType ==
    ASSUME TypeOK, NEW h \in Handlers, return(h)
    PROVE  handlers' \in [Handlers -> Suspended \cup {Idle}]
  BY DEF TypeOK, return

\* Counting keeps a counter of the calls well typed.
LEMMA CountType ==
    ASSUME NEW f \in [Calls -> Nat], NEW c \in Calls
    PROVE  [f EXCEPT ![c] = @ + 1] \in [Calls -> Nat]
  OBVIOUS

-----------------------------------------------------------------------------
(* Each handler and each answer preserves the types *)

\* start_call preserves the types.
LEMMA StartCallType ==
    ASSUME TypeOK, NEW c \in Calls, start_call(c)
    PROVE  TypeOK'
  <1>1. sessions' \in [Calls -> Session \cup {None}]
    BY NewSessionType, SaveType DEF start_call, TypeOK
  <1>2. CALLS_TOTAL' \in [Calls -> Nat]
    <2>1. CASE live(c)
      BY <2>1 DEF start_call, TypeOK
    <2>2. CASE ~live(c)
      <3>1. CALLS_TOTAL \in [Calls -> Nat]
        BY DEF TypeOK
      <3>2. CALLS_TOTAL' = [CALLS_TOTAL EXCEPT ![c] = @ + 1]
        BY <2>2 DEF start_call
      <3>3. QED BY <3>1, <3>2, CountType
    <2>3. QED BY <2>1, <2>2
  <1>3. deliveries' \in [Calls -> 0..MaxDeliveries]
    BY DeliverType DEF start_call
  <1>4. QED BY <1>1, <1>2, <1>3 DEF start_call, TypeOK

\* submit_phone preserves the types.
LEMMA SubmitPhoneType ==
    ASSUME TypeOK, NEW c \in Calls, NEW h \in Handlers, submit_phone(h, c)
    PROVE  TypeOK'
  <1> DEFINE s == get(c)
  <1>1. s \in Session
    BY GetType
  <1>2. deliveries' \in [Calls -> 0..MaxDeliveries]
    BY DeliverType DEF submit_phone
  <1>3. /\ sessions' \in [Calls -> Session \cup {None}]
        /\ handlers' \in [Handlers -> Suspended \cup {Idle}]
        /\ step' \in [Calls -> AuthenticationStep \cup {None}]
    <2>1. CASE phone_refused(c)
      <3>1. sessions' \in [Calls -> Session \cup {None}]
        BY <1>1, <2>1, SaveType DEF phone_refused
      <3>2. step' \in [Calls -> AuthenticationStep \cup {None}]
        BY <2>1, AnswerType DEF phone_refused, AuthenticationStep
      <3>3. QED BY <2>1, <3>1, <3>2 DEF phone_refused, TypeOK
    <2>2. CASE phone_not_understood(c)
      <3>1. sessions' \in [Calls -> Session \cup {None}]
        BY <1>1, <2>2, SaveType, TransitionType DEF phone_not_understood
      <3>2. step' \in [Calls -> AuthenticationStep \cup {None}]
        BY <2>2, AnswerType DEF phone_not_understood, AuthenticationStep
      <3>3. QED BY <2>2, <3>1, <3>2 DEF phone_not_understood, TypeOK
    <2>3. CASE lookup_started(h, c)
      <3>1. sessions' \in [Calls -> Session \cup {None}]
        BY <1>1, <2>3, SaveType DEF lookup_started
      <3>2. handlers' \in [Handlers -> Suspended \cup {Idle}]
        BY <1>1, <2>3, AwaitType DEF lookup_started, Waits
      <3>3. QED BY <2>3, <3>1, <3>2 DEF lookup_started, TypeOK
    <2>4. QED BY <2>1, <2>2, <2>3 DEF submit_phone
  <1>4. QED BY <1>2, <1>3 DEF submit_phone, TypeOK

\* The end of submit_phone preserves the types.
LEMMA LookupAnsweredType ==
    ASSUME TypeOK, NEW h \in Handlers, lookup_answered(h)
    PROVE  TypeOK'
  <1> DEFINE c == handlers[h].call
             s == handlers[h].session
  <1>1. c \in Calls /\ s \in Session
    BY SuspendedType DEF lookup_answered, Waits
  <1>2. handlers' \in [Handlers -> Suspended \cup {Idle}]
    BY ReturnType DEF lookup_answered
  <1>3. /\ sessions' \in [Calls -> Session \cup {None}]
        /\ step' \in [Calls -> AuthenticationStep \cup {None}]
    <2>1. CASE lookup_failed(c, s)
      BY <1>1, <2>1, SaveType, AnswerType DEF lookup_failed, AuthenticationStep
    <2>2. CASE lookup_found(c, s)
      <3>1. PICK customer \in Customers :
                /\ save(c, with_customer_found(with_caller_phone(s), customer))
                /\ answer(c, "VERIFICATION_REQUIRED")
        BY <2>2 DEF lookup_found
      <3>2. with_customer_found(with_caller_phone(s), customer) \in Session
        BY <1>1, TransitionType
      <3>3. QED BY <1>1, <3>1, <3>2, SaveType, AnswerType DEF AuthenticationStep
    <2>3. CASE lookup_not_found(c, s)
      <3>1. with_customer_not_found(with_caller_phone(s)) \in Session
        BY <1>1, TransitionType
      <3>2. _not_found_step(with_caller_phone(s)) \in AuthenticationStep
        BY DEF _not_found_step, AuthenticationStep
      <3>3. QED BY <1>1, <2>3, <3>1, <3>2, SaveType, AnswerType DEF lookup_not_found
    <2>4. QED BY <2>1, <2>2, <2>3 DEF lookup_answered
  <1>4. QED BY <1>2, <1>3 DEF lookup_answered, history, TypeOK

\* Judging an answer wrong keeps the store, the count and the answer typed.
LEMMA AnsweredWrongType ==
    ASSUME TypeOK, NEW c \in Calls, NEW s \in Session, answered_wrong(c, s)
    PROVE  /\ sessions' \in [Calls -> Session \cup {None}]
           /\ step' \in [Calls -> AuthenticationStep \cup {None}]
           /\ wrong' \in [Calls -> Nat]
  <1>1. sessions' \in [Calls -> Session \cup {None}]
    BY SaveType, TransitionType DEF answered_wrong
  <1>2. step' \in [Calls -> AuthenticationStep \cup {None}]
    BY AnswerType DEF answered_wrong, AuthenticationStep
  <1>3. wrong' \in [Calls -> Nat]
    BY CountType DEF answered_wrong, TypeOK
  <1>4. QED BY <1>1, <1>2, <1>3

\* submit_verification preserves the types.
LEMMA SubmitVerificationType ==
    ASSUME TypeOK, NEW c \in Calls, NEW h \in Handlers, submit_verification(h, c)
    PROVE  TypeOK'
  <1> DEFINE s == get(c)
             started == with_verification_started(s)
  <1>1. s \in Session /\ started \in Session
    BY GetType, TransitionType
  <1>2. deliveries' \in [Calls -> 0..MaxDeliveries]
    BY DeliverType DEF submit_verification
  <1>3. /\ sessions' \in [Calls -> Session \cup {None}]
        /\ handlers' \in [Handlers -> Suspended \cup {Idle}]
        /\ step' \in [Calls -> AuthenticationStep \cup {None}]
        /\ wrong' \in [Calls -> Nat]
    <2>1. CASE verification_refused(c)
      <3>1. sessions' \in [Calls -> Session \cup {None}]
        BY <1>1, <2>1, SaveType DEF verification_refused
      <3>2. refusal(s) \in AuthenticationStep
        BY <2>1 DEF verification_refused, refusal, AuthenticationStep
      <3>3. step' \in [Calls -> AuthenticationStep \cup {None}]
        BY <2>1, <3>2, AnswerType DEF verification_refused
      <3>4. QED BY <2>1, <3>1, <3>3 DEF verification_refused, TypeOK
    <2>2. CASE blank_answer(c)
      <3>1. answered_wrong(c, started)
        BY <2>2 DEF blank_answer
      <3>2. QED BY <1>1, <2>2, <3>1, AnsweredWrongType DEF blank_answer, TypeOK
    <2>3. CASE verification_started(h, c)
      <3>1. sessions' \in [Calls -> Session \cup {None}]
        BY <1>1, <2>3, SaveType DEF verification_started
      <3>2. handlers' \in [Handlers -> Suspended \cup {Idle}]
        BY <1>1, <2>3, AwaitType DEF verification_started, Waits
      <3>3. QED BY <2>3, <3>1, <3>2 DEF verification_started, TypeOK
    <2>4. CASE verification_raises(c)
      BY <1>1, <2>4, SaveType DEF verification_raises, TypeOK
    <2>5. QED BY <2>1, <2>2, <2>3, <2>4 DEF submit_verification
  <1>4. QED BY <1>2, <1>3 DEF submit_verification, TypeOK

\* The end of submit_verification preserves the types; the customer the
\* handler asked about is one.
LEMMA VerificationAnsweredType ==
    ASSUME TypeOK, HandlersGrounded, NEW h \in Handlers, verification_answered(h)
    PROVE  TypeOK'
  <1> DEFINE c == handlers[h].call
             s == handlers[h].session
  <1>1. handlers[h].awaiting = "verify" /\ c \in Calls /\ s \in Session
    BY SuspendedType DEF verification_answered, Waits
  <1>2. s.customer_id \in Customers
    BY <1>1 DEF HandlersGrounded, Fits, Waits
  <1>3. handlers' \in [Handlers -> Suspended \cup {Idle}]
    BY ReturnType DEF verification_answered
  <1>4. /\ sessions' \in [Calls -> Session \cup {None}]
        /\ step' \in [Calls -> AuthenticationStep \cup {None}]
        /\ verified' \in [Calls -> SUBSET Customers]
        /\ wrong' \in [Calls -> Nat]
    <2>1. CASE verification_error(c, s)
      <3>1. with_verification_abandoned(s) \in Session
        BY <1>1, TransitionType
      <3>2. /\ sessions' \in [Calls -> Session \cup {None}]
            /\ step' \in [Calls -> AuthenticationStep \cup {None}]
        BY <1>1, <2>1, <3>1, SaveType, AnswerType
           DEF verification_error, AuthenticationStep
      <3>3. QED BY <2>1, <3>2 DEF verification_error, TypeOK
    <2>2. CASE record_vanished(c, s)
      <3>1. with_customer_not_found(with_verification_abandoned(s)) \in Session
        BY <1>1, TransitionType
      <3>2. /\ sessions' \in [Calls -> Session \cup {None}]
            /\ step' \in [Calls -> AuthenticationStep \cup {None}]
        BY <1>1, <2>2, <3>1, SaveType, AnswerType
           DEF record_vanished, AuthenticationStep
      <3>3. QED BY <2>2, <3>2 DEF record_vanished, TypeOK
    <2>3. CASE answered_right(c, s)
      <3>1. with_authenticated(s, s.customer_id) \in Session
        BY <1>1, <1>2, TransitionType
      <3>2. /\ sessions' \in [Calls -> Session \cup {None}]
            /\ step' \in [Calls -> AuthenticationStep \cup {None}]
        BY <1>1, <2>3, <3>1, SaveType, AnswerType
           DEF answered_right, AuthenticationStep
      <3>3. verified' \in [Calls -> SUBSET Customers]
        BY <1>1, <1>2, <2>3 DEF answered_right, TypeOK
      <3>4. QED BY <2>3, <3>2, <3>3 DEF answered_right, TypeOK
    <2>4. CASE answered_wrong(c, s) /\ UNCHANGED verified
      BY <1>1, <2>4, AnsweredWrongType DEF TypeOK
    <2>5. CASE comparison_raises
      BY <2>5 DEF comparison_raises, TypeOK
    <2>6. QED BY <2>1, <2>2, <2>3, <2>4, <2>5 DEF verification_answered
  <1>5. QED BY <1>3, <1>4 DEF verification_answered, TypeOK

\* get_claim_status preserves the types.
LEMMA GetClaimStatusType ==
    ASSUME TypeOK, NEW c \in Calls, NEW h \in Handlers, NEW expected,
           get_claim_status(h, c, expected)
    PROVE  TypeOK'
  <1>1. get(c) \in Session
    BY GetType
  <1>2. deliveries' \in [Calls -> 0..MaxDeliveries]
    BY DeliverType DEF get_claim_status
  <1>3. handlers' \in [Handlers -> Suspended \cup {Idle}]
    <2>1. CASE claim_refused(c, expected)
      BY <2>1 DEF claim_refused, TypeOK
    <2>2. CASE claim_lookup_started(h, c, expected)
      BY <1>1, <2>2, AwaitType DEF claim_lookup_started, Waits
    <2>3. QED BY <2>1, <2>2 DEF get_claim_status
  <1>4. QED BY <1>2, <1>3 DEF get_claim_status, TypeOK

\* The end of get_claim_status preserves the types.
LEMMA ClaimAnsweredType ==
    ASSUME TypeOK, NEW h \in Handlers, claim_answered(h)
    PROVE  TypeOK'
  <1> DEFINE c == handlers[h].call
             s == handlers[h].session
  <1>1. c \in Calls /\ s \in Session
    BY SuspendedType DEF claim_answered, Waits
  <1>2. handlers' \in [Handlers -> Suspended \cup {Idle}]
    BY ReturnType DEF claim_answered
  <1>3. /\ sessions' \in [Calls -> Session \cup {None}]
        /\ disclosed' \in [Calls -> SUBSET Claims]
    <2>1. CASE claim_found(c, s)
      <3>1. PICK claim \in Claims :
                /\ save(c, with_claim(s, claim))
                /\ disclosed' = [disclosed EXCEPT ![c] = @ \cup {claim}]
        BY <2>1 DEF claim_found
      <3>2. sessions' \in [Calls -> Session \cup {None}]
        BY <1>1, <3>1, SaveType, TransitionType
      <3>3. disclosed' \in [Calls -> SUBSET Claims]
        BY <1>1, <3>1 DEF TypeOK
      <3>4. QED BY <3>2, <3>3
    <2>2. CASE claim_unavailable
      BY <2>2 DEF claim_unavailable, TypeOK
    <2>3. QED BY <2>1, <2>2 DEF claim_answered
  <1>4. QED BY <1>2, <1>3 DEF claim_answered, TypeOK

\* search_faq preserves the types.
LEMMA SearchFaqType ==
    ASSUME TypeOK, NEW c \in Calls, NEW topic \in Topics, search_faq(c, topic)
    PROVE  TypeOK'
  <1> DEFINE s == IF live(c) THEN with_faq_topic(sessions[c], topic) ELSE None
  <1>1. s \in Session \cup {None}
    BY TransitionType DEF TypeOK, live
  <1>2. sessions' \in [Calls -> Session \cup {None}]
    BY <1>1, SaveType DEF search_faq
  <1>3. _claim_reference(s, topic) \subseteq Claims
    <2>1. CASE s = None
      BY <2>1 DEF _claim_reference
    <2>2. CASE s \in Session
      BY <2>2 DEF _claim_reference, Session
    <2>3. QED BY <1>1, <2>1, <2>2
  <1>4. disclosed' = [disclosed EXCEPT ![c] = @ \cup _claim_reference(s, topic)]
    BY DEF search_faq
  <1>5. disclosed' \in [Calls -> SUBSET Claims]
    <2> HIDE DEF s
    <2>1. QED BY <1>3, <1>4 DEF TypeOK
  <1>6. deliveries' \in [Calls -> 0..MaxDeliveries]
    BY DeliverType DEF search_faq
  <1>7. QED BY <1>2, <1>5, <1>6 DEF search_faq, TypeOK

-----------------------------------------------------------------------------
\* Dropping the oldest element of a sequence longer than a limit keeps its type.
LEMMA BoundedType ==
    ASSUME NEW S, NEW q \in Seq(S), NEW limit \in Nat
    PROVE  (IF Len(q) > limit THEN Tail(q) ELSE q) \in Seq(S)
  <1>1. CASE Len(q) > limit
    <2>1. q # <<>>
      BY <1>1
    <2>2. QED BY <1>1, <2>1
  <1>2. CASE ~(Len(q) > limit)
    BY <1>2
  <1>3. QED BY <1>1, <1>2

\* Requesting a representative preserves what it writes.
LEMMA RequestRepresentativeType ==
    ASSUME TypeOK, NEW c \in Calls, NEW reason \in EscalationReason,
           request_representative(c, reason)
    PROVE  /\ sessions' \in [Calls -> Session \cup {None}]
           /\ _records' \in Seq(EscalationRecord)
  <1> DEFINE s == get(c)
             record == [call_id |-> c, reason |-> reason, customer_id |-> s.customer_id,
                        authenticated |-> is_authenticated(s),
                        status |-> IF transfer_available THEN "TRANSFERRING"
                                                         ELSE "REQUESTED"]
  <1>1. s \in Session
    BY GetType
  <1>2. sessions' \in [Calls -> Session \cup {None}]
    BY <1>1, SaveType, TransitionType DEF request_representative
  <1>3. record \in EscalationRecord
    <2>1. s.customer_id \in Customers \cup {None}
      BY <1>1 DEF Session
    <2>2. QED BY <2>1 DEF EscalationRecord, is_authenticated
  <1>4. Append(_records, record) \in Seq(EscalationRecord)
    BY <1>3 DEF TypeOK
  <1>5. remember_escalation(record)
    BY DEF request_representative
  <1>6. history_limit \in Nat
    BY CallAssumption
  <1>7. _records' \in Seq(EscalationRecord)
    BY <1>4, <1>5, <1>6, BoundedType DEF remember_escalation
  <1>8. QED BY <1>2, <1>7

\* The representative tool preserves the types.
LEMMA RepresentativeType ==
    ASSUME TypeOK, NEW c \in Calls, NEW supplied, NEW alarm \in BOOLEAN,
           representative_requested(c, supplied, alarm)
    PROVE  TypeOK'
  <1> DEFINE reason == IF alarm THEN "EMERGENCY" ELSE _coerce_reason(supplied)
  <1>1. reason \in EscalationReason
    BY DEF _coerce_reason, EscalationReason
  <1>2. request_representative(c, reason)
    BY DEF representative_requested
  <1>3. deliveries' \in [Calls -> 0..MaxDeliveries]
    BY DeliverType DEF representative_requested
  <1>4. /\ sessions' \in [Calls -> Session \cup {None}]
        /\ _records' \in Seq(EscalationRecord)
    BY <1>1, <1>2, RequestRepresentativeType
  <1>5. QED BY <1>3, <1>4 DEF representative_requested, TypeOK

\* The emergency interceptor preserves the types.
LEMMA InterceptType ==
    ASSUME TypeOK, NEW c \in Calls, intercept(c)
    PROVE  TypeOK'
  <1>1. deliveries' \in [Calls -> 0..MaxDeliveries]
    BY DeliverType DEF intercept
  <1>2. /\ sessions' \in [Calls -> Session \cup {None}]
        /\ _records' \in Seq(EscalationRecord)
    BY RequestRepresentativeType DEF intercept, EscalationReason
  <1>3. QED BY <1>1, <1>2 DEF intercept, TypeOK

\* Remembering a filed call keeps the guard well typed.
LEMMA RememberType ==
    ASSUME TypeOK, NEW c \in Calls, _remember(c)
    PROVE  _recorded' \in Seq(Calls)
  <1> DEFINE grown == IF known(c) THEN _recorded ELSE Append(_recorded, c)
  <1>1. grown \in Seq(Calls)
    BY DEF TypeOK
  <1>2. _recorded' = IF Len(grown) > recorded_limit THEN Tail(grown) ELSE grown
    BY DEF _remember
  <1>3. recorded_limit \in Nat
    BY CallAssumption
  <1>4. QED BY <1>1, <1>2, <1>3, BoundedType

\* The outcome derived at the end of a call is one of the vocabulary.
LEMMA OutcomeType ==
    ASSUME NEW s PROVE derive_outcome(s) \in ConversationOutcome
  BY DEF derive_outcome, ConversationOutcome

\* The record built from a session whose outcome is set is a row of the log.
LEMMA RecordType ==
    ASSUME NEW c \in Calls, NEW s \in Session,
           s.conversation_outcome \in ConversationOutcome
    PROVE  build_record(c, s) \in InteractionRecord
  <1>1. score_sentiment(s) \in Sentiment
    BY DEF score_sentiment, Sentiment
  <1>2. is_authenticated(s) \in BOOLEAN
    BY DEF is_authenticated
  <1>3. /\ s.customer_id \in Customers \cup {None}
        /\ s.claim_id \in Claims \cup {None}
        /\ s.escalated \in BOOLEAN
        /\ s.escalation_reason \in EscalationReason \cup {None}
    BY DEF Session
  <1>4. QED BY <1>1, <1>2, <1>3 DEF build_record, InteractionRecord

\* The end of a call preserves the types.
LEMMA CallEndedType ==
    ASSUME TypeOK, NEW c \in Calls, NEW h \in Handlers, call_ended(h, c)
    PROVE  TypeOK'
  <1>1. deliveries' \in [Calls -> 0..MaxDeliveries]
    BY DeliverType DEF call_ended
  <1>2. /\ sessions' \in [Calls -> Session \cup {None}]
        /\ handlers' \in [Handlers -> Suspended \cup {Idle}]
        /\ step' \in [Calls -> AuthenticationStep \cup {None}]
        /\ wrong' \in [Calls -> Nat]
    <2>1. CASE end_ignored(c)
      BY <2>1 DEF end_ignored, TypeOK
    <2>2. CASE end_unfiled(c)
      <3>1. handlers' \in [Handlers -> Suspended \cup {Idle}]
        BY <2>2 DEF end_unfiled, TypeOK
      <3>2. QED BY <2>2, <3>1, DiscardType DEF end_unfiled
    <2>3. CASE end_filing(h, c)
      <3> DEFINE s == with_outcome(sessions[c], derive_outcome(sessions[c]))
      <3>1. sessions[c] \in Session
        BY <2>3 DEF end_filing, live, TypeOK
      <3>2. s \in Session
        BY <3>1, OutcomeType, TransitionType
      <3>3. save(c, s) /\ await(h, "sheet_read", c, s)
        BY <2>3 DEF end_filing
      <3>4. sessions' \in [Calls -> Session \cup {None}]
        BY <3>2, <3>3, SaveType
      <3>5. handlers' \in [Handlers -> Suspended \cup {Idle}]
        BY <3>2, <3>3, AwaitType DEF Waits
      <3>6. QED BY <2>3, <3>4, <3>5 DEF end_filing, TypeOK
    <2>4. QED BY <2>1, <2>2, <2>3 DEF call_ended
  <1>3. QED BY <1>1, <1>2 DEF call_ended, TypeOK

\* The answer to the read of the Interactions sheet preserves the types.
LEMMA SheetReadAnsweredType ==
    ASSUME TypeOK, NEW h \in Handlers, sheet_read_answered(h)
    PROVE  TypeOK'
  <1> DEFINE c == handlers[h].call
  <1>1. handlers[h] \in Suspended /\ c \in Calls
    BY SuspendedType DEF sheet_read_answered, Waits
  <1>2. /\ sessions' \in [Calls -> Session \cup {None}]
        /\ handlers' \in [Handlers -> Suspended \cup {Idle}]
        /\ step' \in [Calls -> AuthenticationStep \cup {None}]
        /\ wrong' \in [Calls -> Nat]
        /\ _recorded' \in Seq(Calls)
    <2>1. CASE read_failed(h, c)
      <3>1. _recorded' \in Seq(Calls)
        BY <2>1 DEF read_failed, TypeOK
      <3>2. QED BY <1>1, <2>1, <3>1, DiscardType, ReturnType DEF read_failed
    <2>2. CASE read_present(h, c)
      BY <1>1, <2>2, DiscardType, ReturnType, RememberType DEF read_present
    <2>3. CASE read_absent(h, c)
      <3>1. [handlers[h] EXCEPT !.awaiting = "sheet_append"] \in Suspended
        BY <1>1 DEF Suspended, Waits
      <3>2. handlers' = [handlers EXCEPT ![h] =
                             [handlers[h] EXCEPT !.awaiting = "sheet_append"]]
        BY <2>3 DEF read_absent
      <3>3. handlers' \in [Handlers -> Suspended \cup {Idle}]
        BY <3>1, <3>2 DEF TypeOK
      <3>4. QED BY <2>3, <3>3 DEF read_absent, TypeOK
    <2>4. QED BY <2>1, <2>2, <2>3 DEF sheet_read_answered
  <1>3. QED BY <1>2 DEF sheet_read_answered, TypeOK

\* A row that lands keeps the sheet well typed.
LEMMA RowType ==
    ASSUME TypeOK, HandlersGrounded, NEW h \in Handlers,
           handlers[h].awaiting = "sheet_append",
           row_may_land(h) \/ row_lands(h)
    PROVE  sheet' \in Seq(InteractionRecord)
  <1>1. /\ handlers[h].call \in Calls
        /\ handlers[h].session \in Session
        /\ handlers[h].session.conversation_outcome \in ConversationOutcome
    BY SuspendedType DEF HandlersGrounded, Fits, Waits
  <1>2. build_record(handlers[h].call, handlers[h].session) \in InteractionRecord
    BY <1>1, RecordType
  <1>3. CASE UNCHANGED sheet
    BY <1>3 DEF TypeOK
  <1>4. CASE row_lands(h)
    BY <1>2, <1>4 DEF row_lands, TypeOK
  <1>5. QED BY <1>3, <1>4 DEF row_may_land

\* The end of an append attempt preserves the types.
LEMMA AppendAnsweredType ==
    ASSUME TypeOK, HandlersGrounded, NEW h \in Handlers, append_answered(h)
    PROVE  TypeOK'
  <1> DEFINE c == handlers[h].call
  <1>1. /\ handlers[h].awaiting = "sheet_append"
        /\ handlers[h] \in Suspended
        /\ c \in Calls
        /\ handlers[h].attempt \in 0..max_retries
    BY SuspendedType DEF append_answered, Waits
  <1>2. /\ sessions' \in [Calls -> Session \cup {None}]
        /\ handlers' \in [Handlers -> Suspended \cup {Idle}]
        /\ step' \in [Calls -> AuthenticationStep \cup {None}]
        /\ wrong' \in [Calls -> Nat]
        /\ _recorded' \in Seq(Calls)
        /\ sheet' \in Seq(InteractionRecord)
    <2>1. CASE append_confirmed(h, c)
      BY <1>1, <2>1, DiscardType, ReturnType, RememberType, RowType DEF append_confirmed
    <2>2. CASE append_retried(h)
      <3>1. handlers[h].attempt + 1 \in 0..max_retries
        BY <1>1, <2>2, CallAssumption DEF append_retried
      <3>2. [handlers[h] EXCEPT !.attempt = handlers[h].attempt + 1] \in Suspended
        BY <1>1, <3>1 DEF Suspended
      <3>3. handlers' = [handlers EXCEPT ![h] =
                             [handlers[h] EXCEPT !.attempt = handlers[h].attempt + 1]]
        BY <2>2 DEF append_retried
      <3>4. handlers' \in [Handlers -> Suspended \cup {Idle}]
        BY <3>2, <3>3 DEF TypeOK
      <3>5. sheet' \in Seq(InteractionRecord)
        BY <1>1, <2>2, RowType DEF append_retried
      <3>6. QED BY <2>2, <3>4, <3>5 DEF append_retried, TypeOK
    <2>3. CASE append_failed(h, c)
      <3>1. _recorded' \in Seq(Calls)
        BY <2>3 DEF append_failed, TypeOK
      <3>2. QED BY <1>1, <2>3, <3>1, DiscardType, ReturnType, RowType DEF append_failed
    <2>4. QED BY <2>1, <2>2, <2>3 DEF append_answered
  <1>3. QED BY <1>2 DEF append_answered, TypeOK

\* A restart leaves a well-typed, empty process.
LEMMA RestartType ==
    ASSUME TypeOK, restart
    PROVE  TypeOK'
  <1>1. /\ sessions' \in [Calls -> Session \cup {None}]
        /\ handlers' \in [Handlers -> Suspended \cup {Idle}]
    BY DEF restart
  <1>2. /\ _recorded' \in Seq(Calls)
        /\ _records' \in Seq(EscalationRecord)
    BY DEF restart
  <1>3. /\ CALLS_TOTAL' \in [Calls -> Nat]
        /\ step' \in [Calls -> AuthenticationStep \cup {None}]
        /\ wrong' \in [Calls -> Nat]
    BY DEF restart
  <1>4. QED BY <1>1, <1>2, <1>3 DEF restart, TypeOK

\* Init is well typed.
LEMMA InitType == Init => TypeOK
  <1> SUFFICES ASSUME Init PROVE TypeOK
    OBVIOUS
  <1>1. /\ sessions \in [Calls -> Session \cup {None}]
        /\ handlers \in [Handlers -> Suspended \cup {Idle}]
    BY DEF Init
  <1>2. /\ _recorded \in Seq(Calls)
        /\ _records \in Seq(EscalationRecord)
        /\ sheet \in Seq(InteractionRecord)
    BY DEF Init
  <1>3. /\ CALLS_TOTAL \in [Calls -> Nat]
        /\ step \in [Calls -> AuthenticationStep \cup {None}]
        /\ wrong \in [Calls -> Nat]
        /\ deliveries \in [Calls -> 0..MaxDeliveries]
    BY CallAssumption DEF Init
  <1>4. /\ verified \in [Calls -> SUBSET Customers]
        /\ disclosed \in [Calls -> SUBSET Claims]
    BY DEF Init
  <1>5. QED BY <1>1, <1>2, <1>3, <1>4 DEF TypeOK

\* Every step preserves the types.
LEMMA NextType ==
    ASSUME TypeOK, HandlersGrounded, [Next]_vars
    PROVE  TypeOK'
  <1>1. CASE \E c \in Calls : delivered(c)
    <2>1. PICK c \in Calls : delivered(c)
      BY <1>1
    <2>2. CASE start_call(c) \/ intercept(c)
      BY <2>2, StartCallType, InterceptType
    <2>3. CASE \E topic \in Topics : search_faq(c, topic)
      BY <2>3, SearchFaqType
    <2>4. CASE \E supplied \in Reasons, alarm \in BOOLEAN :
                   representative_requested(c, supplied, alarm)
      BY <2>4, RepresentativeType
    <2>5. CASE \E h \in Handlers : submit_phone(h, c) \/ submit_verification(h, c)
      BY <2>5, SubmitPhoneType, SubmitVerificationType
    <2>6. CASE \E h \in Handlers, expected \in Customers \cup {None} :
                   get_claim_status(h, c, expected)
      BY <2>6, GetClaimStatusType
    <2>7. CASE \E h \in Handlers : call_ended(h, c)
      BY <2>7, CallEndedType
    <2>8. QED BY <2>1, <2>2, <2>3, <2>4, <2>5, <2>6, <2>7 DEF delivered
  <1>2. CASE \E h \in Handlers : answered(h)
    <2>1. PICK h \in Handlers : answered(h)
      BY <1>2
    <2>2. QED
      BY <2>1, LookupAnsweredType, VerificationAnsweredType, ClaimAnsweredType,
         SheetReadAnsweredType, AppendAnsweredType DEF answered
  <1>3. CASE restart
    BY <1>3, RestartType
  <1>4. CASE UNCHANGED vars
    BY <1>4 DEF TypeOK, vars, program, history
  <1>5. QED BY <1>1, <1>2, <1>3, <1>4 DEF Next


-----------------------------------------------------------------------------
(* Grounded sessions and their transitions *)

\* A fresh session is grounded.
LEMMA NewSessionGrounded ==
    ASSUME NEW proved PROVE Grounded(NewSession, proved)
  <1>1. ~(0 >= MAX_AUTHENTICATION_ATTEMPTS)
    BY SessionAssumption
  <1>2. QED BY <1>1 DEF Grounded, NewSession, is_authenticated

\* Verifying further customers leaves a session grounded.
LEMMA GroundedGrows ==
    ASSUME NEW s, NEW proved, NEW more, Grounded(s, proved), proved \subseteq more
    PROVE  Grounded(s, more)
  BY DEF Grounded

\* A grounded session that is not terminal carries no claim and has answers left.
LEMMA OpenSession ==
    ASSUME NEW s \in Session, NEW proved, Grounded(s, proved), ~is_terminal(s)
    PROVE  /\ s.claim_id = None
           /\ ~(s.authentication_attempts >= MAX_AUTHENTICATION_ATTEMPTS)
  BY DEF Grounded, is_terminal, is_authenticated

\* The transitions that touch neither the status, the customer, the claim nor
\* the attempts, and say "not found" only where it was said before.
LEMMA NeutralTransitions ==
    ASSUME NEW s \in Session, NEW proved, Grounded(s, proved)
    PROVE  /\ Grounded(with_caller_phone(s), proved)
           /\ \A topic : Grounded(with_faq_topic(s, topic), proved)
           /\ \A reason : Grounded(with_escalation(s, reason), proved)
           /\ Grounded(with_outcome(s, derive_outcome(s)), proved)
  <1>1. Grounded(with_caller_phone(s), proved)
    BY DEF Session, Grounded, is_authenticated, with_caller_phone
  <1>2. \A topic : Grounded(with_faq_topic(s, topic), proved)
    BY DEF Session, Grounded, is_authenticated, with_faq_topic
  <1>3. \A reason : Grounded(with_escalation(s, reason), proved)
    BY DEF Session, Grounded, is_authenticated, with_escalation
  <1>4. Grounded(with_outcome(s, derive_outcome(s)), proved)
    BY DEF Session, Grounded, is_authenticated, with_outcome, derive_outcome
  <1>5. QED BY <1>1, <1>2, <1>3, <1>4

\* The transitions of an open session that leave it unauthenticated.
LEMMA OpenTransitions ==
    ASSUME NEW s \in Session, NEW proved, Grounded(s, proved), ~is_terminal(s)
    PROVE  /\ \A customer \in Customers : Grounded(with_customer_found(s, customer), proved)
           /\ Grounded(with_customer_not_found(s), proved)
           /\ s.customer_id # None =>
                  /\ can_attempt_verification(s) => Grounded(with_verification_started(s), proved)
                  /\ Grounded(with_verification_failed(s), proved)
           /\ Grounded(with_verification_abandoned(s), proved)
           /\ ~is_terminal(with_verification_abandoned(s))
           /\ ~is_terminal(with_caller_phone(s))
           /\ ~is_terminal(with_verification_started(s))
  <1>1. /\ s.claim_id = None
        /\ ~(s.authentication_attempts >= MAX_AUTHENTICATION_ATTEMPTS)
    BY OpenSession
  <1>2. \A customer \in Customers : Grounded(with_customer_found(s, customer), proved)
    BY <1>1, NoOutcomeIsNone, SessionAssumption
       DEF Session, ConversationOutcome, Grounded, is_authenticated, with_customer_found
  <1>3. Grounded(with_customer_not_found(s), proved)
    BY <1>1 DEF Session, Grounded, is_authenticated, with_customer_not_found
  <1>4. /\ s.customer_id # None /\ can_attempt_verification(s)
           => Grounded(with_verification_started(s), proved)
        /\ ~is_terminal(with_verification_started(s))
    BY <1>1 DEF Session, Grounded, is_authenticated, is_terminal, can_attempt_verification,
                with_verification_started
  <1>5. s.customer_id # None => Grounded(with_verification_failed(s), proved)
    <2>1. CASE s.authentication_attempts + 1 >= MAX_AUTHENTICATION_ATTEMPTS
      BY <1>1, <2>1 DEF Session, Grounded, is_authenticated, with_verification_failed
    <2>2. CASE ~(s.authentication_attempts + 1 >= MAX_AUTHENTICATION_ATTEMPTS)
      BY <1>1, <2>2, NoOutcomeIsNone
         DEF Session, ConversationOutcome, Grounded, is_authenticated, with_verification_failed
    <2>3. QED BY <2>1, <2>2
  <1>6. /\ Grounded(with_verification_abandoned(s), proved)
        /\ ~is_terminal(with_verification_abandoned(s))
    <2>1. CASE s.authentication_status = "VERIFYING"
      BY <1>1, <2>1 DEF Session, Grounded, is_authenticated, is_terminal,
                        with_verification_abandoned
    <2>2. CASE s.authentication_status # "VERIFYING"
      BY <2>2 DEF with_verification_abandoned
    <2>3. QED BY <2>1, <2>2
  <1>7. ~is_terminal(with_caller_phone(s))
    BY DEF Session, is_terminal, with_caller_phone
  <1>8. QED BY <1>2, <1>3, <1>4, <1>5, <1>6, <1>7

\* Authenticating an open session as a proved customer grounds it.
LEMMA AuthenticatedGrounded ==
    ASSUME NEW s \in Session, NEW proved, Grounded(s, proved), ~is_terminal(s),
           NEW customer \in proved
    PROVE  Grounded(with_authenticated(s, customer), proved)
  <1>1. /\ s.claim_id = None
        /\ ~(s.authentication_attempts >= MAX_AUTHENTICATION_ATTEMPTS)
    BY OpenSession
  <1>2. QED BY <1>1 DEF Session, Grounded, is_authenticated, with_authenticated

\* Putting one of the customer's own claims on an authenticated session.
LEMMA ClaimGrounded ==
    ASSUME NEW s \in Session, NEW proved, Grounded(s, proved), is_authenticated(s),
           NEW claim \in Claims, claim_owner[claim] = s.customer_id
    PROVE  Grounded(with_claim(s, claim), proved)
  BY DEF Session, Grounded, is_authenticated, with_claim

-----------------------------------------------------------------------------
(* What a step may write *)

\* The customers verified on a call are never withdrawn.
Growing == \A c \in Calls : verified[c] \subseteq (verified[c])'

\* The store changes only by dropping sessions and saving grounded ones.
SavesGrounded ==
    \A c \in Calls : \/ (sessions[c])' \in {sessions[c], None}
                     \/ Grounded(sessions[c], verified[c])'

\* A handler changes only by returning, or to a wait whose guard holds of a
\* grounded copy.
WaitsGrounded ==
    \A h \in Handlers :
        \/ (handlers[h])' \in {handlers[h], Idle}
        \/ (Fits(handlers[h]) /\ Grounded(handlers[h].session, verified[handlers[h].call]))'

\* Such a step keeps the store grounded.
LEMMA StoreStep ==
    ASSUME TypeOK, SessionsGrounded, Growing, SavesGrounded
    PROVE  SessionsGrounded'
  <1> SUFFICES ASSUME NEW c \in Calls, (live(c))'
               PROVE  Grounded(sessions[c], verified[c])'
    BY DEF SessionsGrounded
  <1>1. CASE sessions'[c] = sessions[c]
    <2>1. Grounded(sessions[c], verified[c])
      BY <1>1 DEF SessionsGrounded, live
    <2>2. Grounded(sessions[c], verified'[c])
      BY <2>1, GroundedGrows DEF Growing
    <2>3. QED BY <1>1, <2>2 DEF Grounded, is_authenticated
  <1>2. CASE sessions'[c] # sessions[c]
    BY <1>2 DEF SavesGrounded, live
  <1>3. QED BY <1>1, <1>2

\* Such a step keeps the held copies grounded.
LEMMA HandlersStep ==
    ASSUME TypeOK, HandlersGrounded, Growing, WaitsGrounded
    PROVE  HandlersGrounded'
  <1> SUFFICES ASSUME NEW h \in Handlers, (handlers[h].awaiting \in Waits)'
               PROVE  (/\ Fits(handlers[h])
                       /\ Grounded(handlers[h].session, verified[handlers[h].call]))'
    BY DEF HandlersGrounded
  <1>1. CASE handlers'[h] = handlers[h]
    <2>1. handlers[h].awaiting \in Waits
      BY <1>1 DEF Waits
    <2>2. /\ Fits(handlers[h])
          /\ Grounded(handlers[h].session, verified[handlers[h].call])
          /\ handlers[h].call \in Calls
      BY <2>1, SuspendedType DEF HandlersGrounded
    <2>3. Grounded(handlers[h].session, verified'[handlers[h].call])
      BY <2>2, GroundedGrows DEF Growing
    <2>4. QED
      BY <1>1, <2>2, <2>3 DEF Grounded, Fits, is_authenticated, is_terminal,
                              require_authenticated
  <1>2. CASE handlers'[h] # handlers[h]
    <2>1. handlers'[h] # Idle
      BY DEF Idle, Waits
    <2>2. QED BY <1>2, <2>1 DEF WaitsGrounded
  <1>3. QED BY <1>1, <1>2

\* Saving a grounded session for one call.
LEMMA SaveStep ==
    ASSUME TypeOK, Growing, NEW c \in Calls, NEW s, save(c, s),
           s = None \/ Grounded(s, (verified[c])')
    PROVE  SavesGrounded
  <1> SUFFICES ASSUME NEW d \in Calls
               PROVE  \/ (sessions[d])' \in {sessions[d], None}
                      \/ Grounded(sessions[d], verified[d])'
    BY DEF SavesGrounded
  <1>1. CASE d = c
    <2>1. sessions'[c] = s
      BY DEF save, TypeOK
    <2>2. CASE s = None
      BY <1>1, <2>1, <2>2
    <2>3. CASE Grounded(s, verified'[c])
      BY <1>1, <2>1, <2>3 DEF Grounded, is_authenticated
    <2>4. QED BY <2>2, <2>3
  <1>2. CASE d # c
    BY <1>2 DEF save, TypeOK
  <1>3. QED BY <1>1, <1>2

\* Discarding a session, or leaving the store alone.
LEMMA KeepStep ==
    ASSUME TypeOK, UNCHANGED sessions \/ \E c \in Calls : discard(c)
    PROVE  SavesGrounded
  BY DEF SavesGrounded, discard, TypeOK

\* Returning, or leaving the handlers alone.
LEMMA ReturnStep ==
    ASSUME TypeOK, UNCHANGED handlers \/ \E h \in Handlers : return(h)
    PROVE  WaitsGrounded
  BY DEF WaitsGrounded, return, TypeOK

\* Suspending with a grounded session that meets the guard of the wait.
LEMMA AwaitStep ==
    ASSUME TypeOK, Growing, NEW c \in Calls, NEW h \in Handlers,
           NEW s, NEW wait \in Waits, await(h, wait, c, s),
           Grounded(s, (verified[c])'),
           Fits([awaiting |-> wait, call |-> c, session |-> s, attempt |-> 0])
    PROVE  WaitsGrounded
  <1> SUFFICES ASSUME NEW g \in Handlers
               PROVE  \/ (handlers[g])' \in {handlers[g], Idle}
                      \/ (/\ Fits(handlers[g])
                          /\ Grounded(handlers[g].session, verified[handlers[g].call]))'
    BY DEF WaitsGrounded
  <1>1. CASE g = h
    <2>1. handlers'[h] = [awaiting |-> wait, call |-> c, session |-> s, attempt |-> 0]
      BY DEF await, TypeOK
    <2>2. QED
      BY <1>1, <2>1 DEF Grounded, Fits, is_authenticated, is_terminal,
                        require_authenticated
  <1>2. CASE g # h
    BY <1>2 DEF await, TypeOK
  <1>3. QED BY <1>1, <1>2

\* A step that withdraws nothing, discloses nothing and files nothing.
LEMMA QuietStep ==
    ASSUME TypeOK, OnlyProvedLeaves, Growing, UNCHANGED <<sheet, disclosed>>
    PROVE  OnlyProvedLeaves'
  <1>1. \A c \in Calls : \A claim \in disclosed'[c] : claim_owner[claim] \in verified'[c]
    BY DEF OnlyProvedLeaves, Growing
  <1>2. \A i \in DOMAIN sheet' :
            sheet'[i].authenticated => sheet'[i].customer_id \in verified'[sheet'[i].call_id]
    <2> SUFFICES ASSUME NEW i \in DOMAIN sheet, sheet[i].authenticated
                 PROVE  sheet[i].customer_id \in verified'[sheet[i].call_id]
      OBVIOUS
    <2>1. sheet[i] \in InteractionRecord
      BY DEF TypeOK
    <2>2. sheet[i].call_id \in Calls
      BY <2>1 DEF InteractionRecord
    <2>3. QED BY <2>2 DEF OnlyProvedLeaves, Growing
  <1>3. QED BY <1>1, <1>2 DEF OnlyProvedLeaves

-----------------------------------------------------------------------------
(* Each handler and each answer writes nothing else *)

Careful == Growing /\ SavesGrounded /\ WaitsGrounded

\* What a handler reads from the store is a grounded session.
LEMMA GetGrounded ==
    ASSUME Inductive, NEW c \in Calls
    PROVE  get(c) \in Session /\ Grounded(get(c), verified[c])
  BY GetType, NewSessionGrounded DEF Inductive, SessionsGrounded, get

\* What a waiting handler holds is a grounded session that fits the wait.
LEMMA HeldGrounded ==
    ASSUME Inductive, NEW h \in Handlers, handlers[h].awaiting \in Waits
    PROVE  /\ handlers[h].call \in Calls
           /\ handlers[h].session \in Session
           /\ Grounded(handlers[h].session, verified[handlers[h].call])
           /\ Fits(handlers[h])
  BY SuspendedType DEF Inductive, HandlersGrounded

\* A step that verifies nobody withdraws nothing.
LEMMA UnverifiedGrows ==
    ASSUME UNCHANGED verified PROVE Growing
  BY DEF Growing

\* start_call saves a fresh session, if anything.
LEMMA StartCallCareful ==
    ASSUME Inductive, NEW c \in Calls, start_call(c)
    PROVE  Careful
  <1>1. Growing
    BY UnverifiedGrows DEF start_call
  <1>2. SavesGrounded
    <2>1. CASE live(c)
      BY <2>1, KeepStep DEF start_call, Inductive
    <2>2. CASE ~live(c)
      BY <1>1, <2>2, SaveStep, NewSessionGrounded DEF start_call, Inductive
    <2>3. QED BY <2>1, <2>2
  <1>3. WaitsGrounded
    BY ReturnStep DEF start_call, Inductive
  <1>4. QED BY <1>1, <1>2, <1>3 DEF Careful

\* submit_phone waits for a lookup only with an open session.
LEMMA SubmitPhoneCareful ==
    ASSUME Inductive, NEW c \in Calls, NEW h \in Handlers, submit_phone(h, c)
    PROVE  Careful
  <1> DEFINE s == get(c)
  <1>1. Growing /\ UNCHANGED verified
    BY UnverifiedGrows DEF submit_phone
  <1>2. s \in Session /\ Grounded(s, verified'[c])
    BY <1>1, GetGrounded
  <1>3. TypeOK
    BY DEF Inductive
  <1>4. SavesGrounded
    <2>1. CASE phone_refused(c) \/ lookup_started(h, c)
      BY <1>1, <1>2, <1>3, <2>1, SaveStep DEF phone_refused, lookup_started
    <2>2. CASE phone_not_understood(c)
      <3>1. Grounded(with_caller_phone(s), verified'[c])
        BY <1>2, NeutralTransitions
      <3>2. QED BY <1>1, <1>3, <2>2, <3>1, SaveStep DEF phone_not_understood
    <2>3. QED BY <2>1, <2>2 DEF submit_phone
  <1>5. WaitsGrounded
    <2>1. CASE phone_refused(c) \/ phone_not_understood(c)
      BY <1>3, <2>1, ReturnStep DEF phone_refused, phone_not_understood
    <2>2. CASE lookup_started(h, c)
      <3>1. ~is_terminal(s) /\ await(h, "lookup", c, s)
        BY <2>2 DEF lookup_started
      <3>2. Fits([awaiting |-> "lookup", call |-> c, session |-> s, attempt |-> 0])
        BY <3>1 DEF Fits
      <3>3. QED BY <1>1, <1>2, <1>3, <3>1, <3>2, AwaitStep DEF Waits
    <2>3. QED BY <2>1, <2>2 DEF submit_phone
  <1>6. QED BY <1>1, <1>4, <1>5 DEF Careful

\* The end of submit_phone saves an open session, whatever it has missed.
LEMMA LookupAnsweredCareful ==
    ASSUME Inductive, NEW h \in Handlers, lookup_answered(h)
    PROVE  Careful
  <1> DEFINE c == handlers[h].call
             s == handlers[h].session
             counted == with_caller_phone(s)
  <1>1. Growing /\ UNCHANGED verified
    BY UnverifiedGrows DEF lookup_answered, history
  <1>2. handlers[h].awaiting = "lookup"
    BY DEF lookup_answered
  <1>3. /\ c \in Calls /\ s \in Session
        /\ Grounded(s, verified'[c])
        /\ ~is_terminal(s)
    BY <1>1, <1>2, HeldGrounded DEF Fits, Waits
  <1>4. counted \in Session /\ Grounded(counted, verified'[c]) /\ ~is_terminal(counted)
    BY <1>3, TransitionType, NeutralTransitions, OpenTransitions
  <1>5. TypeOK
    BY DEF Inductive
  <1>6. SavesGrounded
    <2>1. CASE lookup_failed(c, s)
      BY <1>1, <1>3, <1>5, <2>1, SaveStep DEF lookup_failed
    <2>2. CASE lookup_found(c, s)
      <3>1. PICK customer \in Customers : save(c, with_customer_found(counted, customer))
        BY <2>2 DEF lookup_found
      <3>2. Grounded(with_customer_found(counted, customer), verified'[c])
        BY <1>4, OpenTransitions
      <3>3. QED BY <1>1, <1>3, <1>5, <3>1, <3>2, SaveStep
    <2>3. CASE lookup_not_found(c, s)
      <3>1. Grounded(with_customer_not_found(counted), verified'[c])
        BY <1>4, OpenTransitions
      <3>2. QED BY <1>1, <1>3, <1>5, <2>3, <3>1, SaveStep DEF lookup_not_found
    <2>4. QED BY <2>1, <2>2, <2>3 DEF lookup_answered
  <1>7. WaitsGrounded
    BY <1>5, ReturnStep DEF lookup_answered
  <1>8. QED BY <1>1, <1>6, <1>7 DEF Careful

\* A session that is not refused is open, has answers left and names a customer.
LEMMA NotRefused ==
    ASSUME NEW s \in Session, may_verify(s)
    PROVE  /\ ~is_terminal(s) /\ can_attempt_verification(s)
           /\ s.customer_id # None /\ s.customer_id \in Customers
  BY DEF Session, may_verify, is_terminal, is_authenticated

\* Judging an answer of an open session wrong saves a grounded session.
LEMMA AnsweredWrongCareful ==
    ASSUME Inductive, Growing, NEW c \in Calls, NEW s \in Session,
           Grounded(s, (verified[c])'), ~is_terminal(s), s.customer_id # None,
           answered_wrong(c, s)
    PROVE  SavesGrounded
  BY SaveStep, OpenTransitions DEF answered_wrong, Inductive

\* submit_verification waits only with a session in VERIFYING and a customer.
LEMMA SubmitVerificationCareful ==
    ASSUME Inductive, NEW c \in Calls, NEW h \in Handlers, submit_verification(h, c)
    PROVE  Careful
  <1> DEFINE s == get(c)
             started == with_verification_started(s)
  <1>1. Growing /\ UNCHANGED verified
    BY UnverifiedGrows DEF submit_verification
  <1>2. s \in Session /\ Grounded(s, verified'[c])
    BY <1>1, GetGrounded
  <1>3. TypeOK
    BY DEF Inductive
  <1>4. may_verify(s) => /\ started \in Session
                         /\ Grounded(started, verified'[c])
                         /\ ~is_terminal(started) /\ started.customer_id # None
    <2>1. started.customer_id = s.customer_id
      BY <1>2 DEF Session, with_verification_started
    <2>2. QED BY <1>2, <2>1, NotRefused, OpenTransitions, TransitionType
  <1>5. SavesGrounded
    <2>1. CASE verification_refused(c)
      BY <1>1, <1>2, <1>3, <2>1, SaveStep DEF verification_refused
    <2>2. CASE blank_answer(c)
      BY <1>1, <1>4, <2>2, AnsweredWrongCareful DEF blank_answer
    <2>3. CASE verification_started(h, c)
      BY <1>1, <1>3, <1>4, <2>3, SaveStep DEF verification_started
    <2>4. CASE verification_raises(c)
      BY <1>1, <1>3, <1>4, <2>4, SaveStep DEF verification_raises
    <2>5. QED BY <2>1, <2>2, <2>3, <2>4 DEF submit_verification
  <1>6. WaitsGrounded
    <2>1. CASE verification_refused(c) \/ blank_answer(c) \/ verification_raises(c)
      BY <1>3, <2>1, ReturnStep DEF verification_refused, blank_answer, verification_raises
    <2>2. CASE verification_started(h, c)
      <3>1. may_verify(s) /\ await(h, "verify", c, started)
        BY <2>2 DEF verification_started
      <3>2. /\ started.authentication_status = "VERIFYING"
            /\ started.customer_id = s.customer_id
        BY <1>2 DEF Session, with_verification_started
      <3>3. Fits([awaiting |-> "verify", call |-> c, session |-> started, attempt |-> 0])
        BY <1>2, <3>1, <3>2, NotRefused DEF Fits
      <3>4. QED BY <1>1, <1>3, <1>4, <3>1, <3>3, AwaitStep DEF Waits
    <2>3. QED BY <2>1, <2>2 DEF submit_verification
  <1>7. QED BY <1>1, <1>5, <1>6 DEF Careful

\* The end of submit_verification authenticates only the customer it has just
\* seen verified, whatever session it holds.
LEMMA VerificationAnsweredCareful ==
    ASSUME Inductive, NEW h \in Handlers, verification_answered(h)
    PROVE  Careful
  <1> DEFINE c == handlers[h].call
             s == handlers[h].session
             abandoned == with_verification_abandoned(s)
  <1>1. handlers[h].awaiting = "verify" /\ TypeOK
    BY DEF verification_answered, Inductive
  <1>2. /\ c \in Calls /\ s \in Session
        /\ Grounded(s, verified[c])
        /\ ~is_terminal(s) /\ s.customer_id # None
    BY <1>1, HeldGrounded, SessionAssumption DEF Fits, Waits, is_terminal
  <1>3. WaitsGrounded
    BY <1>1, ReturnStep DEF verification_answered
  <1>4. CASE answered_right(c, s)
    <2>1. verified' = [verified EXCEPT ![c] = @ \cup {s.customer_id}]
      BY <1>4 DEF answered_right
    <2>2. Growing
      BY <1>1, <1>2, <2>1 DEF Growing, TypeOK
    <2>3. s.customer_id \in verified'[c] /\ Grounded(s, verified'[c])
      BY <1>1, <1>2, <2>1, <2>2, GroundedGrows DEF Growing, TypeOK
    <2>4. Grounded(with_authenticated(s, s.customer_id), verified'[c])
      BY <1>2, <2>3, AuthenticatedGrounded
    <2>5. SavesGrounded
      BY <1>1, <1>2, <1>4, <2>2, <2>4, SaveStep DEF answered_right
    <2>6. QED BY <1>3, <2>2, <2>5 DEF Careful
  <1>5. CASE UNCHANGED verified /\ ~answered_right(c, s)
    <2>1. Growing /\ Grounded(s, verified'[c])
      BY <1>2, <1>5, UnverifiedGrows
    <2>2. /\ abandoned \in Session
          /\ Grounded(abandoned, verified'[c])
          /\ ~is_terminal(abandoned)
      BY <1>2, <2>1, OpenTransitions, TransitionType
    <2>3. CASE verification_error(c, s)
      <3>1. SavesGrounded
        BY <1>1, <1>2, <2>1, <2>2, <2>3, SaveStep DEF verification_error
      <3>2. QED BY <1>3, <2>1, <3>1 DEF Careful
    <2>4. CASE record_vanished(c, s)
      <3>1. Grounded(with_customer_not_found(abandoned), verified'[c])
        BY <2>2, OpenTransitions
      <3>2. SavesGrounded
        BY <1>1, <1>2, <2>1, <2>4, <3>1, SaveStep DEF record_vanished
      <3>3. QED BY <1>3, <2>1, <3>2 DEF Careful
    <2>5. CASE answered_wrong(c, s)
      <3>1. SavesGrounded
        BY <1>2, <2>1, <2>5, AnsweredWrongCareful
      <3>2. QED BY <1>3, <2>1, <3>1 DEF Careful
    <2>6. CASE comparison_raises
      BY <1>1, <1>3, <2>1, <2>6, KeepStep DEF comparison_raises, Careful
    <2>7. QED BY <1>5, <2>3, <2>4, <2>5, <2>6 DEF verification_answered
  <1>6. UNCHANGED verified \/ answered_right(c, s)
    BY DEF verification_answered, verification_error, record_vanished, comparison_raises
  <1>7. QED BY <1>4, <1>5, <1>6

\* get_claim_status waits only with an authenticated session.
LEMMA GetClaimStatusCareful ==
    ASSUME Inductive, NEW c \in Calls, NEW h \in Handlers, NEW expected,
           get_claim_status(h, c, expected)
    PROVE  Careful
  <1> DEFINE s == get(c)
  <1>1. Growing /\ UNCHANGED verified /\ TypeOK
    BY UnverifiedGrows DEF get_claim_status, Inductive
  <1>2. s \in Session /\ Grounded(s, verified'[c])
    BY <1>1, GetGrounded
  <1>3. SavesGrounded
    BY <1>1, KeepStep DEF get_claim_status
  <1>4. WaitsGrounded
    <2>1. CASE claim_refused(c, expected)
      BY <1>1, <2>1, ReturnStep DEF claim_refused
    <2>2. CASE claim_lookup_started(h, c, expected)
      <3>1. require_authenticated(s) /\ await(h, "claim", c, s)
        BY <2>2 DEF claim_lookup_started, authorised
      <3>2. Fits([awaiting |-> "claim", call |-> c, session |-> s, attempt |-> 0])
        BY <3>1 DEF Fits
      <3>3. QED BY <1>1, <1>2, <3>1, <3>2, AwaitStep DEF Waits
    <2>3. QED BY <2>1, <2>2 DEF get_claim_status
  <1>5. QED BY <1>1, <1>3, <1>4 DEF Careful

\* The end of get_claim_status reads out a claim of the customer it was
\* started for, who was verified then.
LEMMA ClaimAnsweredCareful ==
    ASSUME Inductive, NEW h \in Handlers, claim_answered(h)
    PROVE  Careful /\ OnlyProvedLeaves'
  <1> DEFINE c == handlers[h].call
             s == handlers[h].session
  <1>1. Growing /\ UNCHANGED verified /\ UNCHANGED sheet /\ TypeOK
    BY UnverifiedGrows DEF claim_answered, Inductive
  <1>2. handlers[h].awaiting = "claim"
    BY DEF claim_answered
  <1>3. /\ c \in Calls /\ s \in Session
        /\ Grounded(s, verified[c])
        /\ is_authenticated(s)
    BY <1>2, HeldGrounded DEF Fits, Waits, require_authenticated
  <1>4. WaitsGrounded
    BY <1>1, ReturnStep DEF claim_answered
  <1>5. CASE claim_found(c, s)
    <2>1. PICK claim \in Claims :
              /\ claim_owner[claim] = s.customer_id
              /\ save(c, with_claim(s, claim))
              /\ disclosed' = [disclosed EXCEPT ![c] = @ \cup {claim}]
      BY <1>5 DEF claim_found
    <2>2. Grounded(with_claim(s, claim), verified'[c])
      BY <1>1, <1>3, <2>1, ClaimGrounded
    <2>3. SavesGrounded
      BY <1>1, <1>3, <2>1, <2>2, SaveStep
    <2>4. claim_owner[claim] \in verified[c]
      BY <1>3, <2>1 DEF Grounded
    <2>5. OnlyProvedLeaves'
      <3>1. \A d \in Calls : \A k \in disclosed'[d] : claim_owner[k] \in verified'[d]
        BY <1>1, <1>3, <2>1, <2>4 DEF Inductive, OnlyProvedLeaves, TypeOK
      <3>2. QED BY <1>1, <3>1 DEF Inductive, OnlyProvedLeaves
    <2>6. QED BY <1>1, <1>4, <2>3, <2>5 DEF Careful
  <1>6. CASE claim_unavailable
    <2>1. SavesGrounded
      BY <1>1, <1>6, KeepStep DEF claim_unavailable
    <2>2. OnlyProvedLeaves'
      BY <1>1, <1>6, QuietStep DEF claim_unavailable, Inductive
    <2>3. QED BY <1>1, <1>4, <2>1, <2>2 DEF Careful
  <1>7. QED BY <1>5, <1>6 DEF claim_answered

\* search_faq quotes a claim number only from a grounded session.
LEMMA SearchFaqCareful ==
    ASSUME Inductive, NEW c \in Calls, NEW topic \in Topics, search_faq(c, topic)
    PROVE  Careful /\ OnlyProvedLeaves'
  <1> DEFINE s == IF live(c) THEN with_faq_topic(sessions[c], topic) ELSE None
  <1>1. Growing /\ UNCHANGED verified /\ UNCHANGED sheet /\ TypeOK
    BY UnverifiedGrows DEF search_faq, Inductive
  <1>2. s = None \/ (s \in Session /\ Grounded(s, verified[c]))
    <2>1. CASE live(c)
      <3>1. sessions[c] \in Session /\ Grounded(sessions[c], verified[c])
        BY <2>1 DEF Inductive, TypeOK, SessionsGrounded, live
      <3>2. QED BY <2>1, <3>1, NeutralTransitions, TransitionType
    <2>2. CASE ~live(c)
      BY <2>2
    <2>3. QED BY <2>1, <2>2
  <1>3. /\ save(c, s)
        /\ disclosed' = [disclosed EXCEPT ![c] = @ \cup _claim_reference(s, topic)]
    BY DEF search_faq
  <1> HIDE DEF s
  <1>4. SavesGrounded
    BY <1>1, <1>2, <1>3, SaveStep
  <1>5. \A claim \in _claim_reference(s, topic) : claim_owner[claim] \in verified[c]
    BY <1>2 DEF _claim_reference, Grounded
  <1>6. \A d \in Calls : \A k \in disclosed'[d] : claim_owner[k] \in verified'[d]
    BY <1>1, <1>3, <1>5 DEF Inductive, OnlyProvedLeaves, TypeOK
  <1>7. OnlyProvedLeaves'
    BY <1>1, <1>6 DEF Inductive, OnlyProvedLeaves
  <1>8. WaitsGrounded
    BY <1>1, ReturnStep DEF search_faq
  <1>9. QED BY <1>1, <1>4, <1>7, <1>8 DEF Careful

\* An escalation changes nothing the boundary is about.
LEMMA EscalationCareful ==
    ASSUME Inductive, NEW c \in Calls, NEW reason, request_representative(c, reason),
           UNCHANGED <<handlers, verified>>
    PROVE  Careful
  <1>1. Growing /\ TypeOK
    BY UnverifiedGrows DEF Inductive
  <1>2. Grounded(with_escalation(get(c), reason), verified'[c])
    BY GetGrounded, NeutralTransitions
  <1>3. SavesGrounded
    BY <1>1, <1>2, SaveStep DEF request_representative
  <1>4. WaitsGrounded
    BY <1>1, ReturnStep
  <1>5. QED BY <1>1, <1>3, <1>4 DEF Careful

\* The end of a call waits for the sheet only with an outcome to file.
LEMMA CallEndedCareful ==
    ASSUME Inductive, NEW c \in Calls, NEW h \in Handlers, call_ended(h, c)
    PROVE  Careful
  <1>1. Growing /\ UNCHANGED verified /\ TypeOK
    BY UnverifiedGrows DEF call_ended, Inductive
  <1>2. CASE end_ignored(c) \/ end_unfiled(c)
    <2>1. SavesGrounded
      BY <1>1, <1>2, KeepStep DEF end_ignored, end_unfiled
    <2>2. WaitsGrounded
      BY <1>1, <1>2, ReturnStep DEF end_ignored, end_unfiled
    <2>3. QED BY <1>1, <2>1, <2>2 DEF Careful
  <1>3. CASE end_filing(h, c)
    <2> DEFINE outcome == derive_outcome(sessions[c])
               s == with_outcome(sessions[c], outcome)
    <2>1. live(c) /\ save(c, s) /\ await(h, "sheet_read", c, s)
      BY <1>3 DEF end_filing
    <2>2. sessions[c] \in Session /\ Grounded(sessions[c], verified[c])
      BY <1>1, <2>1 DEF Inductive, SessionsGrounded, TypeOK, live
    <2>3. Grounded(s, verified'[c])
      BY <1>1, <2>2, NeutralTransitions
    <2>4. s.conversation_outcome \in ConversationOutcome
      BY <2>2, OutcomeType DEF Session, with_outcome
    <2>5. Fits([awaiting |-> "sheet_read", call |-> c, session |-> s, attempt |-> 0])
      BY <2>4 DEF Fits
    <2>6. SavesGrounded
      BY <1>1, <2>1, <2>3, SaveStep
    <2>7. WaitsGrounded
      BY <1>1, <2>1, <2>3, <2>5, AwaitStep DEF Waits
    <2>8. QED BY <1>1, <2>6, <2>7 DEF Careful
  <1>4. QED BY <1>2, <1>3 DEF call_ended

\* A handler that goes on from one wait for the sheet to the next keeps its copy.
LEMMA AnotherWait ==
    ASSUME Inductive, Growing, NEW h \in Handlers, handlers[h].awaiting = "sheet_read",
           handlers' = [handlers EXCEPT ![h].awaiting = "sheet_append"]
    PROVE  WaitsGrounded
  <1> SUFFICES ASSUME NEW g \in Handlers
               PROVE  \/ (handlers[g])' \in {handlers[g], Idle}
                      \/ (/\ Fits(handlers[g])
                          /\ Grounded(handlers[g].session, verified[handlers[g].call]))'
    BY DEF WaitsGrounded
  <1>1. /\ handlers[h] \in Suspended /\ handlers[h].call \in Calls
        /\ Fits(handlers[h])
        /\ Grounded(handlers[h].session, verified[handlers[h].call])
    BY HeldGrounded, SuspendedType DEF Inductive, Waits
  <1>2. CASE g = h
    <2>1. handlers'[h] = [handlers[h] EXCEPT !.awaiting = "sheet_append"]
      BY DEF Inductive, TypeOK
    <2>2. /\ handlers'[h].awaiting = "sheet_append"
          /\ handlers'[h].call = handlers[h].call
          /\ handlers'[h].session = handlers[h].session
      BY <1>1, <2>1 DEF Suspended
    <2>3. Grounded(handlers[h].session, verified'[handlers[h].call])
      BY <1>1, GroundedGrows DEF Growing
    <2>4. QED BY <1>1, <1>2, <2>2, <2>3 DEF Fits, Grounded, is_authenticated
  <1>3. CASE g # h
    BY <1>3 DEF Inductive, TypeOK
  <1>4. QED BY <1>2, <1>3

\* A retried attempt keeps the copy and the wait.
LEMMA AnotherAttempt ==
    ASSUME Inductive, Growing, NEW h \in Handlers, handlers[h].awaiting = "sheet_append",
           handlers' = [handlers EXCEPT ![h].attempt = @ + 1]
    PROVE  WaitsGrounded
  <1> SUFFICES ASSUME NEW g \in Handlers
               PROVE  \/ (handlers[g])' \in {handlers[g], Idle}
                      \/ (/\ Fits(handlers[g])
                          /\ Grounded(handlers[g].session, verified[handlers[g].call]))'
    BY DEF WaitsGrounded
  <1>1. /\ handlers[h] \in Suspended /\ handlers[h].call \in Calls
        /\ Fits(handlers[h])
        /\ Grounded(handlers[h].session, verified[handlers[h].call])
    BY HeldGrounded, SuspendedType DEF Inductive, Waits
  <1>2. CASE g = h
    <2>1. handlers'[h] = [handlers[h] EXCEPT !.attempt = handlers[h].attempt + 1]
      BY DEF Inductive, TypeOK
    <2>2. /\ handlers'[h].awaiting = "sheet_append"
          /\ handlers'[h].call = handlers[h].call
          /\ handlers'[h].session = handlers[h].session
      BY <1>1, <2>1 DEF Suspended
    <2>3. Grounded(handlers[h].session, verified'[handlers[h].call])
      BY <1>1, GroundedGrows DEF Growing
    <2>4. QED BY <1>1, <1>2, <2>2, <2>3 DEF Fits, Grounded, is_authenticated
  <1>3. CASE g # h
    BY <1>3 DEF Inductive, TypeOK
  <1>4. QED BY <1>2, <1>3

\* The answer to the read of the sheet keeps the held copy.
LEMMA SheetReadAnsweredCareful ==
    ASSUME Inductive, NEW h \in Handlers, sheet_read_answered(h)
    PROVE  Careful
  <1> DEFINE c == handlers[h].call
  <1>1. Growing /\ UNCHANGED verified /\ TypeOK
    BY UnverifiedGrows DEF sheet_read_answered, Inductive
  <1>2. handlers[h].awaiting = "sheet_read"
    BY DEF sheet_read_answered
  <1>3. c \in Calls /\ handlers[h] \in Suspended
    BY <1>1, <1>2, SuspendedType DEF Waits
  <1>4. CASE read_failed(h, c) \/ read_present(h, c)
    <2>1. SavesGrounded
      BY <1>1, <1>3, <1>4, KeepStep DEF read_failed, read_present
    <2>2. WaitsGrounded
      BY <1>1, <1>4, ReturnStep DEF read_failed, read_present
    <2>3. QED BY <1>1, <2>1, <2>2 DEF Careful
  <1>5. CASE read_absent(h, c)
    <2>1. SavesGrounded
      BY <1>1, <1>5, KeepStep DEF read_absent
    <2>2. handlers' = [handlers EXCEPT ![h].awaiting = "sheet_append"]
      BY <1>5 DEF read_absent
    <2>3. WaitsGrounded
      BY <1>1, <1>2, <2>2, AnotherWait DEF Waits
    <2>4. QED BY <1>1, <2>1, <2>3 DEF Careful
  <1>6. QED BY <1>4, <1>5 DEF sheet_read_answered

\* The end of an append attempt drops the session or keeps the held copy, and
\* a row that lands is that of a grounded session.
LEMMA AppendAnsweredCareful ==
    ASSUME Inductive, NEW h \in Handlers, append_answered(h)
    PROVE  Careful /\ OnlyProvedLeaves'
  <1> DEFINE c == handlers[h].call
             s == handlers[h].session
  <1>1. Growing /\ UNCHANGED <<verified, disclosed>> /\ TypeOK
    BY UnverifiedGrows DEF append_answered, Inductive
  <1>2. handlers[h].awaiting = "sheet_append"
    BY DEF append_answered
  <1>3. /\ c \in Calls /\ s \in Session /\ handlers[h] \in Suspended
        /\ Grounded(s, verified[c])
        /\ s.conversation_outcome \in ConversationOutcome
    BY <1>1, <1>2, HeldGrounded, SuspendedType DEF Fits, Waits
  <1>4. Careful
    <2>1. CASE append_confirmed(h, c) \/ append_failed(h, c)
      <3>1. SavesGrounded
        BY <1>1, <1>3, <2>1, KeepStep DEF append_confirmed, append_failed
      <3>2. WaitsGrounded
        BY <1>1, <2>1, ReturnStep DEF append_confirmed, append_failed
      <3>3. QED BY <1>1, <3>1, <3>2 DEF Careful
    <2>2. CASE append_retried(h)
      <3>1. SavesGrounded
        BY <1>1, <2>2, KeepStep DEF append_retried
      <3>2. handlers' = [handlers EXCEPT ![h].attempt = @ + 1]
        BY <2>2 DEF append_retried
      <3>3. WaitsGrounded
        BY <1>1, <1>2, <3>2, AnotherAttempt DEF Waits
      <3>4. QED BY <1>1, <3>1, <3>3 DEF Careful
    <2>3. QED BY <2>1, <2>2 DEF append_answered
  <1>5. CASE UNCHANGED sheet
    BY <1>1, <1>4, <1>5, QuietStep DEF Careful, Inductive
  <1>6. CASE row_lands(h)
    <2> DEFINE row == build_record(c, s)
    <2>1. sheet' = Append(sheet, row) /\ sheet \in Seq(InteractionRecord)
      BY <1>1, <1>6 DEF row_lands, TypeOK
    <2>2. row.call_id = c /\ (row.authenticated => row.customer_id \in verified[c])
      BY <1>3 DEF build_record, Grounded
    <2>3. \A i \in DOMAIN sheet' : i \in DOMAIN sheet \/ sheet'[i] = row
      BY <2>1
    <2>4. \A i \in DOMAIN sheet : sheet'[i] = sheet[i]
      BY <2>1
    <2> HIDE DEF row
    <2>5. ASSUME NEW i \in DOMAIN sheet', sheet'[i].authenticated
          PROVE  sheet'[i].customer_id \in verified[sheet'[i].call_id]
      <3>1. CASE i \in DOMAIN sheet
        BY <2>4, <2>5, <3>1 DEF Inductive, OnlyProvedLeaves
      <3>2. CASE sheet'[i] = row
        BY <2>2, <2>5, <3>2
      <3>3. QED BY <2>3, <3>1, <3>2
    <2>6. QED BY <1>1, <1>4, <2>5 DEF Inductive, OnlyProvedLeaves
  <1>7. UNCHANGED sheet \/ row_lands(h)
    BY DEF append_answered, append_confirmed, append_retried, append_failed, row_may_land
  <1>8. QED BY <1>4, <1>5, <1>6, <1>7

\* A restart leaves nothing to be grounded, and forgets no verification.
LEMMA RestartCareful ==
    ASSUME Inductive, restart
    PROVE  Careful
  <1>1. Growing
    BY UnverifiedGrows DEF restart
  <1>2. SavesGrounded
    BY DEF restart, SavesGrounded
  <1>3. WaitsGrounded
    BY DEF restart, WaitsGrounded
  <1>4. QED BY <1>1, <1>2, <1>3 DEF Careful

-----------------------------------------------------------------------------
(* The inductive invariant *)

\* A careful, quiet step keeps the whole of the strengthening.
LEMMA CarefulQuiet ==
    ASSUME Inductive, Careful, UNCHANGED <<sheet, disclosed>>
    PROVE  (SessionsGrounded /\ HandlersGrounded /\ OnlyProvedLeaves)'
  BY StoreStep, HandlersStep, QuietStep DEF Inductive, Careful

\* A careful step that discloses or files keeps it when only what is proved leaves.
LEMMA CarefulProved ==
    ASSUME Inductive, Careful, OnlyProvedLeaves'
    PROVE  (SessionsGrounded /\ HandlersGrounded /\ OnlyProvedLeaves)'
  BY StoreStep, HandlersStep DEF Inductive, Careful

\* The initial state satisfies the invariant.
LEMMA InitInductive == Init => Inductive
  <1> SUFFICES ASSUME Init PROVE Inductive
    OBVIOUS
  <1>1. TypeOK
    BY InitType
  <1>2. SessionsGrounded /\ HandlersGrounded
    BY DEF Init, SessionsGrounded, HandlersGrounded, live, Idle, Waits
  <1>3. OnlyProvedLeaves
    BY DEF Init, OnlyProvedLeaves
  <1>4. QED BY <1>1, <1>2, <1>3 DEF Inductive

\* Every step preserves the invariant.
LEMMA NextInductive ==
    ASSUME Inductive, [Next]_vars
    PROVE  Inductive'
  <1>1. TypeOK'
    BY NextType DEF Inductive
  <1>2. (SessionsGrounded /\ HandlersGrounded /\ OnlyProvedLeaves)'
    <2>1. CASE \E c \in Calls : delivered(c)
      <3>1. PICK c \in Calls : delivered(c)
        BY <2>1
      <3>2. CASE start_call(c)
        BY <3>2, StartCallCareful, CarefulQuiet DEF start_call
      <3>3. CASE \E topic \in Topics : search_faq(c, topic)
        BY <3>3, SearchFaqCareful, CarefulProved
      <3>4. CASE intercept(c)
        BY <3>4, EscalationCareful, CarefulQuiet DEF intercept
      <3>5. CASE \E supplied \in Reasons, alarm \in BOOLEAN :
                     representative_requested(c, supplied, alarm)
        BY <3>5, EscalationCareful, CarefulQuiet DEF representative_requested
      <3>6. CASE \E h \in Handlers : submit_phone(h, c)
        BY <3>6, SubmitPhoneCareful, CarefulQuiet DEF submit_phone
      <3>7. CASE \E h \in Handlers : submit_verification(h, c)
        BY <3>7, SubmitVerificationCareful, CarefulQuiet DEF submit_verification
      <3>8. CASE \E h \in Handlers, expected \in Customers \cup {None} :
                     get_claim_status(h, c, expected)
        BY <3>8, GetClaimStatusCareful, CarefulQuiet DEF get_claim_status
      <3>9. CASE \E h \in Handlers : call_ended(h, c)
        BY <3>9, CallEndedCareful, CarefulQuiet DEF call_ended
      <3>10. QED
        BY <3>1, <3>2, <3>3, <3>4, <3>5, <3>6, <3>7, <3>8, <3>9 DEF delivered
    <2>2. CASE \E h \in Handlers : answered(h)
      <3>1. PICK h \in Handlers : answered(h)
        BY <2>2
      <3>2. CASE lookup_answered(h)
        BY <3>2, LookupAnsweredCareful, CarefulQuiet DEF lookup_answered, history
      <3>3. CASE verification_answered(h)
        BY <3>3, VerificationAnsweredCareful, CarefulQuiet DEF verification_answered
      <3>4. CASE claim_answered(h)
        BY <3>4, ClaimAnsweredCareful, CarefulProved
      <3>5. CASE sheet_read_answered(h)
        BY <3>5, SheetReadAnsweredCareful, CarefulQuiet DEF sheet_read_answered
      <3>6. CASE append_answered(h)
        BY <3>6, AppendAnsweredCareful, CarefulProved
      <3>7. QED BY <3>1, <3>2, <3>3, <3>4, <3>5, <3>6 DEF answered
    <2>3. CASE restart
      BY <2>3, RestartCareful, CarefulQuiet DEF restart
    <2>4. CASE UNCHANGED vars
      <3>1. Growing /\ SavesGrounded /\ WaitsGrounded
        BY <2>4, UnverifiedGrows, KeepStep, ReturnStep DEF vars, program, history, Inductive
      <3>2. QED BY <2>4, <3>1, CarefulQuiet DEF Careful, vars, program, history
    <2>5. QED BY <2>1, <2>2, <2>3, <2>4 DEF Next
  <1>3. QED BY <1>1, <1>2 DEF Inductive

-----------------------------------------------------------------------------
(* The theorems *)

\* The invariant holds in every state of every behaviour, for any number of
\* calls and of handlers that overlap on them.
THEOREM InductiveHolds == Spec => []Inductive
  <1>1. Init => Inductive
    BY InitInductive
  <1>2. Inductive /\ [Next]_vars => Inductive'
    BY NextInductive
  <1>3. QED BY <1>1, <1>2, PTL DEF Spec

\* Every variable keeps its type.
THEOREM TypeCorrect == Spec => []TypeOK
  <1>1. Inductive => TypeOK
    BY DEF Inductive
  <1>2. QED BY <1>1, InductiveHolds, PTL

\* A session of a call is the stored one or the copy of a waiting handler.
LEMMA HeldSessions ==
    ASSUME Inductive, NEW c \in Calls, NEW s \in held(c)
    PROVE  s \in Session /\ Grounded(s, verified[c])
  <1>1. CASE s \in {sessions[c]} \ {None}
    BY <1>1 DEF Inductive, SessionsGrounded, live, TypeOK
  <1>2. CASE \E h \in Handlers : handlers[h].call = c /\ s = handlers[h].session
    <2>1. PICK h \in Handlers : handlers[h].call = c /\ s = handlers[h].session
      BY <1>2
    <2>2. handlers[h] # Idle
      BY <2>1, CallAssumption DEF Idle
    <2>3. handlers[h].awaiting \in Waits
      BY <2>2 DEF Inductive, TypeOK, Suspended
    <2>4. QED BY <2>1, <2>3, HeldGrounded
  <1>3. QED BY <1>1, <1>2 DEF held

\* A session says AUTHENTICATED only for a customer verified upstream on that
\* call, and so does every stale copy a handler may yet save.
THEOREM VerifiedFirst == Spec => []VerifiedBeforeAuthenticated
  <1>1. Inductive => VerifiedBeforeAuthenticated
    BY HeldSessions DEF VerifiedBeforeAuthenticated, Grounded
  <1>2. QED BY <1>1, InductiveHolds, PTL

\* A session that carries a claim is authenticated as the claim's owner.
THEOREM ClaimStaysWithOwner == Spec => []ClaimFollowsItsOwner
  <1>1. Inductive => ClaimFollowsItsOwner
    BY HeldSessions DEF ClaimFollowsItsOwner, Grounded
  <1>2. QED BY <1>1, InductiveHolds, PTL

\* A session is locked exactly when its budget of wrong answers is spent.
THEOREM BudgetLocks == Spec => []LockedAtBudget
  <1>1. Inductive => LockedAtBudget
    BY HeldSessions DEF LockedAtBudget, Grounded
  <1>2. QED BY <1>1, InductiveHolds, PTL

\* A caller whose record was found and whose budget is not spent can go on
\* verifying, whatever failed, was raised half way or was saved late.
THEOREM FoundIsNoDeadEnd == Spec => []FoundMayVerify
  <1>1. ASSUME NEW s \in Session, NEW proved, Grounded(s, proved),
               s.authentication_status \in {"CUSTOMER_FOUND", "VERIFYING"}
        PROVE  may_verify(s)
    <2>1. s.customer_id # None /\ ~(s.authentication_attempts >= MAX_AUTHENTICATION_ATTEMPTS)
      BY <1>1 DEF Grounded
    <2>2. s.authentication_attempts < MAX_AUTHENTICATION_ATTEMPTS
      BY <2>1, SessionAssumption DEF Session
    <2>3. QED
      BY <1>1, <2>1, <2>2 DEF may_verify, is_authenticated, can_attempt_verification
  <1>2. Inductive => FoundMayVerify
    BY <1>1, HeldSessions DEF FoundMayVerify
  <1>3. QED BY <1>2, InductiveHolds, PTL

\* A grounded session is not told of as found and not found at once.
LEMMA OneStory ==
    ASSUME NEW s \in Session, NEW proved, Grounded(s, proved),
           NEW ended, ended = with_outcome(s, derive_outcome(s))
    PROVE  LET identification == _identification_sentence(ended)
               closing == _closing_sentence(ended)
               sentiment == score_sentiment(ended)
           IN /\ closing = "completed" => identification = "verified"
              /\ identification = "verified" =>
                     closing \notin {"unverified", "no match", "ended"}
              /\ closing = "unverified" => identification = "not verified"
              /\ closing = "no match" \/ identification = "no account" =>
                     s.authentication_status = "UNAUTHENTICATED"
              /\ sentiment = "POSITIVE" => closing = "completed"
              /\ closing \in {"emergency", "unverified", "no match"} =>
                     sentiment = "NEGATIVE"
  <1> DEFINE status == s.authentication_status
             outcome == ended.conversation_outcome
  <1>1. /\ ended.authentication_status = status
        /\ ended.escalated = s.escalated
        /\ ended.escalation_reason = s.escalation_reason
        /\ outcome = derive_outcome(s)
    BY DEF Session, with_outcome
  <1>2. /\ status \in AuthenticationStatus
        /\ s.conversation_outcome = "CUSTOMER_NOT_FOUND" =>
               status \notin {"CUSTOMER_FOUND", "VERIFYING"}
    BY DEF Session, Grounded
  <1>3. CASE s.escalated
    BY <1>1, <1>2, <1>3
       DEF derive_outcome, AuthenticationStatus, is_terminal, is_authenticated,
           _identification_sentence, _closing_sentence, score_sentiment
  <1>4. CASE ~s.escalated
    BY <1>1, <1>2, <1>4
       DEF derive_outcome, AuthenticationStatus, is_terminal, is_authenticated,
           _identification_sentence, _closing_sentence, score_sentiment
  <1>5. QED BY <1>3, <1>4

\* Whatever handlers of a call overlap, the row it would be filed with tells one
\* story of who was on the telephone and how it went.
THEOREM OneStoryIsTold == Spec => []RowTellsOneStory
  <1>1. Inductive => RowTellsOneStory
    BY HeldSessions, OneStory DEF RowTellsOneStory
  <1>2. QED BY <1>1, InductiveHolds, PTL

-----------------------------------------------------------------------------
(* The process implements DisclosureBoundary *)

\* The rows of the sheet as the boundary sees them.
Filed == {<<sheet[i].call_id, sheet[i].customer_id>> :
              i \in {j \in DOMAIN sheet : sheet[j].authenticated}}

\* Appending a row files what it says, and no more.
LEMMA FiledGrows ==
    ASSUME NEW row, NEW S, row \in S, sheet \in Seq(S), sheet' = Append(sheet, row)
    PROVE  Filed' = Filed \cup IF row.authenticated
                               THEN {<<row.call_id, row.customer_id>>} ELSE {}
  <1> DEFINE last == Len(sheet) + 1
             pair(i) == <<sheet[i].call_id, sheet[i].customer_id>>
  <1>1. DOMAIN sheet' = DOMAIN sheet \cup {last} /\ last \notin DOMAIN sheet
    OBVIOUS
  <1>2. \A i \in DOMAIN sheet : sheet'[i] = sheet[i]
    OBVIOUS
  <1>3. sheet'[last] = row
    OBVIOUS
  <1> HIDE DEF last
  <1>4. ASSUME NEW x \in Filed' PROVE x \in Filed \/ (row.authenticated
                                        /\ x = <<row.call_id, row.customer_id>>)
    <2>1. PICK i \in DOMAIN sheet' :
              sheet'[i].authenticated /\ x = <<sheet'[i].call_id, sheet'[i].customer_id>>
      BY DEF Filed
    <2>2. CASE i = last
      BY <1>3, <2>1, <2>2
    <2>3. CASE i \in DOMAIN sheet
      BY <1>2, <2>1, <2>3 DEF Filed
    <2>4. QED BY <1>1, <2>1, <2>2, <2>3
  <1>5. ASSUME NEW x \in Filed PROVE x \in Filed'
    <2>1. PICK i \in DOMAIN sheet : sheet[i].authenticated /\ x = pair(i)
      BY DEF Filed
    <2>2. i \in DOMAIN sheet' /\ sheet'[i].authenticated /\ x = pair(i)'
      BY <1>1, <1>2, <2>1
    <2>3. QED BY <2>2 DEF Filed
  <1>6. row.authenticated => <<row.call_id, row.customer_id>> \in Filed'
    BY <1>1, <1>3 DEF Filed
  <1>7. QED BY <1>4, <1>5, <1>6

\* The initial state is one of the boundary's.
LEMMA BoundaryInit == Init => Boundary!Init
  BY DEF Init, Boundary!Init

\* A step that verifies nobody, discloses nothing and files nothing stutters.
LEMMA BoundaryStutter ==
    ASSUME UNCHANGED <<verified, disclosed, sheet>>
    PROVE  UNCHANGED Boundary!boundaryVars
  BY DEF Boundary!boundaryVars

\* The end of a verification proves at most the customer it was about.
LEMMA VerificationProves ==
    ASSUME Inductive, NEW h \in Handlers, verification_answered(h)
    PROVE  [Boundary!Next]_Boundary!boundaryVars
  <1> DEFINE c == handlers[h].call
             s == handlers[h].session
  <1>1. c \in Calls /\ s.customer_id \in Customers
    BY HeldGrounded DEF verification_answered, Fits, Waits
  <1>2. CASE answered_right(c, s)
    <2>1. verified' = [verified EXCEPT ![c] = @ \cup {s.customer_id}]
      BY <1>2 DEF answered_right
    <2>2. UNCHANGED <<disclosed, sheet>>
      BY DEF verification_answered
    <2>3. Boundary!Prove(c, s.customer_id)
      BY <2>1, <2>2 DEF Boundary!Prove
    <2>4. QED BY <1>1, <2>3 DEF Boundary!Next
  <1>3. CASE ~answered_right(c, s)
    BY <1>3, BoundaryStutter
       DEF verification_answered, verification_error, record_vanished, comparison_raises
  <1>4. QED BY <1>2, <1>3

\* The end of a claim lookup discloses at most a claim of the proved customer.
LEMMA ClaimDiscloses ==
    ASSUME Inductive, NEW h \in Handlers, claim_answered(h)
    PROVE  [Boundary!Next]_Boundary!boundaryVars
  <1> DEFINE c == handlers[h].call
             s == handlers[h].session
  <1>1. /\ c \in Calls
        /\ s.customer_id \in verified[c]
    BY HeldGrounded DEF claim_answered, Fits, Waits, require_authenticated, Grounded
  <1>2. UNCHANGED <<verified, sheet>>
    BY DEF claim_answered
  <1>3. CASE claim_found(c, s)
    <2>1. PICK claim \in Claims :
              /\ claim_owner[claim] = s.customer_id
              /\ disclosed' = [disclosed EXCEPT ![c] = @ \cup {claim}]
      BY <1>3 DEF claim_found
    <2>2. Boundary!Disclose(c, claim)
      BY <1>1, <1>2, <2>1 DEF Boundary!Disclose
    <2>3. QED BY <1>1, <2>2 DEF Boundary!Next
  <1>4. CASE claim_unavailable
    BY <1>2, <1>4, BoundaryStutter DEF claim_unavailable
  <1>5. QED BY <1>3, <1>4 DEF claim_answered

\* An FAQ answer discloses at most the claim the session was given.
LEMMA FaqDiscloses ==
    ASSUME Inductive, NEW c \in Calls, NEW topic \in Topics, search_faq(c, topic)
    PROVE  [Boundary!Next]_Boundary!boundaryVars
  <1> DEFINE s == IF live(c) THEN with_faq_topic(sessions[c], topic) ELSE None
  <1>1. /\ disclosed' = [disclosed EXCEPT ![c] = @ \cup _claim_reference(s, topic)]
        /\ UNCHANGED <<verified, sheet>>
    BY DEF search_faq
  <1>2. CASE _claim_reference(s, topic) = {}
    <2>1. UNCHANGED disclosed
      BY <1>1, <1>2 DEF Inductive, TypeOK
    <2>2. QED BY <1>1, <2>1, BoundaryStutter
  <1>3. CASE _claim_reference(s, topic) # {}
    <2>1. live(c) /\ s = with_faq_topic(sessions[c], topic)
      BY <1>3 DEF _claim_reference
    <2>2. sessions[c] \in Session /\ Grounded(sessions[c], verified[c])
      BY <2>1 DEF Inductive, SessionsGrounded, TypeOK, live
    <2>3. s \in Session /\ Grounded(s, verified[c])
      BY <2>1, <2>2, NeutralTransitions, TransitionType
    <2> HIDE DEF s
    <2>4. _claim_reference(s, topic) = {s.claim_id} /\ s.claim_id # None
      BY <1>3 DEF _claim_reference
    <2>5. s.claim_id \in Claims
      BY <2>3, <2>4 DEF Session
    <2>6. claim_owner[s.claim_id] \in verified[c]
      BY <2>3, <2>4 DEF Grounded
    <2>7. Boundary!Disclose(c, s.claim_id)
      BY <1>1, <2>4, <2>6 DEF Boundary!Disclose
    <2>8. QED BY <2>5, <2>7 DEF Boundary!Next
  <1>4. QED BY <1>2, <1>3

\* The end of an append attempt files at most a row of a grounded session.
LEMMA AppendFiles ==
    ASSUME Inductive, NEW h \in Handlers, append_answered(h)
    PROVE  [Boundary!Next]_Boundary!boundaryVars
  <1> DEFINE c == handlers[h].call
             s == handlers[h].session
             row == build_record(c, s)
  <1>1. UNCHANGED <<verified, disclosed>> /\ TypeOK
    BY DEF append_answered, Inductive
  <1>2. CASE UNCHANGED sheet
    BY <1>1, <1>2, BoundaryStutter
  <1>3. CASE row_lands(h)
    <2>1. /\ c \in Calls /\ s \in Session
          /\ Grounded(s, verified[c])
          /\ s.conversation_outcome \in ConversationOutcome
      BY HeldGrounded DEF append_answered, Fits, Waits
    <2>2. row \in InteractionRecord
      BY <2>1, RecordType
    <2>3. /\ row.call_id = c /\ row.customer_id = s.customer_id
          /\ row.authenticated = is_authenticated(s)
      BY DEF build_record
    <2>4. s.customer_id \in Customers \cup {None}
      BY <2>1 DEF Session
    <2>5. sheet' = Append(sheet, row) /\ sheet \in Seq(InteractionRecord)
      BY <1>1, <1>3 DEF row_lands, TypeOK
    <2> HIDE DEF row
    <2>6. Filed' = Filed \cup IF row.authenticated
                              THEN {<<row.call_id, row.customer_id>>} ELSE {}
      BY <2>2, <2>5, FiledGrows
    <2>7. CASE row.authenticated
      <3>1. s.customer_id \in verified[c]
        BY <2>1, <2>3, <2>7 DEF Grounded
      <3>2. s.customer_id \in Customers
        BY <1>1, <2>1, <3>1 DEF TypeOK
      <3>3. PICK d \in Calls, customer \in Customers : d = c /\ customer = s.customer_id
        BY <2>1, <3>2
      <3>4. customer \in verified[d] /\ Filed' = Filed \cup {<<d, customer>>}
        BY <2>3, <2>6, <2>7, <3>1, <3>3
      <3>5. Boundary!File(d, customer)
        BY <1>1, <3>4 DEF Boundary!File, Filed
      <3>6. QED BY <3>5 DEF Boundary!Next
    <2>8. CASE ~row.authenticated
      <3>1. Filed' = Filed
        BY <2>6, <2>8
      <3>2. QED BY <1>1, <3>1 DEF Boundary!boundaryVars, Filed
    <2>9. QED BY <2>7, <2>8
  <1>4. QED
    BY <1>2, <1>3
       DEF append_answered, append_confirmed, append_retried, append_failed, row_may_land

\* Every step of the program is a step of the boundary, or none.
LEMMA BoundaryStep ==
    ASSUME Inductive, [Next]_vars
    PROVE  [Boundary!Next]_Boundary!boundaryVars
  <1>1. CASE \E c \in Calls : delivered(c)
    <2>1. PICK c \in Calls : delivered(c)
      BY <1>1
    <2>2. CASE \E topic \in Topics : search_faq(c, topic)
      BY <2>2, FaqDiscloses
    <2>3. CASE ~ \E topic \in Topics : search_faq(c, topic)
      <3>1. UNCHANGED <<verified, disclosed, sheet>>
        BY <2>1, <2>3 DEF delivered, start_call, intercept, representative_requested,
           submit_phone, submit_verification, get_claim_status, call_ended
      <3>2. QED BY <3>1, BoundaryStutter
    <2>4. QED BY <2>2, <2>3
  <1>2. CASE \E h \in Handlers : answered(h)
    <2>1. PICK h \in Handlers : answered(h)
      BY <1>2
    <2>2. CASE lookup_answered(h) \/ sheet_read_answered(h)
      <3>1. UNCHANGED <<verified, disclosed, sheet>>
        BY <2>2 DEF lookup_answered, history, sheet_read_answered
      <3>2. QED BY <3>1, BoundaryStutter
    <2>3. CASE verification_answered(h)
      BY <2>3, VerificationProves
    <2>4. CASE claim_answered(h)
      BY <2>4, ClaimDiscloses
    <2>5. CASE append_answered(h)
      BY <2>5, AppendFiles
    <2>6. QED BY <2>1, <2>2, <2>3, <2>4, <2>5 DEF answered
  <1>3. CASE restart \/ UNCHANGED vars
    BY <1>3, BoundaryStutter DEF restart, vars, program, history
  <1>4. QED BY <1>1, <1>2, <1>3 DEF Next

\* However the handlers of a call overlap, no claim is read out and no row says
\* "authenticated" before the customer was verified upstream on that call.
THEOREM BoundaryHolds == Spec => ImplementsBoundary
  <1>1. Init => Boundary!Init
    BY BoundaryInit
  <1>2. Inductive /\ [Next]_vars => [Boundary!Next]_Boundary!boundaryVars
    BY BoundaryStep
  <1>3. QED
    BY <1>1, <1>2, InductiveHolds, PTL DEF Spec, ImplementsBoundary, Boundary!Spec

-----------------------------------------------------------------------------
(* The guard against a second row *)

OnFile == {c \in Calls : on_file(c)}

\* The guard remembers only calls on file, read as a type.
LEMMA RememberedAsType ==
    TypeOK => (RememberedIsOnFile <=> _recorded \in Seq(OnFile))
  <1> SUFFICES ASSUME TypeOK PROVE RememberedIsOnFile <=> _recorded \in Seq(OnFile)
    OBVIOUS
  <1>1. _recorded \in Seq(Calls)
    BY DEF TypeOK
  <1>2. RememberedIsOnFile <=> \A i \in DOMAIN _recorded : _recorded[i] \in OnFile
    BY <1>1 DEF RememberedIsOnFile, OnFile
  <1> HIDE DEF OnFile
  <1>3. QED BY <1>1, <1>2

\* A row that lands puts its call on file, and nothing is taken off file.
LEMMA OnFileGrows ==
    ASSUME TypeOK, HandlersGrounded, [Next]_vars
    PROVE  /\ OnFile \subseteq OnFile'
           /\ \A h \in Handlers :
                  handlers[h].awaiting = "sheet_append" /\ row_lands(h)
                      => handlers[h].call \in OnFile'
  <1>1. ASSUME UNCHANGED sheet PROVE OnFile \subseteq OnFile'
    BY <1>1 DEF OnFile, on_file
  <1>2. ASSUME NEW h \in Handlers, row_lands(h), handlers[h].awaiting = "sheet_append"
        PROVE  OnFile \subseteq OnFile' /\ handlers[h].call \in OnFile'
    <2> DEFINE row == build_record(handlers[h].call, handlers[h].session)
    <2>1. sheet' = Append(sheet, row) /\ sheet \in Seq(InteractionRecord)
      BY <1>2 DEF row_lands, TypeOK
    <2>2. row.call_id = handlers[h].call /\ handlers[h].call \in Calls
      BY <1>2, SuspendedType DEF build_record, Waits
    <2> HIDE DEF row
    <2>3. DOMAIN sheet' = DOMAIN sheet \cup {Len(sheet) + 1}
      BY <2>1
    <2>4. (\A i \in DOMAIN sheet : sheet'[i] = sheet[i]) /\ sheet'[Len(sheet) + 1] = row
      BY <2>1
    <2>5. QED BY <2>2, <2>3, <2>4 DEF OnFile, on_file
  <1>3. UNCHANGED sheet
        \/ \E h \in Handlers : row_lands(h) /\ handlers[h].awaiting = "sheet_append"
    <2>1. CASE \E c \in Calls : delivered(c)
      BY <2>1 DEF delivered, start_call, search_faq, intercept, representative_requested,
         submit_phone, submit_verification, get_claim_status, call_ended
    <2>2. CASE \E h \in Handlers : answered(h)
      BY <2>2 DEF answered, lookup_answered, verification_answered, claim_answered,
         sheet_read_answered, append_answered, append_confirmed, append_retried,
         append_failed, row_may_land
    <2>3. CASE restart \/ UNCHANGED vars
      BY <2>3 DEF restart, vars
    <2>4. QED BY <2>1, <2>2, <2>3 DEF Next
  <1>4. QED BY <1>1, <1>2, <1>3

\* Remembering a call that is on file.
LEMMA RememberOnFile ==
    ASSUME NEW T, NEW c \in T, _recorded \in Seq(T), _remember(c)
    PROVE  _recorded' \in Seq(T)
  <1> DEFINE grown == IF known(c) THEN _recorded ELSE Append(_recorded, c)
  <1>1. grown \in Seq(T)
    OBVIOUS
  <1>2. _recorded' = IF Len(grown) > recorded_limit THEN Tail(grown) ELSE grown
    BY DEF _remember
  <1>3. recorded_limit \in Nat
    BY CallAssumption
  <1>4. QED BY <1>1, <1>2, <1>3, BoundedType

\* A sequence over a set is one over every larger set.
LEMMA SeqGrows ==
    ASSUME NEW T, NEW U, T \subseteq U, NEW q \in Seq(T)
    PROVE  q \in Seq(U)
  OBVIOUS

\* A call is remembered only when its row was read back or acknowledged.
LEMMA RememberedStep ==
    ASSUME Inductive, RememberedIsOnFile, [Next]_vars
    PROVE  RememberedIsOnFile'
  <1>1. TypeOK /\ TypeOK' /\ HandlersGrounded
    BY NextInductive DEF Inductive
  <1>2. _recorded \in Seq(OnFile')
    <2>1. _recorded \in Seq(OnFile) /\ OnFile \subseteq OnFile'
      BY <1>1, RememberedAsType, OnFileGrows
    <2>2. QED BY <2>1, SeqGrows
  <1>3. _recorded' \in Seq(OnFile')
    <2>1. CASE \E h \in Handlers : sheet_read_answered(h)
      <3>1. PICK h \in Handlers : sheet_read_answered(h)
        BY <2>1
      <3>2. CASE read_present(h, handlers[h].call)
        <4>1. handlers[h].call \in OnFile
          BY <1>1, <3>1, <3>2, SuspendedType
             DEF sheet_read_answered, read_present, OnFile, Waits
        <4>2. handlers[h].call \in OnFile' /\ _remember(handlers[h].call)
          BY <1>1, <3>2, <4>1, OnFileGrows DEF read_present
        <4>3. QED BY <1>2, <4>2, RememberOnFile
      <3>3. CASE ~read_present(h, handlers[h].call)
        <4>1. UNCHANGED _recorded
          BY <3>1, <3>3 DEF sheet_read_answered, read_failed, read_absent
        <4>2. QED BY <1>2, <4>1
      <3>4. QED BY <3>2, <3>3
    <2>2. CASE \E h \in Handlers : append_answered(h)
      <3>1. PICK h \in Handlers : append_answered(h)
        BY <2>2
      <3>2. CASE append_confirmed(h, handlers[h].call)
        <4>1. handlers[h].call \in OnFile' /\ _remember(handlers[h].call)
          BY <1>1, <3>1, <3>2, OnFileGrows DEF append_answered, append_confirmed
        <4>2. QED BY <1>2, <4>1, RememberOnFile
      <3>3. CASE ~append_confirmed(h, handlers[h].call)
        <4>1. UNCHANGED _recorded
          BY <3>1, <3>3 DEF append_answered, append_retried, append_failed
        <4>2. QED BY <1>2, <4>1
      <3>4. QED BY <3>2, <3>3
    <2>3. CASE restart
      BY <2>3 DEF restart
    <2>4. CASE UNCHANGED _recorded
      BY <1>2, <2>4
    <2>5. UNCHANGED _recorded \/ restart
          \/ \E h \in Handlers : sheet_read_answered(h) \/ append_answered(h)
      <3>1. CASE \E c \in Calls : delivered(c)
        BY <3>1 DEF delivered, start_call, search_faq, intercept,
           representative_requested, submit_phone, submit_verification,
           get_claim_status, call_ended
      <3>2. CASE \E h \in Handlers : answered(h)
        BY <3>2 DEF answered, lookup_answered, verification_answered, claim_answered
      <3>3. CASE restart \/ UNCHANGED vars
        BY <3>3 DEF vars, program
      <3>4. QED BY <3>1, <3>2, <3>3 DEF Next
    <2>6. QED BY <2>1, <2>2, <2>3, <2>4, <2>5
  <1>4. (TypeOK => (RememberedIsOnFile <=> _recorded \in Seq(OnFile)))'
    BY RememberedAsType, PTL
  <1>5. QED BY <1>1, <1>3, <1>4

\* The process-wide guard never suppresses the only row of a call, whatever is
\* evicted, retried or lost.
THEOREM GuardNeverLies == Spec => []RememberedIsOnFile
  <1>1. Init => RememberedIsOnFile
    BY DEF Init, RememberedIsOnFile
  <1>2. Inductive /\ RememberedIsOnFile /\ [Next]_vars => RememberedIsOnFile'
    BY RememberedStep
  <1>3. QED BY <1>1, <1>2, InductiveHolds, PTL DEF Spec

=============================================================================
