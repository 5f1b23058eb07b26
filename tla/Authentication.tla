--------------------------- MODULE Authentication ---------------------------
(***************************************************************************)
(* services/authentication.py: the start of a call, the customer lookup    *)
(* and the verification, with the upstream answers of the Customers sheet. *)
(* A lookup or a verification that goes upstream is two steps: up to the   *)
(* await, and from the answer on.                                          *)
(***************************************************************************)
EXTENDS CallState

-----------------------------------------------------------------------------
\* ConversationService._dispatch for CALL_STARTED, with start_call.
start_call(c) ==
    /\ deliver(c)
    /\ IF live(c)
       THEN UNCHANGED <<sessions, CALLS_TOTAL>>
       ELSE /\ save(c, NewSession)
            /\ CALLS_TOTAL' = [CALLS_TOTAL EXCEPT ![c] = @ + 1]
    /\ UNCHANGED <<handlers, _recorded, _records, sheet, step, verified, wrong, disclosed>>

-----------------------------------------------------------------------------
(* submit_phone *)

\* A terminal session is answered without a lookup.
phone_refused(c) ==
    LET s == get(c) IN
    /\ is_terminal(s)
    /\ save(c, s)
    /\ answer(c, IF is_authenticated(s) THEN "ALREADY_AUTHENTICATED"
                                        ELSE "ATTEMPTS_EXHAUSTED")
    /\ UNCHANGED handlers

\* The text is no phone number: the repository answers without going
\* upstream.  The attempt counts all the same.
phone_not_understood(c) ==
    LET s == get(c) IN
    /\ ~is_terminal(s)
    /\ save(c, with_caller_phone(s))
    /\ answer(c, "PHONE_NOT_UNDERSTOOD")
    /\ UNCHANGED handlers

lookup_started(h, c) ==
    LET s == get(c) IN
    /\ ~is_terminal(s)
    /\ save(c, s)
    /\ await(h, "lookup", c, s)
    /\ UNCHANGED step

submit_phone(h, c) ==
    /\ deliver(c)
    /\ \/ phone_refused(c)
       \/ phone_not_understood(c)
       \/ lookup_started(h, c)
    /\ UNCHANGED <<_recorded, _records, CALLS_TOTAL, sheet, verified, wrong, disclosed>>

\* A readable number without a match.
_not_found_step(s) ==
    IF s.lookup_attempts >= MAX_LOOKUP_ATTEMPTS
    THEN "LOOKUP_ATTEMPTS_EXHAUSTED" ELSE "CUSTOMER_NOT_FOUND"

lookup_failed(c, s) ==
    /\ save(c, s)
    /\ answer(c, "INTEGRATION_ERROR")

lookup_found(c, s) ==
    \E customer \in Customers :
        /\ save(c, with_customer_found(with_caller_phone(s), customer))
        /\ answer(c, "VERIFICATION_REQUIRED")

lookup_not_found(c, s) ==
    LET counted == with_caller_phone(s) IN
    /\ save(c, with_customer_not_found(counted))
    /\ answer(c, _not_found_step(counted))

\* lookup_customer_by_phone has answered, and submit_phone runs to its end.
lookup_answered(h) ==
    LET c == handlers[h].call
        s == handlers[h].session
    IN /\ handlers[h].awaiting = "lookup"
       /\ \/ lookup_failed(c, s)
          \/ lookup_found(c, s)
          \/ lookup_not_found(c, s)
       /\ return(h)
       /\ UNCHANGED <<_recorded, _records, CALLS_TOTAL, sheet, history>>

-----------------------------------------------------------------------------
(* submit_verification *)

\* Past every early return.
may_verify(s) ==
    /\ ~is_authenticated(s)
    /\ s.authentication_status # "AUTHENTICATION_FAILED"
    /\ s.customer_id # None
    /\ can_attempt_verification(s)

\* The early returns, in their order.
refusal(s) ==
    IF is_authenticated(s) THEN "ALREADY_AUTHENTICATED"
    ELSE IF s.authentication_status = "AUTHENTICATION_FAILED" THEN "ATTEMPTS_EXHAUSTED"
    ELSE IF s.customer_id = None THEN "PHONE_REQUIRED"
    ELSE "ATTEMPTS_EXHAUSTED"

verification_refused(c) ==
    LET s == get(c) IN
    /\ ~may_verify(s)
    /\ save(c, s)
    /\ answer(c, refusal(s))
    /\ UNCHANGED <<handlers, wrong>>

\* The answer is judged wrong and counted.
answered_wrong(c, s) ==
    LET failed == with_verification_failed(s) IN
    /\ save(c, failed)
    /\ answer(c, IF failed.authentication_status = "AUTHENTICATION_FAILED"
                 THEN "ATTEMPTS_EXHAUSTED" ELSE "VERIFICATION_FAILED")
    /\ wrong' = [wrong EXCEPT ![c] = @ + 1]

\* A blank value fails without a read of the sheet.
blank_answer(c) ==
    LET s == get(c) IN
    /\ may_verify(s)
    /\ answered_wrong(c, with_verification_started(s))
    /\ UNCHANGED handlers

\* The language model supplied a value that is no text: the repository raises
\* before it reads the sheet, and the tool registry swallows what was raised.
\* VERIFYING has been saved by then and stays.
verification_raises(c) ==
    /\ may_verify(get(c))
    /\ save(c, with_verification_started(get(c)))
    /\ UNCHANGED <<handlers, step, wrong>>

\* Fault: VERIFYING is not saved before the wait.
verification_started_unsaved(h, c) ==
    /\ may_verify(get(c))
    /\ save(c, get(c))
    /\ await(h, "verify", c, with_verification_started(get(c)))
    /\ UNCHANGED <<step, wrong>>

verification_started(h, c) ==
    LET s == with_verification_started(get(c)) IN
    /\ may_verify(get(c))
    /\ save(c, s)
    /\ await(h, "verify", c, s)
    /\ UNCHANGED <<step, wrong>>

submit_verification(h, c) ==
    /\ deliver(c)
    /\ \/ verification_refused(c)
       \/ blank_answer(c)
       \/ verification_raises(c)
       \/ verification_started(h, c)
    /\ UNCHANGED <<_recorded, _records, CALLS_TOTAL, sheet, verified, disclosed>>

\* Fault: an unreachable sheet lets the caller through.
verification_error_open(c, s) ==
    /\ save(c, with_authenticated(s, s.customer_id))
    /\ answer(c, "AUTHENTICATED")
    /\ UNCHANGED <<verified, wrong>>

\* An unreachable upstream does not spend the caller's budget.
verification_error(c, s) ==
    /\ save(c, with_verification_abandoned(s))
    /\ answer(c, "INTEGRATION_ERROR")
    /\ UNCHANGED <<verified, wrong>>

\* The record disappeared between the lookup and the check.
record_vanished(c, s) ==
    /\ save(c, with_customer_not_found(with_verification_abandoned(s)))
    /\ answer(c, "CUSTOMER_NOT_FOUND")
    /\ UNCHANGED <<verified, wrong>>

\* The sheet confirmed the value for the customer the handler asked about.
answered_right(c, s) ==
    /\ save(c, with_authenticated(s, s.customer_id))
    /\ answer(c, "AUTHENTICATED")
    /\ verified' = [verified EXCEPT ![c] = @ \cup {s.customer_id}]
    /\ UNCHANGED wrong

\* The two values cannot be compared (one is not ASCII): swallowed likewise,
\* and nothing is saved.
comparison_raises == UNCHANGED <<sessions, step, verified, wrong>>

\* verify_customer has answered, and submit_verification runs to its end.
verification_answered(h) ==
    LET c == handlers[h].call
        s == handlers[h].session
    IN /\ handlers[h].awaiting = "verify"
       /\ \/ verification_error(c, s)
          \/ record_vanished(c, s)
          \/ comparison_raises
          \/ answered_right(c, s)
          \/ answered_wrong(c, s) /\ UNCHANGED verified
       /\ return(h)
       /\ UNCHANGED <<_recorded, _records, CALLS_TOTAL, sheet, deliveries, disclosed>>

=============================================================================
