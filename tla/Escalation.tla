----------------------------- MODULE Escalation -----------------------------
(***************************************************************************)
(* services/escalation.py and the two ways a model call reaches it: the    *)
(* representative tool and the emergency interceptor in front of search_faq.*)
(***************************************************************************)
EXTENDS CallState

\* deque(maxlen=history_limit).append
remember_escalation(record) ==
    LET grown == Append(_records, record) IN
    _records' = IF Len(grown) > history_limit THEN Tail(grown) ELSE grown

\* request_representative: a call without a session gets one.
request_representative(c, reason) ==
    LET s == get(c) IN
    /\ remember_escalation(
           [call_id |-> c, reason |-> reason, customer_id |-> s.customer_id,
            authenticated |-> is_authenticated(s),
            status |-> IF transfer_available THEN "TRANSFERRING" ELSE "REQUESTED"])
    /\ save(c, with_escalation(s, reason))

\* A reason outside the vocabulary is a plain caller request.
_coerce_reason(supplied) ==
    IF supplied \in EscalationReason THEN supplied ELSE "CALLER_REQUEST"

\* RepresentativeTool.__call__: notes that describe an emergency raise the
\* reason to EMERGENCY.
representative_requested(c, supplied, notes_alarm) ==
    /\ deliver(c)
    /\ request_representative(c, IF notes_alarm THEN "EMERGENCY"
                                                ELSE _coerce_reason(supplied))
    /\ UNCHANGED <<handlers, _recorded, CALLS_TOTAL, sheet, step, verified, wrong, disclosed>>

\* EmergencyInterceptor.intercept: a question that describes an emergency is
\* escalated, and the tool behind it does not run.
intercept(c) ==
    /\ deliver(c)
    /\ request_representative(c, "EMERGENCY")
    /\ UNCHANGED <<handlers, _recorded, CALLS_TOTAL, sheet, step, verified, wrong, disclosed>>

=============================================================================
