------------------------------ MODULE PostCall ------------------------------
(***************************************************************************)
(* The end of a call: ConversationService._complete, services/postcall.py, *)
(* and integrations/sheets/interactions.py down to the append attempts of  *)
(* integrations/sheets/client.py.                                          *)
(*                                                                         *)
(* Both the "ended" status update and the end-of-call report are CALL_ENDED*)
(* events, so a call ends at least twice, and either may be redelivered.   *)
(***************************************************************************)
EXTENDS CallState

build_record(c, s) ==
    [call_id |-> c,
     customer_id |-> s.customer_id,
     claim_id |-> s.claim_id,
     authenticated |-> is_authenticated(s),
     resolution |-> s.conversation_outcome,
     escalated |-> s.escalated,
     escalation_reason |-> s.escalation_reason,
     sentiment |-> score_sentiment(s)]

known(c) == Contains(_recorded, c)

\* Remembering a call again does not move it to the end.
_remember(c) ==
    LET grown == IF known(c) THEN _recorded ELSE Append(_recorded, c) IN
    _recorded' = IF Len(grown) > recorded_limit THEN Tail(grown) ELSE grown

-----------------------------------------------------------------------------
(* _complete, up to the read of the sheet *)

\* The session is gone: the event is acknowledged and nothing is done.
end_ignored(c) ==
    /\ ~live(c)
    /\ UNCHANGED <<sessions, handlers, step, wrong>>

\* Nothing to file, or already filed by this process.
end_unfiled(c) ==
    /\ live(c)
    /\ ~Configured \/ known(c)
    /\ discard(c)
    /\ UNCHANGED handlers

end_filing(h, c) ==
    LET s == with_outcome(sessions[c], derive_outcome(sessions[c])) IN
    /\ live(c)
    /\ Configured /\ ~known(c)
    /\ save(c, s)
    /\ await(h, "sheet_read", c, s)
    /\ UNCHANGED <<step, wrong>>

call_ended(h, c) ==
    /\ deliver(c)
    /\ \/ end_ignored(c)
       \/ end_unfiled(c)
       \/ end_filing(h, c)
    /\ UNCHANGED <<_recorded, _records, CALLS_TOTAL, sheet, verified, disclosed>>

-----------------------------------------------------------------------------
(* GoogleSheetsInteractionRepository.save *)

\* Fault: the answer of the sheet is not looked at.
on_file_never(c) == FALSE

on_file(c) == \E i \in DOMAIN sheet : sheet[i].call_id = c

\* Fault: a failed filing leaves the session behind.
read_failed_kept(h, c) ==
    /\ return(h)
    /\ UNCHANGED <<sessions, step, wrong, _recorded>>

\* An unreadable sheet is a failure, not an absent row.
read_failed(h, c) ==
    /\ discard(c)
    /\ return(h)
    /\ UNCHANGED _recorded

read_present(h, c) ==
    /\ on_file(c)
    /\ _remember(c)
    /\ discard(c)
    /\ return(h)

read_absent(h, c) ==
    /\ ~on_file(c)
    /\ handlers' = [handlers EXCEPT ![h].awaiting = "sheet_append"]
    /\ UNCHANGED <<sessions, step, wrong, _recorded>>

\* _already_recorded has its answer.
sheet_read_answered(h) ==
    LET c == handlers[h].call IN
    /\ handlers[h].awaiting = "sheet_read"
    /\ \/ read_failed(h, c)
       \/ read_present(h, c)
       \/ read_absent(h, c)
    /\ UNCHANGED <<_records, CALLS_TOTAL, sheet, deliveries, verified, disclosed>>

\* The row of the record the handler built when the call ended.
row_lands(h) ==
    sheet' = Append(sheet, build_record(handlers[h].call, handlers[h].session))

\* A failed attempt leaves no row, unless acknowledgements can be lost.
row_may_land(h) ==
    \/ UNCHANGED sheet
    \/ LostAcks /\ row_lands(h)

\* A readable 200.
append_confirmed(h, c) ==
    /\ row_lands(h)
    /\ _remember(c)
    /\ discard(c)
    /\ return(h)

\* A timeout, a broken connection, 429 or 5xx, with a retry left.
append_retried(h) ==
    /\ handlers[h].attempt < max_retries
    /\ row_may_land(h)
    /\ handlers' = [handlers EXCEPT ![h].attempt = @ + 1]
    /\ UNCHANGED <<sessions, step, wrong, _recorded>>

\* Fault: the call counts as filed although no write was confirmed.
append_failed_remembered(h, c) ==
    /\ row_may_land(h)
    /\ _remember(c)
    /\ discard(c)
    /\ return(h)

\* The last transient failure, any 4xx, or a 200 that cannot be read.
append_failed(h, c) ==
    /\ row_may_land(h)
    /\ discard(c)
    /\ return(h)
    /\ UNCHANGED _recorded

\* One append attempt has come to an end.
append_answered(h) ==
    LET c == handlers[h].call IN
    /\ handlers[h].awaiting = "sheet_append"
    /\ \/ append_confirmed(h, c)
       \/ append_retried(h)
       \/ append_failed(h, c)
    /\ UNCHANGED <<_records, CALLS_TOTAL, deliveries, verified, disclosed>>

=============================================================================
