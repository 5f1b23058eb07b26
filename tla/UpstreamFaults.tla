----------------------------- MODULE UpstreamFaults -----------------------------
(***************************************************************************)
(* How a read of a sheet can go wrong, what each layer makes of it and what*)
(* the failure catalogue says: integrations/sheets/auth.py, client.py,     *)
(* failures.py, the repositories, core/errors.py and core/failures.py.     *)
(*                                                                         *)
(* A read of Customers or Claims presents an API key, a read of            *)
(* Interactions a token, which may have to be fetched first.  Ends are     *)
(* strings, an HTTP status among them.                                     *)
(***************************************************************************)
EXTENDS FiniteSets

CONSTANT None

\* What the credentials come to, how the values endpoint may answer, and what the
\* sheet holds.
TokenEnds == {"held", "timeout", "unreachable", "400", "429", "500", "unreadable"}
ValuesEnds == {"timeout", "unreachable", "403", "404", "429", "500", "503", "unreadable", "200"}
Sheets == {"empty", "lacks_columns", "no_match", "match"}

Reads == [credentials : {"key"} \cup TokenEnds, values : ValuesEnds, sheet : Sheets]

-----------------------------------------------------------------------------
(* core/errors.py, the two endpoints *)

\* IntegrationError: its code, whether it is an IntegrationTimeoutError, and the
\* parts of its context that are looked at.
IntegrationError(code, retryable) ==
    [code |-> code, timeout |-> FALSE, retryable |-> retryable, sheet |-> FALSE]

\* All that is raised.
Error == [code : {"INTEGRATION_ERROR", "INTEGRATION_TIMEOUT", "UPSTREAM_PERMANENT"},
          timeout : BOOLEAN, retryable : BOOLEAN, sheet : BOOLEAN]

IntegrationTimeoutError ==
    [code |-> "INTEGRATION_TIMEOUT", timeout |-> TRUE, retryable |-> FALSE, sheet |-> FALSE]

SheetError == [IntegrationError("INTEGRATION_ERROR", FALSE) EXCEPT !.sheet = TRUE]

\* _exchange_assertion
_exchange_assertion(end) ==
    CASE end \in {"key", "held"} -> None
      [] end \in {"timeout", "unreachable", "500"} ->
             IntegrationError("INTEGRATION_ERROR", TRUE)
      [] end \in {"400", "429", "unreadable"} ->
             IntegrationError("INTEGRATION_ERROR", FALSE)

_RETRYABLE_STATUS == {"429", "500", "503"}

\* Fault: every refusal may pass.
_status_error_hopeful(status) == IntegrationError("INTEGRATION_ERROR", TRUE)

_status_error(status) ==
    IF status \in _RETRYABLE_STATUS
    THEN IntegrationError("INTEGRATION_ERROR", TRUE)
    ELSE IntegrationError("UPSTREAM_PERMANENT", FALSE)

\* _fetch and _parse_body
_fetch(end) ==
    CASE end = "200" -> None
      [] end = "timeout" -> IntegrationTimeoutError
      [] end = "unreachable" -> IntegrationError("INTEGRATION_ERROR", TRUE)
      [] end = "unreadable" -> IntegrationError("INTEGRATION_ERROR", FALSE)
      [] OTHER -> _status_error(end)

\* _load_rows and index_header
_load_rows(sheet) == IF sheet \in {"empty", "lacks_columns"} THEN SheetError ELSE None

\* The first layer that raises.
raised(read) ==
    CASE _exchange_assertion(read.credentials) # None -> _exchange_assertion(read.credentials)
      [] _exchange_assertion(read.credentials) = None /\ _fetch(read.values) # None ->
             _fetch(read.values)
      [] OTHER -> _load_rows(read.sheet)

_is_transient(error) == error.timeout \/ error.retryable

\* retry_async goes round the two endpoints, not round the header.
retried(read) == raised(read) # None /\ ~raised(read).sheet /\ _is_transient(raised(read))

-----------------------------------------------------------------------------
(* The repositories *)

failure_reason(error) ==
    CASE error.timeout -> "UPSTREAM_TIMEOUT"
      [] ~error.timeout /\ error.sheet -> "MALFORMED_DATA"
      [] OTHER -> "UPSTREAM_ERROR"

\* lookup_customer_by_phone, verify_customer, get_claim_for_customer, and save with
\* _already_recorded, as far as they tell a record, its absence and a failure apart.
lookup(read) ==
    CASE raised(read) # None ->
             [outcome |-> "INTEGRATION_ERROR", reason |-> failure_reason(raised(read))]
      [] raised(read) = None /\ read.sheet = "no_match" ->
             [outcome |-> "NOT_FOUND", reason |-> "NO_MATCHING_RECORD"]
      [] OTHER -> [outcome |-> "FOUND", reason |-> None]

-----------------------------------------------------------------------------
(* core/failures.py *)

\* The class of each row of the catalogue.
FAILURE_CATALOGUE ==
    [TRANSIENT_UPSTREAM |-> {"INTEGRATION_TIMEOUT", "INTEGRATION_ERROR", "POSTCALL_FAILED"},
     PERMANENT_UPSTREAM |-> {"UPSTREAM_PERMANENT"},
     DATA_QUALITY       |-> {"MALFORMED_DATA", "INCOMPLETE_CLAIM_DATA"},
     NOT_FOUND          |-> {"CUSTOMER_NOT_FOUND", "CLAIM_NOT_FOUND", "FAQ_NO_ANSWER",
                             "POSTCALL_DUPLICATE", "NOT_FOUND"},
     CALLER_INPUT       |-> {"INVALID_PHONE_NUMBER", "VERIFICATION_FAILED",
                             "WEBHOOK_MALFORMED", "VALIDATION_ERROR"},
     AUTHORIZATION      |-> {"ATTEMPTS_EXHAUSTED", "NOT_AUTHORIZED", "WEBHOOK_UNAUTHORIZED"},
     CONFIGURATION      |-> {"SERVICE_UNAVAILABLE", "GUIDANCE_CONFIGURATION_ERROR",
                             "FAQ_CONFIGURATION_ERROR", "PROMPT_CONFIGURATION_ERROR"},
     INTERNAL           |-> {"UNKNOWN_TOOL", "MISSING_ARGUMENTS", "ARGUMENTS_IGNORED",
                             "TOOL_FAILED", "RETRIEVAL_FAILED", "WEBHOOK_HANDLER_FAILED",
                             "INTERNAL_ERROR"}]

infrastructure_classes ==
    {"TRANSIENT_UPSTREAM", "PERMANENT_UPSTREAM", "DATA_QUALITY", "CONFIGURATION", "INTERNAL"}

is_infrastructure_failure(code) ==
    \E class \in infrastructure_classes : code \in FAILURE_CATALOGUE[class]

-----------------------------------------------------------------------------
\* Nothing but a sheet that was read and has no such record is ever reported as
\* the absence of one, and whatever is raised is our failure in the catalogue too
\* (core/failures.py:11-14, integrations/sheets/client.py:93-95).
FaultIsNoAnswer(read) ==
    /\ lookup(read).outcome = "NOT_FOUND" =>
           read.credentials \in {"key", "held"} /\ read.values = "200" /\ read.sheet = "no_match"
    /\ raised(read) # None =>
           /\ lookup(read).outcome = "INTEGRATION_ERROR"
           /\ is_infrastructure_failure(raised(read).code)

\* A read is retried when what went wrong may pass by itself, and only then: while
\* a caller waits nothing is tried again that a person has to change (a key, a
\* permission, a column), and none of what would have passed is given up.  Which
\* ends are which is the code's own reckoning: the catalogue has the two unreadable
\* bodies, a missing column and a token that is rationed or refused as retried, and
\* none of them is (integrations/sheets/client.py:34-59, auth.py:136-144).
RetriedWhileItMayPass(read) ==
    retried(read) <=>
        \/ read.credentials \in {"timeout", "unreachable", "500"}
        \/ /\ read.credentials \in {"key", "held"}
           /\ read.values \in {"timeout", "unreachable", "429", "500", "503"}

=============================================================================
