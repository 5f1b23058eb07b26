------------------------------ MODULE VoiceWebhook ------------------------------
(***************************************************************************)
(* api/v1/voice.py: a process starts (Wiring) and answers one webhook. The *)
(* secret is compared, the body is read, the service layer is resolved, and*)
(* the event is handled (ToolTurn) and answered.                           *)
(***************************************************************************)
EXTENDS ToolTurn

CONSTANTS
    Blank, Odd,     \* blank and refused values of settings
    ClaimStatus,
    Deployments,    \* environments and files processes are started with
    Secrets         \* the strings requests present as the secret

INSTANCE Wiring

VARIABLES
    process,        \* None until it has started
    supplied,       \* the secret the request presents, or None
    status_code     \* of the answer, None until it is given

webhookVars == <<process, supplied, status_code, vars>>

WebhookInit ==
    /\ Init
    /\ process = None
    /\ supplied = None
    /\ status_code = None

-----------------------------------------------------------------------------
\* lifespan: settings or content that are refused start no process.
start ==
    /\ process = None
    /\ \E d \in Deployments :
           /\ starts(d.env, d.content)
           /\ process' = wired(d.env)
           /\ transfer_to' = process'.transfer_to
    /\ UNCHANGED <<supplied, status_code, message, event_type, invocations, fates,
                   results, transfer, escalations, response>>

\* What hmac.compare_digest raises for: text that is not ASCII.
incomparable(secret, expected) ==
    secret # None /\ expected # None /\ "accented" \in {secret, expected}

verify_secret(secret, expected) == expected = None \/ secret = expected

\* The process is up and the request has not been looked at yet.
arriving == process # None /\ status_code = None /\ event_type = None

refused(secret, status) ==
    /\ supplied' = secret
    /\ status_code' = status
    /\ UNCHANGED <<process, vars>>

unauthorized(secret) ==
    /\ ~incomparable(secret, process.secret)
    /\ ~verify_secret(secret, process.secret)
    /\ refused(secret, 401)

\* The outermost exception handler answers.
comparison_raises(secret) ==
    /\ incomparable(secret, process.secret)
    /\ refused(secret, 500)

admitted(secret) ==
    ~incomparable(secret, process.secret) /\ verify_secret(secret, process.secret)

\* A body that is no JSON, or no object.
unreadable_body(secret) ==
    /\ admitted(secret)
    /\ refused(secret, 400)

\* Fault: the service layer is a dependency of the route, resolved first.
unavailable_first(secret) ==
    /\ ~process.services
    /\ refused(secret, 503)

\* get_services: the data integration is not configured.
unavailable(secret) ==
    /\ admitted(secret)
    /\ ~process.services
    /\ refused(secret, 503)

handled(secret) ==
    /\ admitted(secret)
    /\ process.services
    /\ supplied' = secret
    /\ parse_webhook
    /\ UNCHANGED <<process, status_code>>

\* What escaped the service would be answered with an empty acknowledgement, which
\* answers none of the calls; nothing modelled escapes it, as the registry catches
\* what a tool raises.
answered_with_200 ==
    /\ answer
    /\ status_code' = 200
    /\ UNCHANGED <<process, supplied>>

Next ==
    \/ start
    \/ /\ arriving
       /\ \E secret \in Secrets \cup {None} :
              \/ unauthorized(secret)
              \/ comparison_raises(secret)
              \/ unreadable_body(secret)
              \/ unavailable(secret)
              \/ handled(secret)
    \/ dispatch /\ UNCHANGED <<process, supplied, status_code>>
    \/ answered_with_200

Spec == WebhookInit /\ [][Next]_webhookVars

-----------------------------------------------------------------------------
\* In production a webhook is handled only if it presents the configured secret:
\* the check is skipped when there is none, so this rests on what the process
\* refuses to start with (integrations/voice_platform.py:76-87, core/config.py:154-161).
ProductionIsGuarded ==
    event_type # None /\ process.production => supplied # None /\ supplied = process.secret

\* Without the secret, the answer does not tell whether the integration is
\* configured or the body was well formed (api/v1/voice.py:48-52).
RefusedFirst ==
    status_code # None /\ process.secret # None /\ supplied # process.secret
        => status_code = IF incomparable(supplied, process.secret) THEN 500 ELSE 401

\* What makes the two inductive: the process is one that may start, what is handled
\* was admitted, and what was answered was admitted or refused for its secret.
Guarded ==
    /\ process # None =>
           \E d \in Deployments : starts(d.env, d.content) /\ process = wired(d.env)
    /\ event_type # None => process # None /\ admitted(supplied)
    /\ status_code # None =>
           /\ process # None
           /\ \/ admitted(supplied)
              \/ incomparable(supplied, process.secret) /\ status_code = 500
              \/ ~incomparable(supplied, process.secret) /\ status_code = 401

\* The inductive invariant of a process and its webhook (api/v1/voice.py:53-102,
\* services/conversation.py:117-156).
WebhookInductive == Guarded /\ TurnInductive

=============================================================================
