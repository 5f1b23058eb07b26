-------------------------------- MODULE Wiring --------------------------------
(***************************************************************************)
(* What a process is made of when it starts: core/config.py, main.py,      *)
(* integrations/factory.py, services/container.py, services/guidance.py.   *)
(*                                                                         *)
(* env is what the environment and .env say: a function from the settings  *)
(* they name to strings.  A string is Blank (empty or only spaces), Odd    *)
(* (whatever the setting's validator refuses) or a value; None stands for a*)
(* setting that is not there.  content is what the files hold.             *)
(***************************************************************************)
EXTENDS FiniteSets, Functions

CONSTANTS
    Blank,
    Odd,
    None,
    ClaimStatus

-----------------------------------------------------------------------------
(* core/config.py: Settings *)

\* Fault: a blank value is a value.
_blank_means_unset_not(env) == env

\* Blank in a .env means "I have not set this".
_blank_means_unset(env) == Restrict(env, {name \in DOMAIN env : env[name] # Blank})

setting(env, name) ==
    LET values == _blank_means_unset(env) IN
    IF name \in DOMAIN values THEN values[name] ELSE None

\* Literals, ranges and field validators.
valid(env) == \A name \in DOMAIN env : setting(env, name) # Odd

is_production(env) == setting(env, "environment") \in {"staging", "prod"}

\* Fault: a blank secret is a secret.
_require_webhook_secret_named(env) ==
    is_production(env) => "voice_platform_api_key" \in DOMAIN env

_require_webhook_secret_in_production(env) ==
    is_production(env) => setting(env, "voice_platform_api_key") # None

both(env, one, other) == setting(env, one) # None /\ setting(env, other) # None

sheets_configured(env) == both(env, "google_sheets_api_key", "google_sheets_spreadsheet_id")

interactions_configured(env) ==
    both(env, "google_interactions_spreadsheet_id", "google_service_account_json")

-----------------------------------------------------------------------------
(* services/guidance.py, services/faq.py, agents/prompt.py *)

\* The guidance file is None when it is missing or no JSON; otherwise it says
\* whether its submission instructions are complete and, for each status it
\* names, whether its three lines are.
load_claim_guidance(file) ==
    /\ file # None
    /\ file.submission
    /\ DOMAIN file.statuses \subseteq ClaimStatus
    /\ \A status \in DOMAIN file.statuses : file.statuses[status]
    /\ ClaimStatus \subseteq DOMAIN file.statuses

\* load_faq_entries (FaqSearch) and load_system_prompt only succeed or fail here.
content_loads(content) ==
    load_claim_guidance(content.guidance) /\ content.faq /\ content.prompt

-----------------------------------------------------------------------------
(* integrations/factory.py *)

\* What is caught: the key is no JSON, no object, or lacks a field.
credentials_invalid == {"not_json", "no_object", "incomplete"}

\* Integration #2.
_build_interactions(env) ==
    LET key == setting(env, "google_service_account_json") IN
    CASE ~interactions_configured(env) -> "none"
      [] interactions_configured(env) /\ key \in credentials_invalid -> "none"
      [] interactions_configured(env) /\ key = "complete" -> "built"
      [] OTHER -> "raises"

-----------------------------------------------------------------------------
(* main.py, services/container.py *)

starts(env, content) ==
    /\ valid(env)
    /\ _require_webhook_secret_in_production(env)
    /\ sheets_configured(env) =>
           _build_interactions(env) # "raises" /\ content_loads(content)

\* The process that has started: lifespan, build_data_integration, build_services.
wired(env) ==
    LET services == sheets_configured(env)
        interactions == services /\ _build_interactions(env) = "built"
    IN [production |-> is_production(env),
        secret |-> setting(env, "voice_platform_api_key"),
        services |-> services,
        interactions |-> interactions,
        dependencies |-> (IF services THEN {"customers", "claims"} ELSE {}) \cup
                         (IF interactions THEN {"interactions"} ELSE {}),
        transfer_to |-> IF services THEN setting(env, "voice_transfer_phone_number")
                        ELSE None]

-----------------------------------------------------------------------------
Integration2 ==
    {"google_interactions_spreadsheet_id", "google_service_account_json"}

\* Whatever is wrong with the settings of Integration #2, short of a value the
\* validators refuse, costs the log of interactions and nothing else: the process
\* starts and serves calls as it would without them
\* (integrations/factory.py:107-110, core/config.py:171-179).
InteractionsCostNothingElse(env, content) ==
    LET without == Restrict(env, DOMAIN env \ Integration2)
        log == {"interactions"}
    IN valid(env) =>
        /\ starts(env, content) <=> starts(without, content)
        /\ starts(env, content) =>
               /\ wired(env).services = wired(without).services
               /\ wired(env).transfer_to = wired(without).transfer_to
               /\ wired(env).dependencies \ log = wired(without).dependencies

\* A .env copied from .env.example, with blanks for what was not filled in, makes
\* the process that the filled-in lines alone make (core/config.py:114-135).
BlankIsNotThere(env, content) ==
    LET filled == Restrict(env, {name \in DOMAIN env : env[name] # Blank}) IN
    /\ starts(env, content) <=> starts(filled, content)
    /\ wired(env) = wired(filled)

\* A process that answers calls has something configured to say about every claim
\* status (services/guidance.py:9-13).
SomethingToSay(env, content) ==
    starts(env, content) /\ wired(env).services =>
        \A status \in ClaimStatus :
            status \in DOMAIN content.guidance.statuses /\ content.guidance.statuses[status]

=============================================================================
