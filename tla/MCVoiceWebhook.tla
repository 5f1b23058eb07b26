---------------------------- MODULE MCVoiceWebhook ----------------------------
(* An instance of VoiceWebhook for TLC. *)
EXTENDS VoiceWebhook, TLC

\* Two spellings of a tool message, a message known by its status, and one that
\* is acknowledged and dropped.
MCTypes ==
    {<<"tool-calls", None>>, <<"function-call", None>>,
     <<"status-update", "ended">>, <<"transcript", None>>}

Guidance == [submission |-> TRUE, statuses |-> [status \in ClaimStatus |-> TRUE]]

Content == [guidance |-> Guidance, faq |-> TRUE, prompt |-> TRUE]

Sheets == [google_sheets_api_key |-> "given", google_sheets_spreadsheet_id |-> "s1"]

Number == [voice_transfer_phone_number |-> "number"]

Place(environment, secret) ==
    [environment |-> environment, voice_platform_api_key |-> secret]

\* Production with its secret, without one, with a blank one and with one that
\* cannot be compared; a local process; each with and without the sheets.
MCDeployments ==
    {[env |-> place, content |-> Content] :
        place \in {Place("prod", "secret") @@ Sheets @@ Number,
                   Place("staging", Blank) @@ Sheets,
                   [environment |-> "prod"] @@ Sheets,
                   Place("prod", "secret") @@ Number,
                   Place("prod", "accented") @@ Sheets,
                   Place("local", Blank) @@ Sheets,
                   Place("local", "secret")}}

Symmetry == Permutations(Ids)
=============================================================================
