----------------------------- MODULE CallState -----------------------------
(***************************************************************************)
(* The state the webhook handlers of one process share, and the helpers    *)
(* every handler is written with.                                          *)
(*                                                                         *)
(* The process is one asyncio event loop.  SessionStore takes an           *)
(* uncontended lock around a dictionary access, so get, save and discard   *)
(* never suspend: a handler gives up the loop only while it waits for      *)
(* Google Sheets, and what it does between two such waits is one step.     *)
(* A waiting handler keeps the copy of the session it read before the      *)
(* wait; the store may have moved on when it resumes.                      *)
(***************************************************************************)
EXTENDS SessionState, Sequences, SequencesExt

CONSTANTS
    Calls,              \* call ids the platform reports
    Handlers,           \* webhooks that can be waiting upstream at once (a bound)
    claim_owner,        \* Claims -> Customers, the customer_id column of the Claims sheet
    SubmissionTopic,    \* the FAQ topic whose answer quotes a claim number
    Reasons,            \* what the language model supplies as an escalation reason
    OneAtATime,         \* TRUE: the platform waits for one webhook of a call
                        \* before it sends the next
    LostAcks,           \* TRUE: a row can land although the append looks failed
    Configured,         \* TRUE: the deployment has an Interactions sheet
    transfer_available, \* TRUE: the platform can hand a call over
    max_retries,        \* GoogleSheetsClient: retries after the first attempt
    recorded_limit,     \* GoogleSheetsInteractionRepository: remembered calls
    history_limit,      \* EscalationService: records kept
    Events,             \* the kinds of webhook that are delivered (a bound)
    MaxDeliveries       \* webhooks delivered for one call (a bound)

ASSUME CallAssumption ==
    /\ None \notin Calls
    /\ claim_owner \in [Claims -> Customers]
    /\ {OneAtATime, LostAcks, Configured, transfer_available} \subseteq BOOLEAN
    /\ {max_retries, recorded_limit, history_limit, MaxDeliveries} \subseteq Nat

VARIABLES
    (* the program's state *)
    sessions,       \* SessionStore: the live session of each call, or None
    handlers,       \* the suspended coroutines
    _recorded,      \* calls known to be on file, oldest first
    _records,       \* EscalationService's bounded history, oldest first
    CALLS_TOTAL,    \* increments of the counter, by call
    (* Google Sheets *)
    sheet,          \* the rows of the Interactions sheet
    (* the conversation *)
    step,           \* the AuthenticationStep last answered on a call, or None
    (* history of the environment, for the properties and the bounds *)
    deliveries,     \* webhooks delivered so far
    verified,       \* customers whose verification value was confirmed on the call
    wrong,          \* wrong answers judged since the call's session began
    disclosed       \* claims read out on the call

program == <<sessions, handlers, _recorded, _records, CALLS_TOTAL>>
history == <<deliveries, verified, wrong, disclosed>>
vars == <<program, sheet, step, history>>

-----------------------------------------------------------------------------
AuthenticationStep ==
    {"PHONE_REQUIRED", "PHONE_NOT_UNDERSTOOD", "CUSTOMER_NOT_FOUND",
     "VERIFICATION_REQUIRED", "VERIFICATION_FAILED", "ATTEMPTS_EXHAUSTED",
     "LOOKUP_ATTEMPTS_EXHAUSTED", "AUTHENTICATED", "ALREADY_AUTHENTICATED",
     "INTEGRATION_ERROR"}

\* What a suspended handler waits for: the customer lookup, the verification,
\* the claim lookup, the read of the Interactions sheet, one append attempt.
Waits == {"lookup", "verify", "claim", "sheet_read", "sheet_append"}

Idle == [awaiting |-> "nothing", call |-> None, session |-> None, attempt |-> 0]

Suspended ==
    [awaiting : Waits, call : Calls, session : Session, attempt : 0..max_retries]

InteractionRecord ==
    [call_id : Calls,
     customer_id : Customers \cup {None},
     claim_id : Claims \cup {None},
     authenticated : BOOLEAN,
     resolution : ConversationOutcome,
     escalated : BOOLEAN,
     escalation_reason : EscalationReason \cup {None},
     sentiment : Sentiment]

EscalationRecord ==
    [call_id : Calls,
     reason : EscalationReason,
     customer_id : Customers \cup {None},
     authenticated : BOOLEAN,
     status : {"REQUESTED", "TRANSFERRING"}]

TypeOK ==
    /\ sessions \in [Calls -> Session \cup {None}]
    /\ handlers \in [Handlers -> Suspended \cup {Idle}]
    /\ _recorded \in Seq(Calls)
    /\ _records \in Seq(EscalationRecord)
    /\ CALLS_TOTAL \in [Calls -> Nat]
    /\ sheet \in Seq(InteractionRecord)
    /\ step \in [Calls -> AuthenticationStep \cup {None}]
    /\ deliveries \in [Calls -> 0..MaxDeliveries]
    /\ verified \in [Calls -> SUBSET Customers]
    /\ wrong \in [Calls -> Nat]
    /\ disclosed \in [Calls -> SUBSET Claims]

Init ==
    /\ sessions = [c \in Calls |-> None]
    /\ handlers = [h \in Handlers |-> Idle]
    /\ _recorded = <<>>
    /\ _records = <<>>
    /\ CALLS_TOTAL = [c \in Calls |-> 0]
    /\ sheet = <<>>
    /\ step = [c \in Calls |-> None]
    /\ deliveries = [c \in Calls |-> 0]
    /\ verified = [c \in Calls |-> {}]
    /\ wrong = [c \in Calls |-> 0]
    /\ disclosed = [c \in Calls |-> {}]

-----------------------------------------------------------------------------
(* SessionStore *)

live(c) == sessions[c] # None

\* sessions.get, with the fresh session a handler falls back on.
get(c) == IF live(c) THEN sessions[c] ELSE NewSession

save(c, s) == sessions' = [sessions EXCEPT ![c] = s]

\* The counts of wrong answers and the last answer belong to the session.
discard(c) ==
    /\ sessions' = [sessions EXCEPT ![c] = None]
    /\ step' = [step EXCEPT ![c] = None]
    /\ wrong' = [wrong EXCEPT ![c] = 0]

-----------------------------------------------------------------------------
(* Handlers *)

busy(c) == \E h \in Handlers : handlers[h].call = c

\* The platform delivers one more webhook for the call.
deliver(c) ==
    /\ deliveries[c] < MaxDeliveries
    /\ OneAtATime => ~busy(c)
    /\ deliveries' = [deliveries EXCEPT ![c] = @ + 1]

\* The handler suspends, holding s.
await(h, wait, c, s) ==
    /\ handlers[h] = Idle
    /\ handlers' = [handlers EXCEPT ![h] =
           [awaiting |-> wait, call |-> c, session |-> s, attempt |-> 0]]

\* The handler resumes and returns without waiting again.
return(h) == handlers' = [handlers EXCEPT ![h] = Idle]

answer(c, result) == step' = [step EXCEPT ![c] = result]

=============================================================================
