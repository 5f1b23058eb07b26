------------------------------ MODULE ToolTurn ------------------------------
(***************************************************************************)
(* One webhook of the voice platform from its body to its answer: the body *)
(* is read in one of three shapes, each requested tool is routed, filtered,*)
(* screened for an emergency, validated and run, one after the other, and  *)
(* each result is matched to its invocation.                               *)
(* integrations/voice_platform.py, services/conversation.py,               *)
(* agents/specialists.py, tools/registry.py, tools/safety_interceptor.py,  *)
(* tools/representative_tool.py.                                           *)
(*                                                                         *)
(* What a tool does to the session is in CallHandling; here a tool answers *)
(* or raises.                                                              *)
(***************************************************************************)
EXTENDS Naturals, FiniteSets, Sequences, Functions

CONSTANTS
    Ids,            \* tool call ids the platform sends
    unknown_tool,   \* a name the model made up
    Types,          \* <<type, status>> of the messages a run delivers
    MaxCalls,       \* bound: tool calls in one body
    None

ASSUME NoEventIsNone == None \notin {"TOOL_CALLS", "CALL_ENDED", "CALL_STARTED", "IGNORED"}

VARIABLES
    transfer_to,    \* the number the process is wired with, or None
    message,        \* the body of the webhook, None until it is read
    event_type,     \* None until the body is parsed
    invocations,    \* what the body asks for
    fates,          \* how each invocation handled so far ended, and on which arguments
    results,        \* invocation id -> the invocation whose line is spoken for it
    transfer,       \* transfer_to of _run_tools
    escalations,    \* the records of this turn, each with the invocation behind it
    response        \* None until the webhook is answered

vars == <<transfer_to, message, event_type, invocations, fates, results,
          transfer, escalations, response>>

-----------------------------------------------------------------------------
(* The five tools *)

\* build_registry: the parameters each tool accepts.
parameters ==
    [lookup_customer        |-> {"phone_number"},
     verify_identity        |-> {"verification_value"},
     get_claim_status       |-> {},
     search_faq             |-> {"question"},
     request_representative |-> {"reason", "notes"}]

\* ToolParameter.required
required == [parameters EXCEPT !.request_representative = {}]

names == DOMAIN parameters

\* What the model may supply: also a parameter of another tool, and one no
\* tool has.
offered(name) ==
    (IF name \in names THEN parameters[name] ELSE {}) \cup {"notes", "authenticated"}

\* A text that is harmless, that describes an emergency, that is empty, or a
\* value that is no text at all; a reason inside or outside the vocabulary.
values(key) ==
    CASE key = "reason" -> {"EMERGENCY", "CALLER_REQUEST", "odd"}
      [] key = "authenticated" -> {"odd"}
      [] OTHER -> {"words", "alarm", "blank", "odd"}

\* The argument objects of a call of this tool (_parse_arguments: text that
\* does not decode to an object is the empty one).
arguments(name) ==
    UNION {{a \in [D -> UNION {values(key) : key \in D}] :
               \A key \in D : a[key] \in values(key)} : D \in SUBSET offered(name)}

-----------------------------------------------------------------------------
(* The body *)

Entries == [id : Ids \cup {None}, name : names \cup {unknown_tool, None}]

\* The ways to spread at most MaxCalls entries over the three shapes.
Bodies ==
    UNION {{[toolCallList |-> l, toolCalls |-> t, functionCall |-> f] :
               l \in [1..n.list -> Entries], t \in [1..n.nested -> Entries],
               f \in [1..n.legacy -> Entries]} :
           n \in {m \in [list : 0..MaxCalls, nested : 0..MaxCalls, legacy : 0..1] :
                     m.list + m.nested + m.legacy <= MaxCalls}}

\* _tool_invocation: an entry without a name is dropped, one without an id is
\* known by its name.
_tool_invocation(entry) ==
    [invocation_id |-> IF entry.id = None THEN entry.name ELSE entry.id,
     name |-> entry.name]

\* The loop over the entries of one shape.
readable(entries) ==
    LET read[n \in 0..Len(entries)] ==
            IF n = 0 THEN <<>>
            ELSE IF entries[n].name = None THEN read[n - 1]
            ELSE Append(read[n - 1], _tool_invocation(entries[n]))
    IN  read[Len(entries)]

\* Fault: all shapes are read.
_parse_tool_calls_all(m) ==
    readable(m.toolCallList) \o readable(m.toolCalls) \o readable(m.functionCall)

\* _parse_tool_calls: the first shape that yields anything.
_parse_tool_calls(m) ==
    LET current == readable(m.toolCallList)
        nested  == readable(m.toolCalls)
        legacy  == readable(m.functionCall)
    IN  IF current # <<>> THEN current
        ELSE IF nested # <<>> THEN nested ELSE legacy

\* parse_webhook: the event a message type and status stand for.
event_of(type, status) ==
    CASE type \in {"tool-calls", "function-call", "tool_calls"} -> "TOOL_CALLS"
      [] type = "end-of-call-report" -> "CALL_ENDED"
      [] type \in {"assistant-request", "call.started"} -> "CALL_STARTED"
      [] type = "status-update" /\ status = "in-progress" -> "CALL_STARTED"
      [] type = "status-update" /\ status = "ended" -> "CALL_ENDED"
      [] OTHER -> "IGNORED"

Messages ==
    {[body |-> b, type |-> kind[1], status |-> kind[2], call_id |-> call_id] :
        b \in Bodies, kind \in Types, call_id \in BOOLEAN}

Init ==
    /\ transfer_to = None
    /\ message = None
    /\ event_type = None
    /\ invocations = <<>>
    /\ fates = <<>>
    /\ results = <<>>
    /\ transfer = None
    /\ escalations = {}
    /\ response = None

\* parse_webhook and ConversationService.handle: an event without a call id is
\* ignored; only tool calls go on from here (the other events are CallHandling's).
parse_webhook ==
    /\ event_type = None
    /\ message' \in Messages
    /\ event_type' = IF message'.call_id THEN event_of(message'.type, message'.status)
                                         ELSE "IGNORED"
    /\ invocations' = IF event_type' = "TOOL_CALLS" THEN _parse_tool_calls(message'.body)
                                                    ELSE <<>>
    /\ UNCHANGED <<transfer_to, fates, results, transfer, escalations, response>>

-----------------------------------------------------------------------------
(* _run_tools: one round of its loop is one action *)

\* The invocation whose turn it is.
turn == Len(fates) + 1

in_turn ==
    /\ event_type = "TOOL_CALLS"
    /\ turn <= Len(invocations)

\* Fault: the last tool decides on the transfer.
collect_last(fate, args, handed_over) ==
    /\ fates' = Append(fates, [end |-> fate, args |-> args])
    /\ results' = [id \in DOMAIN results \cup {invocations[turn].invocation_id} |->
                      IF id = invocations[turn].invocation_id
                      THEN turn ELSE results[id]]
    /\ transfer' = handed_over
    /\ UNCHANGED <<transfer_to, message, event_type, invocations, response>>

\* results[invocation_id] = result.speech; transfer_to = transfer_to or
\* result.transfer_to.
collect(fate, args, handed_over) ==
    /\ fates' = Append(fates, [end |-> fate, args |-> args])
    /\ results' = [id \in DOMAIN results \cup {invocations[turn].invocation_id} |->
                      IF id = invocations[turn].invocation_id
                      THEN turn ELSE results[id]]
    /\ transfer' = IF transfer # None THEN transfer ELSE handed_over
    /\ UNCHANGED <<transfer_to, message, event_type, invocations, response>>

\* EscalationService.request_representative and build_result.
escalated(fate, args, reason) ==
    /\ escalations' = escalations \cup {[by |-> turn, reason |-> reason]}
    /\ collect(fate, args, transfer_to)

spoken(fate, args) ==
    /\ collect(fate, args, None)
    /\ UNCHANGED escalations

\* ToolRegistry.invoke, name not registered: _unavailable.
unknown(name) ==
    /\ name \notin names
    /\ spoken("UNKNOWN_TOOL", <<>>)

\* Whatever the tool does not accept is dropped.
accepted(name, supplied) == Restrict(supplied, DOMAIN supplied \cap parameters[name])

\* _CALLER_SPEECH_ARGUMENTS that are text, and what assess makes of them.
alarming(args) ==
    \E key \in DOMAIN args \cap {"question", "notes"} : args[key] = "alarm"

\* Fault: only the notes are screened.
takes_over_notes(name, args) ==
    /\ name # "request_representative"
    /\ "notes" \in DOMAIN args /\ args["notes"] = "alarm"

\* EmergencyInterceptor.intercept: it leaves request_representative alone.
takes_over(name, args) == name # "request_representative" /\ alarming(args)

intercepted(name, args) ==
    /\ takes_over(name, args)
    /\ escalated("INTERCEPTED", args, "EMERGENCY")

lacking(name, args) ==
    ~ required[name] \subseteq {key \in DOMAIN args : args[key] # "blank"}

missing_arguments(name, args) ==
    /\ ~takes_over(name, args)
    /\ lacking(name, args)
    /\ spoken("MISSING_ARGUMENTS", args)

runs(name, args) == ~takes_over(name, args) /\ ~lacking(name, args)

said_emergency(args) == "reason" \in DOMAIN args /\ args["reason"] = "EMERGENCY"

\* RequestRepresentativeTool: unless the reason makes it an emergency, the notes
\* are assessed, and notes that are no text raise before anything is escalated.
unusable(args) ==
    /\ "notes" \in DOMAIN args
    /\ args["notes"] = "odd"
    /\ ~said_emergency(args)

\* _coerce_reason, raised to EMERGENCY by notes that describe one.
reason_of(args) ==
    IF said_emergency(args) \/ alarming(args) THEN "EMERGENCY" ELSE "CALLER_REQUEST"

request_representative(name, args) ==
    /\ name = "request_representative"
    /\ ~unusable(args)
    /\ escalated("SUCCESS", args, reason_of(args))

\* The other tools answer one way or another.
completed(name, args) ==
    /\ name # "request_representative"
    /\ runs(name, args)
    /\ spoken("ANSWERED", args)

\* Fault: the exception ends the turn.
raised_aborts(name, args) ==
    /\ runs(name, args)
    /\ name = "request_representative" => unusable(args)
    /\ fates' = [n \in DOMAIN invocations |-> [end |-> "TOOL_FAILED", args |-> args]]
    /\ UNCHANGED <<transfer_to, message, event_type, invocations, results, transfer,
                   escalations, response>>

\* A handler that raises is answered with an apology, and the turn goes on.
raised(name, args) ==
    /\ runs(name, args)
    /\ name = "request_representative" => unusable(args)
    /\ spoken("TOOL_FAILED", args)

\* Supervisor.dispatch (which only observes) and ToolRegistry.invoke
dispatch ==
    /\ in_turn
    /\ LET name == invocations[turn].name IN
       \/ unknown(name)
       \/ /\ name \in names
          /\ \E supplied \in arguments(name) :
                 LET args == accepted(name, supplied) IN
                 \/ intercepted(name, args)
                 \/ missing_arguments(name, args)
                 \/ request_representative(name, args)
                 \/ completed(name, args)
                 \/ raised(name, args)

\* format_tool_results for tool calls, an acknowledgement for the rest.
answer ==
    /\ event_type # None
    /\ ~in_turn
    /\ response = None
    /\ response' = IF event_type = "TOOL_CALLS"
                   THEN [results |-> results, destination |-> transfer]
                   ELSE [results |-> <<>>, destination |-> None]
    /\ UNCHANGED <<transfer_to, message, event_type, invocations, fates, results,
                   transfer, escalations>>

-----------------------------------------------------------------------------
answered == response # None /\ event_type = "TOOL_CALLS"

\* How often a list of entries asks for a name under an id.
asked(entries, e) == Cardinality({n \in DOMAIN entries : entries[n] = e})

\* Every invocation the body names is answered under its own id and with its
\* own line, although another one of the turn was unknown, lacked an argument,
\* was taken over or raised (tools/registry.py:104-106).
AnsweredInFull ==
    answered =>
        /\ DOMAIN response.results = {invocations[n].invocation_id : n \in DOMAIN invocations}
        /\ \A n \in DOMAIN invocations :
               (\A k \in DOMAIN invocations \ {n} :
                    invocations[k].invocation_id # invocations[n].invocation_id)
               => response.results[invocations[n].invocation_id] = n

\* The answer hands the call over exactly when a tool of the turn escalated it,
\* wherever in the turn that was (services/conversation.py:145).
TransferKept ==
    answered =>
        response.destination = IF escalations = {} THEN None ELSE transfer_to

\* Caller's words that describe an emergency and reach a tool that accepts them
\* leave one EMERGENCY record, by whichever of the two ways, and are never
\* answered as if nothing had happened (tools/safety_interceptor.py:48-74,
\* tools/representative_tool.py:69-78).
DangerEscalated ==
    \A n \in DOMAIN fates :
        (\E key \in DOMAIN fates[n].args \cap {"question", "notes"} :
             fates[n].args[key] = "alarm")
        => /\ fates[n].end \in {"INTERCEPTED", "SUCCESS"}
           /\ {r.reason : r \in {r \in escalations : r.by = n}} = {"EMERGENCY"}

\* What the tools are called with, an empty object for a name nobody has.
Arguments ==
    UNION {[D -> {"words", "alarm", "blank", "odd", "EMERGENCY", "CALLER_REQUEST"}] :
        D \in SUBSET {"phone_number", "verification_value", "question", "reason",
                      "notes", "authenticated"}}

Fates == [end : {"UNKNOWN_TOOL", "INTERCEPTED", "MISSING_ARGUMENTS", "SUCCESS", "ANSWERED",
                 "TOOL_FAILED"},
          args : Arguments]

\* What makes TransferKept and DangerEscalated inductive: the transfer is settled
\* by the escalations at every point of the turn, each of them belongs to a round
\* of it, and nothing is run once the turn is answered
\* (services/conversation.py:117-156).
TurnInductive ==
    /\ fates \in Seq(Fates)
    /\ \A r \in escalations : r.by \in 1..Len(fates)
    /\ event_type = None =>
           fates = <<>> /\ escalations = {} /\ transfer = None /\ response = None
    /\ transfer = IF escalations = {} THEN None ELSE transfer_to
    /\ response # None => ~in_turn
    /\ answered => response.destination = transfer
    /\ DangerEscalated

\* What RunOnce takes: what is run is one shape of the body, as it was read
\* (integrations/voice_platform.py:154-185).
BodyInductive ==
    /\ invocations \in Seq({_tool_invocation(e) : e \in Entries})
    /\ \/ invocations = <<>>
       \/ \E l \in {message.body.toolCallList, message.body.toolCalls,
                    message.body.functionCall} : invocations = readable(l)

\* What AnsweredInFull takes: after each round the lines are those of the rounds so
\* far, the last of an id having replaced the ones before it, and the answer has
\* them all (services/conversation.py:139-156).
LinesInductive ==
    /\ event_type = None => results = <<>>
    /\ Len(fates) <= Len(invocations)
    /\ DOMAIN results = {invocations[n].invocation_id : n \in DOMAIN fates}
    /\ \A n \in DOMAIN fates :
           /\ results[invocations[n].invocation_id] \in n..Len(fates)
           /\ invocations[results[invocations[n].invocation_id]].invocation_id
                  = invocations[n].invocation_id
    /\ answered => response.results = results

\* A body that repeats its calls in several shapes, as the platform's bodies do,
\* has each of them run as often as one shape asks for it, not once per shape
\* (integrations/voice_platform.py:154-185).
RunOnce ==
    \A n \in DOMAIN invocations :
        \E l \in {message.body.toolCallList, message.body.toolCalls,
                  message.body.functionCall} :
            asked(invocations, invocations[n]) <= asked(readable(l), invocations[n])

=============================================================================
