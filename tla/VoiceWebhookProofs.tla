-------------------------- MODULE VoiceWebhookProofs --------------------------
(***************************************************************************)
(* A webhook, for every environment, every secret and every number of tool *)
(* calls: what production handles, what a refusal tells, when the turn     *)
(* hands the call over, what becomes of an emergency, and that every call  *)
(* asked for is run once and answered under its id.                        *)
(***************************************************************************)
EXTENDS VoiceWebhook, DataLemmas, TLAPS

\* The keys a registered tool is called with are parameters of it.
LEMMA Accepted ==
    ASSUME NEW name \in names, NEW sent \in arguments(name)
    PROVE  /\ accepted(name, sent) \in Arguments
           /\ DOMAIN accepted(name, sent) \subseteq parameters[name]
  <1> DEFINE Keys == {"phone_number", "verification_value", "question", "reason", "notes",
                      "authenticated"}
             Values == {"words", "alarm", "blank", "odd", "EMERGENCY", "CALLER_REQUEST"}
             D == DOMAIN accepted(name, sent)
  <1>1. PICK C \in SUBSET offered(name) :
            /\ sent \in [C -> UNION {values(key) : key \in C}]
            /\ \A key \in C : sent[key] \in values(key)
    BY DEF arguments
  <1>2. \A key : values(key) \subseteq Values
    BY DEF values
  <1>3. C \subseteq Keys
    BY DEF offered, names, parameters
  <1>4. D = C \cap parameters[name] /\ \A key \in D : accepted(name, sent)[key] \in Values
    BY <1>1, <1>2 DEF accepted, Restrict
  <1>5. accepted(name, sent) \in [D -> Values]
    BY <1>4 DEF accepted, Restrict
  <1>6. QED BY <1>3, <1>4, <1>5 DEF Arguments

\* A name without a tool is called with nothing.
LEMMA NothingSupplied == <<>> \in Arguments
  <1>1. <<>> \in [{} -> {"words", "alarm", "blank", "odd", "EMERGENCY", "CALLER_REQUEST"}]
    OBVIOUS
  <1>2. QED BY <1>1 DEF Arguments

\* One more round of the loop, spoken or escalated.
LEMMA RoundEnds ==
    ASSUME TurnInductive, in_turn, NEW fate, NEW args,
           [end |-> fate, args |-> args] \in Fates,
           \/ /\ spoken(fate, args)
              /\ ~alarming(args)
           \/ \E reason : /\ escalated(fate, args, reason)
                          /\ fate \in {"INTERCEPTED", "SUCCESS"}
                          /\ alarming(args) => reason = "EMERGENCY"
    PROVE  TurnInductive'
  <1> DEFINE last == [end |-> fate, args |-> args]
  <1>1. /\ fates \in Seq(Fates) /\ fates' = Append(fates, last)
        /\ UNCHANGED <<transfer_to, event_type, invocations, response>>
    BY DEF TurnInductive, spoken, escalated, collect
  <1>2. /\ Len(fates) \in Nat /\ fates' \in Seq(Fates) /\ Len(fates') = Len(fates) + 1
        /\ \A n \in 1..Len(fates) : fates'[n] = fates[n]
        /\ fates'[Len(fates) + 1] = last
    BY <1>1
  <1>3. escalations \subseteq escalations'
        /\ \A r \in escalations' \ escalations : r.by = Len(fates) + 1
    BY DEF spoken, escalated, turn
  <1>4. \A r \in escalations' : r.by \in 1..Len(fates')
    BY <1>2, <1>3 DEF TurnInductive
  <1>5. event_type # None /\ event_type' # None /\ response = None /\ response' = None
    <2>1. event_type # None
      BY NoEventIsNone DEF in_turn
    <2>2. QED BY <1>1, <2>1 DEF TurnInductive
  <1>6. transfer' = IF escalations' = {} THEN None ELSE transfer_to'
    BY <1>1 DEF TurnInductive, spoken, escalated, collect
  <1>7. DangerEscalated'
    <2> SUFFICES ASSUME NEW n \in DOMAIN fates',
                        \E key \in DOMAIN fates'[n].args \cap {"question", "notes"} :
                            fates'[n].args[key] = "alarm"
                 PROVE  /\ fates'[n].end \in {"INTERCEPTED", "SUCCESS"}
                        /\ {r.reason : r \in {r \in escalations' : r.by = n}} = {"EMERGENCY"}
      BY DEF DangerEscalated
    <2>1. CASE n \in 1..Len(fates)
      <3>1. n \in DOMAIN fates /\ fates'[n] = fates[n]
        BY <1>1, <1>2, <2>1
      <3>2. {r \in escalations' : r.by = n} = {r \in escalations : r.by = n}
        BY <1>2, <1>3, <2>1
      <3>3. QED BY <3>1, <3>2 DEF TurnInductive, DangerEscalated
    <2>2. CASE n = Len(fates) + 1
      <3>1. alarming(args)
        BY <1>2, <2>2 DEF alarming
      <3>2. PICK reason : escalated(fate, args, reason) /\ reason = "EMERGENCY"
                          /\ fate \in {"INTERCEPTED", "SUCCESS"}
        BY <3>1
      <3>3. {r \in escalations' : r.by = n} = {[by |-> n, reason |-> "EMERGENCY"]}
        <4>1. \A r \in escalations : r.by # n
          BY <1>2, <2>2 DEF TurnInductive
        <4>2. escalations' = escalations \cup {[by |-> n, reason |-> "EMERGENCY"]}
          BY <2>2, <3>2 DEF escalated, turn
        <4>3. QED BY <4>1, <4>2
      <3>4. {r.reason : r \in {[by |-> n, reason |-> "EMERGENCY"]}} = {"EMERGENCY"}
        OBVIOUS
      <3>5. fates'[n].end = fate
        BY <1>2, <2>2
      <3>6. fates'[n].end \in {"INTERCEPTED", "SUCCESS"}
        BY <3>2, <3>5
      <3>7. {r.reason : r \in {r \in escalations' : r.by = n}} = {"EMERGENCY"}
        BY <3>3, <3>4
      <3>8. QED BY <3>6, <3>7
    <2>3. n \in 1..Len(fates) \/ n = Len(fates) + 1
      BY <1>2
    <2>4. QED BY <2>1, <2>2, <2>3
  <1>8. QED BY <1>2, <1>4, <1>5, <1>6, <1>7 DEF TurnInductive, answered

\* A round of the loop.
LEMMA DispatchStep == TurnInductive /\ dispatch => TurnInductive'
  <1> SUFFICES ASSUME TurnInductive, dispatch PROVE TurnInductive'
    OBVIOUS
  <1> DEFINE name == invocations[turn].name
  <1>1. in_turn
    BY DEF dispatch
  <1>2. CASE unknown(name)
    <2>1. spoken("UNKNOWN_TOOL", <<>>) /\ ~alarming(<<>>)
      BY <1>2 DEF unknown, alarming
    <2>2. [end |-> "UNKNOWN_TOOL", args |-> <<>>] \in Fates
      BY NothingSupplied DEF Fates
    <2>3. QED BY <1>1, <2>1, <2>2, RoundEnds
  <1>3. ASSUME name \in names, NEW given \in arguments(name),
               LET args == accepted(name, given) IN
               \/ intercepted(name, args)
               \/ missing_arguments(name, args)
               \/ request_representative(name, args)
               \/ completed(name, args)
               \/ raised(name, args)
        PROVE  TurnInductive'
    <2> DEFINE args == accepted(name, given)
    <2>1. /\ args \in Arguments /\ DOMAIN args \subseteq parameters[name]
          /\ \A end \in {"INTERCEPTED", "MISSING_ARGUMENTS", "SUCCESS", "ANSWERED", "TOOL_FAILED"} :
                 [end |-> end, args |-> args] \in Fates
      BY <1>3, Accepted DEF Fates
    <2>2. name = "request_representative" => DOMAIN args \subseteq {"reason", "notes"}
      BY <2>1 DEF parameters
    <2> HIDE DEF args
    <2>3. CASE intercepted(name, args)
      <3>1. escalated("INTERCEPTED", args, "EMERGENCY")
        BY <2>3 DEF intercepted
      <3>2. QED BY <1>1, <2>1, <3>1, RoundEnds
    <2>4. CASE missing_arguments(name, args)
      <3>1. spoken("MISSING_ARGUMENTS", args) /\ ~alarming(args)
        <4>1. name # "request_representative"
          BY <2>4 DEF missing_arguments, lacking, required, parameters
        <4>2. QED BY <2>4, <4>1 DEF missing_arguments, takes_over
      <3>2. QED BY <1>1, <2>1, <3>1, RoundEnds
    <2>5. CASE request_representative(name, args)
      <3>1. escalated("SUCCESS", args, reason_of(args))
        BY <2>5 DEF request_representative
      <3>2. alarming(args) => reason_of(args) = "EMERGENCY"
        BY DEF reason_of
      <3>3. QED BY <1>1, <2>1, <3>1, <3>2, RoundEnds
    <2>6. CASE completed(name, args)
      <3>1. spoken("ANSWERED", args) /\ ~alarming(args)
        BY <2>6 DEF completed, runs, takes_over
      <3>2. QED BY <1>1, <2>1, <3>1, RoundEnds
    <2>7. CASE raised(name, args)
      <3>1. spoken("TOOL_FAILED", args)
        BY <2>7 DEF raised
      <3>2. ~alarming(args)
        <4>1. CASE name = "request_representative"
          BY <2>2, <2>7, <4>1 DEF raised, unusable, alarming
        <4>2. CASE name # "request_representative"
          BY <2>7, <4>2 DEF raised, runs, takes_over
        <4>3. QED BY <4>1, <4>2
      <3>3. QED BY <1>1, <2>1, <3>1, <3>2, RoundEnds
    <2>8. QED BY <1>3, <2>3, <2>4, <2>5, <2>6, <2>7 DEF args
  <1>4. QED BY <1>2, <1>3 DEF dispatch

\* The body is read once, before anything is run.
LEMMA ParseStep == TurnInductive /\ event_type = None /\ parse_webhook => TurnInductive'
  BY DEF TurnInductive, parse_webhook, answered, DangerEscalated, in_turn

\* The answer carries the transfer of the turn.
LEMMA AnswerStep == TurnInductive /\ answer => TurnInductive'
  <1> SUFFICES ASSUME TurnInductive, answer PROVE TurnInductive'
    OBVIOUS
  <1>1. /\ ~in_turn /\ event_type # None
        /\ UNCHANGED <<transfer_to, event_type, invocations, fates, transfer, escalations>>
    BY DEF answer
  <1>2. ~in_turn' /\ DangerEscalated'
    BY <1>1 DEF in_turn, turn, DangerEscalated, TurnInductive
  <1>3. event_type = "TOOL_CALLS" => response'.destination = transfer
    BY DEF answer
  <1>4. answered' => response'.destination = transfer'
    BY <1>1, <1>3 DEF answered
  <1>5. QED BY <1>1, <1>2, <1>4 DEF TurnInductive

\* Refusals and starts leave the turn alone.
LEMMA TurnUntouched ==
    ASSUME TurnInductive, transfer_to' = transfer_to \/ event_type = None,
           UNCHANGED <<message, event_type, invocations, fates, results, transfer,
                       escalations, response>>
    PROVE  TurnInductive'
  BY DEF TurnInductive, answered, DangerEscalated, in_turn, turn

-----------------------------------------------------------------------------
\* Nothing has started and nothing has arrived.
LEMMA InitStep == WebhookInit => WebhookInductive
  <1> SUFFICES ASSUME WebhookInit PROVE WebhookInductive
    OBVIOUS
  <1>1. TurnInductive
    BY DEF WebhookInit, Init, TurnInductive, DangerEscalated, answered, in_turn
  <1>2. Guarded
    BY DEF WebhookInit, Init, Guarded
  <1>3. QED BY <1>1, <1>2 DEF WebhookInductive

\* A process that has started is one that may start.
LEMMA StartStep == WebhookInductive /\ start => WebhookInductive'
  <1> SUFFICES ASSUME WebhookInductive, start PROVE WebhookInductive'
    OBVIOUS
  <1>1. process = None /\ event_type = None /\ status_code = None
    BY DEF WebhookInductive, Guarded, start
  <1>2. TurnInductive'
    BY <1>1, TurnUntouched DEF WebhookInductive, start
  <1>3. \E d \in Deployments : starts(d.env, d.content) /\ process' = wired(d.env)
    BY DEF start
  <1>4. Guarded'
    BY <1>1, <1>3 DEF start, Guarded
  <1>5. QED BY <1>2, <1>4 DEF WebhookInductive

\* A refusal, for the secret or behind it.
LEMMA RefusalStep ==
    ASSUME WebhookInductive, arriving, NEW secret, NEW status, refused(secret, status),
           \/ admitted(secret)
           \/ incomparable(secret, process.secret) /\ status = 500
           \/ ~incomparable(secret, process.secret) /\ status = 401
    PROVE  WebhookInductive'
  <1>1. /\ UNCHANGED <<process, event_type>>
        /\ supplied' = secret /\ status_code' = status
        /\ process # None /\ event_type = None
    BY DEF refused, arriving, vars
  <1>2. TurnInductive'
    BY TurnUntouched DEF WebhookInductive, refused, vars
  <1>3. \/ admitted(supplied)'
        \/ incomparable(supplied, process.secret)' /\ status_code' = 500
        \/ ~incomparable(supplied, process.secret)' /\ status_code' = 401
    BY <1>1 DEF admitted, incomparable, verify_secret
  <1>4. Guarded'
    BY <1>1, <1>3 DEF WebhookInductive, Guarded
  <1>5. QED BY <1>2, <1>4 DEF WebhookInductive

\* A webhook that is let through.
LEMMA HandledStep ==
    ASSUME WebhookInductive, arriving, NEW secret, handled(secret)
    PROVE  WebhookInductive'
  <1>1. /\ UNCHANGED <<process, status_code>> /\ supplied' = secret
        /\ process # None /\ event_type = None /\ status_code = None
        /\ admitted(secret) /\ parse_webhook
    BY DEF handled, arriving
  <1>2. TurnInductive'
    BY <1>1, ParseStep DEF WebhookInductive
  <1>3. admitted(supplied)'
    BY <1>1 DEF admitted, incomparable, verify_secret
  <1>4. Guarded'
    BY <1>1, <1>3 DEF WebhookInductive, Guarded
  <1>5. QED BY <1>2, <1>4 DEF WebhookInductive

\* Whatever happens to a webhook, what it was admitted with stays.
LEMMA GuardStays ==
    ASSUME Guarded, event_type # None, UNCHANGED <<process, supplied, event_type>>
    PROVE  Guarded'
  <1>1. admitted(supplied) /\ process # None
    BY DEF Guarded
  <1>2. admitted(supplied)'
    BY <1>1 DEF admitted, incomparable, verify_secret
  <1>3. QED BY <1>1, <1>2 DEF Guarded

\* No step of the process or of the turn breaks the invariant.
LEMMA WebhookStep == WebhookInductive /\ [Next]_webhookVars => WebhookInductive'
  <1> SUFFICES ASSUME WebhookInductive, [Next]_webhookVars PROVE WebhookInductive'
    OBVIOUS
  <1>1. CASE start
    BY <1>1, StartStep
  <1>2. ASSUME arriving, NEW secret \in Secrets \cup {None},
               \/ unauthorized(secret)
               \/ comparison_raises(secret)
               \/ unreadable_body(secret)
               \/ unavailable(secret)
        PROVE  WebhookInductive'
    <2>1. CASE unauthorized(secret)
      BY <1>2, <2>1, RefusalStep DEF unauthorized
    <2>2. CASE comparison_raises(secret)
      BY <1>2, <2>2, RefusalStep DEF comparison_raises
    <2>3. CASE unreadable_body(secret)
      BY <1>2, <2>3, RefusalStep DEF unreadable_body
    <2>4. CASE unavailable(secret)
      BY <1>2, <2>4, RefusalStep DEF unavailable
    <2>5. QED BY <1>2, <2>1, <2>2, <2>3, <2>4
  <1>3. ASSUME arriving, NEW secret \in Secrets \cup {None}, handled(secret)
        PROVE  WebhookInductive'
    BY <1>3, HandledStep
  <1>4. CASE dispatch /\ UNCHANGED <<process, supplied, status_code>>
    <2>1. event_type # None /\ event_type' = event_type
      <3>1. event_type # None
        BY <1>4, NoEventIsNone DEF dispatch, in_turn
      <3>2. QED BY <1>4, <3>1 DEF dispatch, unknown, intercepted, missing_arguments,
                request_representative, completed, raised, spoken, escalated, collect
    <2>2. TurnInductive'
      BY <1>4, DispatchStep DEF WebhookInductive
    <2>3. Guarded'
      BY <1>4, <2>1, GuardStays DEF WebhookInductive
    <2>4. QED BY <2>2, <2>3 DEF WebhookInductive
  <1>5. CASE answered_with_200
    <2>1. answer /\ event_type # None /\ UNCHANGED <<process, supplied, event_type>>
      BY <1>5 DEF answered_with_200, answer
    <2>2. TurnInductive'
      BY <2>1, AnswerStep DEF WebhookInductive
    <2>3. Guarded'
      BY <2>1, GuardStays DEF WebhookInductive
    <2>4. QED BY <2>2, <2>3 DEF WebhookInductive
  <1>6. CASE UNCHANGED webhookVars
    <2>1. UNCHANGED <<process, supplied, status_code>> /\ UNCHANGED vars
      BY <1>6 DEF webhookVars
    <2>2. TurnInductive'
      BY <2>1, TurnUntouched DEF WebhookInductive, vars
    <2>3. Guarded'
      BY <2>1 DEF WebhookInductive, Guarded, vars, admitted, incomparable, verify_secret
    <2>4. QED BY <2>2, <2>3 DEF WebhookInductive
  <1>7. QED BY <1>1, <1>2, <1>3, <1>4, <1>5, <1>6 DEF Next

\* What is handled was admitted by a process that may start, and the turn behind it
\* is consistent at every point (api/v1/voice.py:53-102,
\* services/conversation.py:117-156).
THEOREM WebhookInductiveHolds == Spec => []WebhookInductive
  <1>1. QED BY InitStep, WebhookStep, PTL DEF Spec

\* In production nothing is handled without the configured secret, whatever the
\* process was started with (core/config.py:154-161).
THEOREM ProductionStaysGuarded == Spec => []ProductionIsGuarded
  <1>1. WebhookInductive => ProductionIsGuarded
    <2> SUFFICES ASSUME Guarded, event_type # None, process.production
                 PROVE  supplied # None /\ supplied = process.secret
      BY DEF WebhookInductive, ProductionIsGuarded
    <2>1. PICK d \in Deployments : starts(d.env, d.content) /\ process = wired(d.env)
      BY DEF Guarded
    <2>2. process.secret # None
      BY <2>1 DEF starts, wired, _require_webhook_secret_in_production
    <2>3. QED BY <2>2 DEF Guarded, admitted, verify_secret
  <1>2. QED BY <1>1, WebhookInductiveHolds, PTL

\* Who lacks the secret is told nothing else (api/v1/voice.py:48-52).
THEOREM SecretFirst == Spec => []RefusedFirst
  <1>1. WebhookInductive => RefusedFirst
    <2> SUFFICES ASSUME Guarded, status_code # None, process.secret # None,
                        supplied # process.secret
                 PROVE  status_code = IF incomparable(supplied, process.secret) THEN 500
                                      ELSE 401
      BY DEF WebhookInductive, RefusedFirst
    <2>1. ~admitted(supplied)
      BY DEF admitted, verify_secret
    <2>2. QED BY <2>1 DEF Guarded
  <1>2. QED BY <1>1, WebhookInductiveHolds, PTL

\* However many tools the turn runs and wherever the escalation is, the answer
\* hands the call over exactly when there was one (services/conversation.py:145).
THEOREM TransferIsKept == Spec => []TransferKept
  <1>1. WebhookInductive => TransferKept
    BY DEF WebhookInductive, TurnInductive, TransferKept, answered
  <1>2. QED BY <1>1, WebhookInductiveHolds, PTL

\* Words that describe an emergency, in any argument of any tool of a turn of any
\* length, leave one EMERGENCY record (tools/safety_interceptor.py:48-74).
THEOREM DangerIsEscalated == Spec => []DangerEscalated
  <1>1. WebhookInductive => DangerEscalated
    BY DEF WebhookInductive, TurnInductive
  <1>2. QED BY <1>1, WebhookInductiveHolds, PTL

-----------------------------------------------------------------------------
(* The body and the lines of the answer *)

Invocations == {_tool_invocation(e) : e \in Entries}

\* Reading a shape ends in a sequence of invocations.
LEMMA ReadableIsASequence ==
    ASSUME NEW entries \in Seq(Entries)
    PROVE  readable(entries) \in Seq(Invocations)
  <1> DEFINE N == Len(entries)
             V == Seq(Invocations)
             empty == <<>>
             round(n, v) == IF entries[n].name = None THEN v
                            ELSE Append(v, _tool_invocation(entries[n]))
             read[n \in 0..N] ==
                 IF n = 0 THEN <<>>
                 ELSE IF entries[n].name = None THEN read[n - 1]
                 ELSE Append(read[n - 1], _tool_invocation(entries[n]))
             step == [k \in Nat |-> [v \in V |-> IF k \in 1..N THEN round(k, v) ELSE v]]
  <1>1. N \in Nat /\ empty \in V /\ \A k \in 1..N, v \in V : round(k, v) \in V
    <2>1. \A k \in 1..N : entries[k] \in Entries
      OBVIOUS
    <2>2. \A k \in 1..N : _tool_invocation(entries[k]) \in Invocations
      BY <2>1 DEF Invocations
    <2>3. QED BY <2>2
  <1>2. \E f : f = [n \in 0..N |-> IF n = 0 THEN empty ELSE round(n, f[n - 1])]
    <2> HIDE DEF round, N, V, empty
    <2>1. step \in [Nat -> [V -> V]]
      BY <1>1
    <2>2. PICK f \in [0..N -> V] : IsLoop(f, N, empty, step)
      <3> HIDE DEF step
      <3>1. QED BY <1>1, <2>1, LoopRuns
    <2>3. \A n \in 0..N : n # 0 => step[n][f[n - 1]] = round(n, f[n - 1])
      BY <1>1
    <2>4. f = [n \in 0..N |-> IF n = 0 THEN empty ELSE round(n, f[n - 1])]
      BY <2>2, <2>3 DEF IsLoop
    <2>5. QED BY <2>4
  <1>3. read = [n \in 0..N |-> IF n = 0 THEN empty ELSE round(n, read[n - 1])]
    BY <1>2
  <1>4. \A n \in Nat : n \in {m \in Nat : m <= N => read[m] \in V}
    <2> DEFINE T == {m \in Nat : m <= N => read[m] \in V}
    <2> HIDE DEF read, round, V, N, empty
    <2>1. 0 \in T
      BY <1>1, <1>3
    <2>2. ASSUME NEW n \in Nat, n \in T PROVE n + 1 \in T
      BY <1>1, <1>3, <2>2
    <2> HIDE DEF T
    <2>3. QED BY <2>1, <2>2, Induction DEF T
  <1>5. readable(entries) = read[N]
    BY DEF readable
  <1>6. read[N] \in V
    <2> HIDE DEF read, V, N
    <2>1. QED BY <1>1, <1>4
  <1>7. QED BY <1>5, <1>6

\* What a body asks for is what one of its shapes reads as.
LEMMA OneShapeIsRead ==
    ASSUME NEW m \in Bodies
    PROVE  /\ _parse_tool_calls(m) \in Seq(Invocations)
           /\ _parse_tool_calls(m) \in {readable(m.toolCallList), readable(m.toolCalls),
                                        readable(m.functionCall)}
  <1>1. /\ m.toolCallList \in Seq(Entries) /\ m.toolCalls \in Seq(Entries)
        /\ m.functionCall \in Seq(Entries)
    <2>1. PICK n \in [list : 0..MaxCalls, nested : 0..MaxCalls, legacy : 0..1] :
              \E l \in [1..n.list -> Entries], t \in [1..n.nested -> Entries],
                 f \in [1..n.legacy -> Entries] :
                  m = [toolCallList |-> l, toolCalls |-> t, functionCall |-> f]
      BY DEF Bodies
    <2>2. n.list \in Nat /\ n.nested \in Nat /\ n.legacy \in Nat
      OBVIOUS
    <2>3. QED BY <2>1, <2>2
  <1>2. QED BY <1>1, ReadableIsASequence DEF _parse_tool_calls

\* Before the body is read nothing is asked for, and afterwards it stays.
LEMMA BodyStep == WebhookInductive /\ BodyInductive /\ [Next]_webhookVars => BodyInductive'
  <1> SUFFICES ASSUME WebhookInductive, BodyInductive, [Next]_webhookVars
               PROVE  BodyInductive'
    OBVIOUS
  <1>1. ASSUME NEW secret, handled(secret) PROVE BodyInductive'
    <2>1. parse_webhook
      BY <1>1 DEF handled
    <2>2. CASE event_type' = "TOOL_CALLS"
      <3>1. message' \in Messages /\ invocations' = _parse_tool_calls(message'.body)
        BY <2>1, <2>2 DEF parse_webhook
      <3>2. message'.body \in Bodies
        BY <3>1 DEF Messages
      <3>3. QED BY <3>1, <3>2, OneShapeIsRead DEF BodyInductive, Invocations
    <2>3. CASE event_type' # "TOOL_CALLS"
      BY <2>1, <2>3 DEF parse_webhook, BodyInductive
    <2>4. QED BY <2>2, <2>3
  <1>2. CASE UNCHANGED <<message, invocations>>
    BY <1>2 DEF BodyInductive
  <1>3. CASE start
    BY <1>2, <1>3 DEF start
  <1>4. ASSUME NEW secret, NEW status, refused(secret, status)
        PROVE  UNCHANGED <<message, invocations>>
    BY <1>4 DEF refused, vars
  <1>5. CASE dispatch
    BY <1>2, <1>5 DEF dispatch, unknown, intercepted, missing_arguments,
        request_representative, completed, raised, spoken, escalated, collect
  <1>6. CASE answered_with_200
    BY <1>2, <1>6 DEF answered_with_200, answer
  <1>7. CASE UNCHANGED webhookVars
    BY <1>2, <1>7 DEF webhookVars, vars
  <1>8. QED BY <1>1, <1>2, <1>3, <1>4, <1>5, <1>6, <1>7
            DEF Next, unauthorized, comparison_raises, unreadable_body, unavailable

\* A round of the loop leaves one line, in the place of an earlier one of its id.
LEMMA LineAdded ==
    ASSUME TurnInductive, BodyInductive, LinesInductive, in_turn,
           NEW fate, NEW args, NEW handed_over, collect(fate, args, handed_over),
           fates' \in Seq(Fates)
    PROVE  LinesInductive'
  <1> DEFINE id(n) == invocations[n].invocation_id
             last == [end |-> fate, args |-> args]
             N == Len(fates)
  <1>1. /\ fates' = Append(fates, last) /\ UNCHANGED <<event_type, invocations, response>>
        /\ results' = [i \in DOMAIN results \cup {id(turn)} |->
                           IF i = id(turn) THEN turn ELSE results[i]]
    BY DEF collect
  <1>2. /\ N \in Nat /\ turn = N + 1 /\ DOMAIN fates = 1..N
        /\ Len(fates') = N + 1 /\ DOMAIN fates' = 1..(N + 1)
    <2>1. fates \in Seq(Fates)
      BY DEF TurnInductive
    <2>2. QED BY <1>1, <2>1 DEF turn
  <1>3. N + 1 <= Len(invocations)
    BY <1>2 DEF in_turn
  <1>4. event_type # None /\ response = None
    <2>1. event_type # None
      BY NoEventIsNone DEF in_turn
    <2>2. QED BY <2>1 DEF TurnInductive
  <1>5. DOMAIN results' = {id(n) : n \in DOMAIN fates'}
    <2>1. DOMAIN results = {id(n) : n \in 1..N}
      BY <1>2 DEF LinesInductive
    <2>2. DOMAIN results' = DOMAIN results \cup {id(N + 1)}
      BY <1>1, <1>2
    <2>3. QED BY <1>2, <2>1, <2>2
  <1>6. ASSUME NEW n \in DOMAIN fates'
        PROVE  /\ results'[id(n)] \in n..Len(fates')
               /\ id(results'[id(n)]) = id(n)
    <2>1. CASE id(n) = id(N + 1)
      BY <1>1, <1>2, <2>1
    <2>2. CASE id(n) # id(N + 1)
      <3>1. n \in 1..N
        BY <1>2, <2>2
      <3>2. results[id(n)] \in n..N /\ id(results[id(n)]) = id(n) /\ id(n) \in DOMAIN results
        BY <1>2, <3>1 DEF LinesInductive
      <3>3. results'[id(n)] = results[id(n)]
        BY <1>1, <1>2, <2>2, <3>2
      <3>4. QED BY <1>2, <3>1, <3>2, <3>3
    <2>3. QED BY <2>1, <2>2
  <1>7. Len(fates') <= Len(invocations') /\ event_type' # None /\ ~answered'
    BY <1>1, <1>2, <1>3, <1>4 DEF answered
  <1>8. DOMAIN results' = {invocations'[n].invocation_id : n \in DOMAIN fates'}
    BY <1>1, <1>5
  <1>9. \A n \in DOMAIN fates' :
            /\ results'[invocations'[n].invocation_id] \in n..Len(fates')
            /\ invocations'[results'[invocations'[n].invocation_id]].invocation_id
                   = invocations'[n].invocation_id
    BY <1>1, <1>6
  <1>10. QED BY <1>7, <1>8, <1>9 DEF LinesInductive

\* A round of the loop ends in collect.
LEMMA RoundCollects ==
    ASSUME dispatch
    PROVE  in_turn /\ \E fate, args, handed_over : collect(fate, args, handed_over)
  <1>1. \A fate, args : spoken(fate, args) => collect(fate, args, None)
    BY DEF spoken
  <1>2. \A fate, args, reason : escalated(fate, args, reason) => collect(fate, args, transfer_to)
    BY DEF escalated
  <1>3. QED BY <1>1, <1>2 DEF dispatch, unknown, intercepted, missing_arguments,
            request_representative, completed, raised

\* Each round leaves its line, and the answer takes them all.
LEMMA LinesStep ==
    ASSUME WebhookInductive, WebhookInductive', BodyInductive, BodyInductive',
           LinesInductive, [Next]_webhookVars
    PROVE  LinesInductive'
  <1>1. CASE UNCHANGED <<event_type, invocations, fates, results, response>>
    BY <1>1 DEF LinesInductive, answered
  <1>2. ASSUME NEW secret, handled(secret) PROVE LinesInductive'
    <2>1. parse_webhook
      BY <1>2 DEF handled
    <2>2. /\ event_type = None /\ fates = <<>> /\ response = None /\ results = <<>>
          /\ UNCHANGED <<fates, results, response>>
      BY <2>1 DEF parse_webhook, WebhookInductive, TurnInductive, LinesInductive
    <2>3. Len(invocations') \in Nat
      BY DEF BodyInductive
    <2>4. QED BY <2>2, <2>3 DEF LinesInductive, answered
  <1>3. CASE start
    BY <1>1, <1>3 DEF start
  <1>4. ASSUME NEW secret, NEW status, refused(secret, status)
        PROVE  UNCHANGED <<event_type, invocations, fates, results, response>>
    BY <1>4 DEF refused, vars
  <1>5. CASE dispatch
    <2>1. fates' \in Seq(Fates) /\ TurnInductive
      BY DEF WebhookInductive, TurnInductive
    <2>2. QED BY <1>5, <2>1, RoundCollects, LineAdded
  <1>6. CASE answered_with_200
    <2>1. /\ answer
          /\ event_type # None
          /\ UNCHANGED <<event_type, invocations, fates, results>>
      BY <1>6 DEF answered_with_200, answer
    <2>2. answered' => response'.results = results'
      BY <2>1 DEF answer, answered
    <2>3. QED BY <2>1, <2>2 DEF LinesInductive
  <1>7. CASE UNCHANGED webhookVars
    BY <1>1, <1>7 DEF webhookVars, vars
  <1>8. QED BY <1>1, <1>2, <1>3, <1>4, <1>5, <1>6, <1>7
            DEF Next, unauthorized, comparison_raises, unreadable_body, unavailable

\* At every point of a webhook, what is run is one shape of its body and each round
\* so far has left its line (services/conversation.py:117-156).
THEOREM LinesInductiveHolds == Spec => [](BodyInductive /\ LinesInductive)
  <1>1. WebhookInit => BodyInductive /\ LinesInductive
    <2> SUFFICES ASSUME WebhookInit PROVE BodyInductive /\ LinesInductive
      OBVIOUS
    <2>1. /\ event_type = None /\ invocations = <<>> /\ fates = <<>> /\ results = <<>>
          /\ response = None
      BY DEF WebhookInit, Init
    <2>2. QED BY <2>1 DEF BodyInductive, LinesInductive, answered
  <1>2. /\ WebhookInductive /\ WebhookInductive' /\ BodyInductive /\ LinesInductive
        /\ [Next]_webhookVars
        => BodyInductive' /\ LinesInductive'
    BY BodyStep, LinesStep
  <1>3. QED BY <1>1, <1>2, WebhookInductiveHolds, PTL DEF Spec

\* However many calls a body holds, in whatever shapes, each is answered under its
\* own id and with its own line (tools/registry.py:104-106).
THEOREM EveryCallIsAnswered == Spec => []AnsweredInFull
  <1>1. WebhookInductive /\ BodyInductive /\ LinesInductive => AnsweredInFull
    <2> SUFFICES ASSUME TurnInductive, BodyInductive, LinesInductive, answered
                 PROVE  /\ DOMAIN response.results
                              = {invocations[n].invocation_id : n \in DOMAIN invocations}
                        /\ \A n \in DOMAIN invocations :
                               (\A k \in DOMAIN invocations \ {n} :
                                    invocations[k].invocation_id # invocations[n].invocation_id)
                               => response.results[invocations[n].invocation_id] = n
      BY DEF WebhookInductive, AnsweredInFull
    <2>1. response.results = results
      BY DEF LinesInductive
    <2>2. DOMAIN fates = DOMAIN invocations
      <3>1. fates \in Seq(Fates) /\ invocations \in Seq(Invocations)
        BY DEF TurnInductive, BodyInductive, Invocations
      <3>2. Len(fates) <= Len(invocations) /\ ~in_turn /\ event_type = "TOOL_CALLS"
        BY DEF LinesInductive, TurnInductive, answered
      <3>3. Len(fates) = Len(invocations)
        BY <3>1, <3>2 DEF in_turn, turn
      <3>4. QED BY <3>1, <3>3
    <2>3. DOMAIN results = {invocations[n].invocation_id : n \in DOMAIN invocations}
      BY <2>2 DEF LinesInductive
    <2>4. ASSUME NEW n \in DOMAIN invocations,
                 \A k \in DOMAIN invocations \ {n} :
                     invocations[k].invocation_id # invocations[n].invocation_id
          PROVE  results[invocations[n].invocation_id] = n
      <3> DEFINE r == results[invocations[n].invocation_id]
      <3>1. fates \in Seq(Fates) /\ n \in DOMAIN fates
        BY <2>2 DEF TurnInductive
      <3>2. r \in n..Len(fates) /\ invocations[r].invocation_id = invocations[n].invocation_id
        BY <3>1 DEF LinesInductive
      <3>3. r \in DOMAIN invocations
        BY <2>2, <3>1, <3>2
      <3>4. QED BY <2>4, <3>2, <3>3
    <2>5. QED BY <2>1, <2>3, <2>4
  <1>2. QED BY <1>1, WebhookInductiveHolds, LinesInductiveHolds, PTL

\* However often a body repeats its calls over its shapes, each is run as often as
\* one shape asks for it (integrations/voice_platform.py:154-185).
THEOREM CallsAreRunOnce == Spec => []RunOnce
  <1>1. BodyInductive => RunOnce
    <2> SUFFICES ASSUME BodyInductive, NEW n \in DOMAIN invocations
                 PROVE  \E l \in {message.body.toolCallList, message.body.toolCalls,
                                  message.body.functionCall} :
                            asked(invocations, invocations[n])
                                <= asked(readable(l), invocations[n])
      BY DEF RunOnce
    <2>1. PICK l \in {message.body.toolCallList, message.body.toolCalls,
                      message.body.functionCall} : invocations = readable(l)
      BY DEF BodyInductive
    <2>2. asked(invocations, invocations[n]) \in Nat
      <3> DEFINE S == {k \in DOMAIN invocations : invocations[k] = invocations[n]}
      <3>1. DOMAIN invocations = 1..Len(invocations) /\ Len(invocations) \in Nat
        BY DEF BodyInductive
      <3>2. IsFiniteSet(1..Len(invocations))
        BY <3>1, FS_Interval
      <3>3. IsFiniteSet(S)
        BY <3>1, <3>2, FS_Subset
      <3>4. QED BY <3>3, FS_CardinalityType DEF asked
    <2>3. QED BY <2>1, <2>2
  <1>2. QED BY <1>1, LinesInductiveHolds, PTL

=============================================================================
