---------------------------- MODULE SerialProofs ----------------------------
(***************************************************************************)
(* What CallHandling guarantees when the platform waits for one webhook of *)
(* a call before it sends the next, for every number of calls, customers   *)
(* and retries: the attempts are counted exactly, the call implements      *)
(* VerificationBudget, what is escalated stays escalated, and a call comes *)
(* to have the rows of a single append.                                    *)
(***************************************************************************)
EXTENDS CallHandlingProofs, FiniteSetTheorems

-----------------------------------------------------------------------------
(* One webhook of a call at a time *)

\* Also of a call without a session: a fresh one has judged no answer.
CountsExact == \A c \in Calls : get(c).authentication_attempts = wrong[c]

\* What makes the exact count inductive: nobody holds anything stale.
SerialInductive == Inductive /\ CopiesAreCurrent /\ CountsExact

\* From old to new no answer is judged and no escalation forgotten.
Unjudged(old, new) ==
    /\ new.authentication_attempts = old.authentication_attempts
    /\ phase_of(new) = phase_of(old)
    /\ old.escalated => new.escalated

\* The four things a step may do to the session of a call.
Kept(c) == sessions'[c] = sessions[c] /\ wrong'[c] = wrong[c]

Dropped(c) == sessions'[c] = None /\ wrong'[c] = 0

Judged(c) ==
    /\ live(c)
    /\ phase_of(sessions[c]) = "open"
    /\ sessions'[c] \in Session
    /\ sessions[c].escalated => sessions'[c].escalated
    /\ \/ /\ sessions'[c].authentication_attempts = sessions[c].authentication_attempts + 1
          /\ wrong'[c] = wrong[c] + 1
          /\ phase_of(sessions'[c]) =
                 IF sessions'[c].authentication_attempts >= MAX_AUTHENTICATION_ATTEMPTS
                 THEN "locked" ELSE "open"
       \/ /\ sessions'[c].authentication_attempts = sessions[c].authentication_attempts
          /\ wrong'[c] = wrong[c]
          /\ phase_of(sessions'[c]) = "verified"

Rewritten(c) ==
    /\ sessions'[c] \in Session
    /\ Unjudged(get(c), sessions'[c])
    /\ wrong'[c] = wrong[c]

\* A step touches the session of one call,
Moved(c) ==
    /\ Kept(c) \/ Dropped(c) \/ Judged(c) \/ Rewritten(c)
    /\ \A d \in Calls \ {c} : Kept(d)

\* and leaves at most one handler on it, which holds what the store holds.
Attended(c) ==
    /\ \A g \in Handlers : \/ handlers'[g] \in {handlers[g], Idle}
                           \/ handlers'[g].call = c
    /\ \A g \in Handlers : handlers'[g].call = c =>
           /\ handlers'[g].session = sessions'[c]
           /\ \A f \in Handlers : handlers'[f].call = c => f = g

OneCallAtATime(c) == Moved(c) /\ Attended(c)

-----------------------------------------------------------------------------
(* Handlers *)

\* A webhook that is answered at once.
LEMMA Unattended ==
    ASSUME NEW c \in Calls, ~busy(c), UNCHANGED handlers
    PROVE  Attended(c)
  BY DEF Attended, busy

\* A webhook that waits with what it saved.
LEMMA Attends ==
    ASSUME TypeOK, NEW c \in Calls, ~busy(c), NEW h \in Handlers, NEW wait, NEW s,
           await(h, wait, c, s), sessions'[c] = s
    PROVE  Attended(c)
  <1> DEFINE held_now == [awaiting |-> wait, call |-> c, session |-> s, attempt |-> 0]
  <1>1. handlers'[h] = held_now /\ \A g \in Handlers \ {h} : handlers'[g] = handlers[g]
    BY DEF await, TypeOK
  <1>2. \A g \in Handlers \ {h} : handlers'[g].call # c
    BY <1>1 DEF busy
  <1>3. QED BY <1>1, <1>2 DEF Attended

\* A handler that returns was the only one on its call.
LEMMA Leaves ==
    ASSUME TypeOK, CopiesAreCurrent, NEW h \in Handlers, handlers[h].call \in Calls, return(h)
    PROVE  Attended(handlers[h].call)
  <1> DEFINE c == handlers[h].call
  <1>1. handlers'[h] = Idle /\ \A g \in Handlers \ {h} : handlers'[g] = handlers[g]
    BY DEF return, TypeOK
  <1>2. handlers[h] # Idle /\ Idle.call # c
    BY CallAssumption DEF Idle
  <1>3. \A g \in Handlers : handlers'[g].call # c
    BY <1>1, <1>2 DEF CopiesAreCurrent
  <1>4. QED BY <1>1, <1>3 DEF Attended

\* A handler that goes on to its next wait keeps what it holds.
LEMMA GoesOn ==
    ASSUME TypeOK, CopiesAreCurrent, NEW h \in Handlers, handlers[h].call \in Calls,
           NEW next, handlers' = [handlers EXCEPT ![h] = next],
           next.call = handlers[h].call, next.session = handlers[h].session,
           UNCHANGED sessions
    PROVE  Attended(handlers[h].call)
  <1> DEFINE c == handlers[h].call
  <1>1. handlers'[h] = next /\ \A g \in Handlers \ {h} : handlers'[g] = handlers[g]
    BY DEF TypeOK
  <1>2. handlers[h] # Idle
    BY CallAssumption DEF Idle
  <1>3. \A g \in Handlers \ {h} : handlers'[g].call # c
    BY <1>1, <1>2 DEF CopiesAreCurrent
  <1>4. next.session = sessions'[c]
    BY <1>2 DEF CopiesAreCurrent
  <1>5. QED BY <1>1, <1>3, <1>4 DEF Attended

-----------------------------------------------------------------------------
(* Sessions *)

\* The fields that say whether an answer was judged.
LEMMA UnjudgedFields ==
    ASSUME NEW s \in Session, NEW t \in Session,
           t.authentication_attempts = s.authentication_attempts,
           \/ t.authentication_status = s.authentication_status
           \/ ~is_terminal(s) /\ ~is_terminal(t),
           s.escalated => t.escalated
    PROVE  Unjudged(s, t)
  BY NoSessionIsNone DEF Unjudged, phase_of, is_authenticated, is_terminal

\* The transitions that judge nothing, of any session,
LEMMA NothingJudged ==
    ASSUME NEW s \in Session
    PROVE  /\ Unjudged(s, s)
           /\ Unjudged(s, with_caller_phone(s))
           /\ \A claim \in Claims : Unjudged(s, with_claim(s, claim))
           /\ \A topic \in Topics : Unjudged(s, with_faq_topic(s, topic))
           /\ \A reason \in EscalationReason : Unjudged(s, with_escalation(s, reason))
           /\ \A outcome \in ConversationOutcome : Unjudged(s, with_outcome(s, outcome))
  <1> DEFINE like(t) == /\ t.authentication_attempts = s.authentication_attempts
                        /\ t.authentication_status = s.authentication_status
                        /\ s.escalated => t.escalated
  <1>1. like(with_caller_phone(s))
    BY DEF Session, with_caller_phone
  <1>2. \A claim : like(with_claim(s, claim))
    BY DEF Session, with_claim
  <1>3. \A topic : like(with_faq_topic(s, topic))
    BY DEF Session, with_faq_topic
  <1>4. \A reason : like(with_escalation(s, reason))
    BY DEF Session, with_escalation
  <1>5. \A outcome : like(with_outcome(s, outcome))
    BY DEF Session, with_outcome
  <1>6. QED BY <1>1, <1>2, <1>3, <1>4, <1>5, UnjudgedFields, TransitionType

\* and those of an open one.
LEMMA StillOpen ==
    ASSUME NEW s \in Session, ~is_terminal(s)
    PROVE  /\ \A customer \in Customers : Unjudged(s, with_customer_found(s, customer))
           /\ Unjudged(s, with_customer_not_found(s))
           /\ Unjudged(s, with_verification_started(s))
           /\ Unjudged(s, with_verification_abandoned(s))
  <1> DEFINE like(t) == /\ t.authentication_attempts = s.authentication_attempts
                        /\ ~is_terminal(t)
                        /\ s.escalated => t.escalated
  <1>1. \A customer : like(with_customer_found(s, customer))
    BY DEF Session, with_customer_found, is_terminal
  <1>2. like(with_customer_not_found(s))
    BY DEF Session, with_customer_not_found, is_terminal
  <1>3. like(with_verification_started(s))
    BY DEF Session, with_verification_started, is_terminal
  <1>4. like(with_verification_abandoned(s))
    BY DEF Session, with_verification_abandoned, is_terminal
  <1>5. QED BY <1>1, <1>2, <1>3, <1>4, UnjudgedFields, TransitionType

\* Two changes that judge nothing are one.
LEMMA UnjudgedTwice ==
    ASSUME NEW s, NEW t, NEW u, Unjudged(s, t), Unjudged(t, u)
    PROVE  Unjudged(s, u)
  BY DEF Unjudged

\* Saving what judges nothing.
LEMMA SaveMoves ==
    ASSUME TypeOK, NEW c \in Calls, NEW s \in Session, save(c, s), Unjudged(get(c), s),
           UNCHANGED wrong
    PROVE  Moved(c)
  <1>1. sessions'[c] = s /\ \A d \in Calls \ {c} : sessions'[d] = sessions[d]
    BY DEF save, TypeOK
  <1>2. QED BY <1>1 DEF Moved, Rewritten, Kept

\* Releasing a session.
LEMMA DiscardMoves ==
    ASSUME TypeOK, NEW c \in Calls, discard(c)
    PROVE  Moved(c)
  BY DEF Moved, Dropped, Kept, discard, TypeOK

\* Saving nothing.
LEMMA KeepMoves ==
    ASSUME NEW c \in Calls, UNCHANGED <<sessions, wrong>>
    PROVE  Moved(c)
  BY DEF Moved, Kept

\* Counting a wrong answer of an open session with an answer left.
LEMMA WrongMoves ==
    ASSUME TypeOK, NEW c \in Calls, live(c), NEW s \in Session, Unjudged(sessions[c], s),
           ~is_terminal(s), answered_wrong(c, s)
    PROVE  Moved(c)
  <1> DEFINE failed == with_verification_failed(s)
  <1>1. failed \in Session
    BY TransitionType
  <1>2. /\ sessions'[c] = failed
        /\ wrong'[c] = wrong[c] + 1
        /\ \A d \in Calls \ {c} : Kept(d)
    BY DEF answered_wrong, save, TypeOK, Kept
  <1>3. phase_of(s) = "open"
    BY NoSessionIsNone DEF phase_of, is_terminal, is_authenticated
  <1>4. /\ failed.authentication_attempts = s.authentication_attempts + 1
        /\ failed.escalated = s.escalated
    BY DEF with_verification_failed, Session
  <1>5. phase_of(failed) = IF failed.authentication_attempts >= MAX_AUTHENTICATION_ATTEMPTS
                           THEN "locked" ELSE "open"
    BY <1>1, <1>4, NoSessionIsNone
       DEF phase_of, is_authenticated, with_verification_failed, Session
  <1>6. Judged(c)
    BY <1>1, <1>2, <1>3, <1>4, <1>5 DEF Judged, Unjudged
  <1>7. QED BY <1>2, <1>6 DEF Moved

\* Confirming the customer of an open session.
LEMMA RightMoves ==
    ASSUME TypeOK, NEW c \in Calls, live(c), ~is_terminal(sessions[c]),
           sessions[c].customer_id \in Customers, UNCHANGED wrong,
           save(c, with_authenticated(sessions[c], sessions[c].customer_id))
    PROVE  Moved(c)
  <1> DEFINE s == sessions[c]
             confirmed == with_authenticated(s, s.customer_id)
  <1>1. s \in Session /\ confirmed \in Session
    BY TransitionType DEF TypeOK, live
  <1>2. sessions'[c] = confirmed /\ \A d \in Calls \ {c} : Kept(d)
    BY DEF save, TypeOK, Kept
  <1>3. /\ confirmed.authentication_attempts = s.authentication_attempts
        /\ confirmed.authentication_status = "AUTHENTICATED"
        /\ confirmed.escalated = s.escalated
    BY <1>1 DEF with_authenticated, Session
  <1>4. phase_of(s) = "open" /\ phase_of(confirmed) = "verified"
    BY <1>1, <1>3, NoSessionIsNone DEF phase_of, is_terminal, is_authenticated
  <1>5. Judged(c)
    BY <1>1, <1>2, <1>3, <1>4 DEF Judged
  <1>6. QED BY <1>2, <1>5 DEF Moved

-----------------------------------------------------------------------------
(* Every action *)

\* What a waiting handler holds is what the store holds.
LEMMA HeldIsStored ==
    ASSUME SerialInductive, NEW h \in Handlers, handlers[h].awaiting \in Waits
    PROVE  /\ handlers[h].call \in Calls
           /\ live(handlers[h].call)
           /\ handlers[h].session = sessions[handlers[h].call]
           /\ handlers[h].session = get(handlers[h].call)
           /\ handlers[h].session \in Session
           /\ Fits(handlers[h])
  <1>1. handlers[h] # Idle
    BY DEF Idle, Waits
  <1>2. handlers[h].session = sessions[handlers[h].call]
    BY <1>1 DEF SerialInductive, CopiesAreCurrent
  <1>3. QED BY <1>2, HeldGrounded, NoSessionIsNone DEF SerialInductive, live, get

\* A start that finds a session leaves it alone.
LEMMA StartCallSerial ==
    ASSUME OneAtATime, SerialInductive, NEW c \in Calls, start_call(c)
    PROVE  OneCallAtATime(c)
  <1>1. TypeOK /\ UNCHANGED <<handlers, wrong>> /\ ~busy(c)
    BY DEF SerialInductive, Inductive, start_call, deliver
  <1>2. Attended(c)
    BY <1>1, Unattended
  <1>3. CASE live(c)
    BY <1>1, <1>2, <1>3, KeepMoves DEF start_call, OneCallAtATime
  <1>4. CASE ~live(c)
    <2>1. NewSession \in Session /\ save(c, NewSession) /\ get(c) = NewSession
      BY <1>4, NewSessionType DEF start_call, get
    <2>2. Moved(c)
      BY <1>1, <2>1, NothingJudged, SaveMoves
    <2>3. QED BY <1>2, <2>2 DEF OneCallAtATime
  <1>5. QED BY <1>3, <1>4

\* A lookup waits with the session it saved.
LEMMA SubmitPhoneSerial ==
    ASSUME OneAtATime, SerialInductive, NEW c \in Calls, NEW h \in Handlers,
           submit_phone(h, c)
    PROVE  OneCallAtATime(c)
  <1> DEFINE s == get(c)
  <1>1. TypeOK /\ UNCHANGED wrong /\ ~busy(c)
    BY DEF SerialInductive, Inductive, submit_phone, deliver
  <1>2. s \in Session
    BY <1>1, GetType
  <1>3. CASE phone_refused(c)
    BY <1>1, <1>2, <1>3, Unattended, NothingJudged, SaveMoves
       DEF phone_refused, OneCallAtATime
  <1>4. CASE phone_not_understood(c)
    BY <1>1, <1>2, <1>4, Unattended, NothingJudged, SaveMoves, TransitionType
       DEF phone_not_understood, OneCallAtATime
  <1>5. CASE lookup_started(h, c)
    <2>1. save(c, s) /\ await(h, "lookup", c, s) /\ sessions'[c] = s
      BY <1>1, <1>5 DEF lookup_started, save, TypeOK
    <2>2. QED BY <1>1, <1>2, <2>1, Attends, NothingJudged, SaveMoves DEF OneCallAtATime
  <1>6. QED BY <1>3, <1>4, <1>5 DEF submit_phone

\* The answer of a lookup judges nothing.
LEMMA LookupAnsweredSerial ==
    ASSUME SerialInductive, NEW h \in Handlers, lookup_answered(h)
    PROVE  OneCallAtATime(handlers[h].call)
  <1> DEFINE c == handlers[h].call
             s == handlers[h].session
             counted == with_caller_phone(s)
  <1>1. TypeOK /\ CopiesAreCurrent /\ UNCHANGED wrong /\ return(h)
    BY DEF SerialInductive, Inductive, lookup_answered, history
  <1>2. c \in Calls /\ s = get(c) /\ s \in Session /\ ~is_terminal(s)
    BY HeldIsStored DEF lookup_answered, Waits, Fits
  <1>3. Attended(c)
    BY <1>1, <1>2, Leaves
  <1>4. counted \in Session /\ ~is_terminal(counted) /\ Unjudged(s, counted)
    BY <1>2, TransitionType, NothingJudged DEF is_terminal, with_caller_phone, Session
  <1>5. Moved(c)
    <2>1. CASE lookup_failed(c, s)
      BY <1>1, <1>2, <2>1, NothingJudged, SaveMoves DEF lookup_failed
    <2>2. CASE lookup_found(c, s)
      <3>1. PICK customer \in Customers : save(c, with_customer_found(counted, customer))
        BY <2>2 DEF lookup_found
      <3>2. Unjudged(s, with_customer_found(counted, customer))
        BY <1>4, StillOpen, UnjudgedTwice
      <3>3. QED BY <1>1, <1>2, <1>4, <3>1, <3>2, SaveMoves, TransitionType
    <2>3. CASE lookup_not_found(c, s)
      <3>1. Unjudged(s, with_customer_not_found(counted))
        BY <1>4, StillOpen, UnjudgedTwice
      <3>2. QED BY <1>1, <1>2, <1>4, <2>3, <3>1, SaveMoves, TransitionType
                DEF lookup_not_found
    <2>4. QED BY <2>1, <2>2, <2>3 DEF lookup_answered
  <1>6. QED BY <1>3, <1>5 DEF OneCallAtATime

\* A verification judges a blank answer, or waits with the session it saved.
LEMMA SubmitVerificationSerial ==
    ASSUME OneAtATime, SerialInductive, NEW c \in Calls, NEW h \in Handlers,
           submit_verification(h, c)
    PROVE  OneCallAtATime(c)
  <1> DEFINE s == get(c)
             started == with_verification_started(s)
  <1>1. TypeOK /\ ~busy(c)
    BY DEF SerialInductive, Inductive, submit_verification, deliver
  <1>2. s \in Session /\ started \in Session
    BY <1>1, GetType, TransitionType
  <1>3. may_verify(s) => /\ live(c) /\ s = sessions[c]
                         /\ Unjudged(s, started) /\ ~is_terminal(started)
    <2> SUFFICES ASSUME may_verify(s)
                 PROVE  /\ live(c) /\ s = sessions[c]
                        /\ Unjudged(s, started) /\ ~is_terminal(started)
      OBVIOUS
    <2>1. s.customer_id # None
      BY DEF may_verify
    <2>2. live(c) /\ s = sessions[c]
      BY <2>1 DEF get, NewSession
    <2>3. Unjudged(s, started)
      BY <1>2, NotRefused, StillOpen
    <2>4. ~is_terminal(started)
      BY <1>2 DEF is_terminal, with_verification_started, Session
    <2>5. QED BY <2>2, <2>3, <2>4
  <1>4. CASE verification_refused(c)
    BY <1>1, <1>2, <1>4, Unattended, NothingJudged, SaveMoves
       DEF verification_refused, OneCallAtATime
  <1>5. CASE blank_answer(c)
    <2>1. answered_wrong(c, started) /\ UNCHANGED handlers /\ may_verify(s)
      BY <1>5 DEF blank_answer
    <2>2. Moved(c)
      BY <1>1, <1>2, <1>3, <2>1, WrongMoves
    <2>3. QED BY <1>1, <2>1, <2>2, Unattended DEF OneCallAtATime
  <1>6. CASE verification_started(h, c)
    <2>1. /\ may_verify(s) /\ UNCHANGED wrong
          /\ save(c, started) /\ await(h, "verify", c, started)
      BY <1>6 DEF verification_started
    <2>2. sessions'[c] = started
      BY <1>1, <2>1 DEF save, TypeOK
    <2>3. Moved(c)
      BY <1>1, <1>2, <1>3, <2>1, SaveMoves
    <2>4. QED BY <1>1, <2>1, <2>2, <2>3, Attends DEF OneCallAtATime
  <1>7. CASE verification_raises(c)
    <2>1. may_verify(s) /\ UNCHANGED <<handlers, wrong>> /\ save(c, started)
      BY <1>7 DEF verification_raises
    <2>2. Moved(c)
      BY <1>1, <1>2, <1>3, <2>1, SaveMoves
    <2>3. QED BY <1>1, <2>1, <2>2, Unattended DEF OneCallAtATime
  <1>8. QED BY <1>4, <1>5, <1>6, <1>7 DEF submit_verification

\* The answer of a verification judges at most one answer, of the session in the store.
LEMMA VerificationAnsweredSerial ==
    ASSUME SerialInductive, NEW h \in Handlers, verification_answered(h)
    PROVE  OneCallAtATime(handlers[h].call)
  <1> DEFINE c == handlers[h].call
             s == handlers[h].session
             abandoned == with_verification_abandoned(s)
  <1>1. TypeOK /\ CopiesAreCurrent /\ return(h)
    BY DEF SerialInductive, Inductive, verification_answered
  <1>2. /\ c \in Calls /\ live(c) /\ s = sessions[c] /\ s = get(c) /\ s \in Session
        /\ ~is_terminal(s) /\ s.customer_id \in Customers
    BY HeldIsStored DEF verification_answered, Waits, Fits, is_terminal
  <1>3. Attended(c)
    BY <1>1, <1>2, Leaves
  <1>4. abandoned \in Session /\ ~is_terminal(abandoned) /\ Unjudged(s, abandoned)
    BY <1>2, TransitionType, StillOpen DEF is_terminal, with_verification_abandoned, Session
  <1>5. Moved(c)
    <2>1. CASE verification_error(c, s)
      BY <1>1, <1>2, <1>4, <2>1, SaveMoves DEF verification_error
    <2>2. CASE record_vanished(c, s)
      <3>1. Unjudged(s, with_customer_not_found(abandoned))
        BY <1>4, StillOpen, UnjudgedTwice
      <3>2. QED BY <1>1, <1>2, <1>4, <2>2, <3>1, SaveMoves, TransitionType
                DEF record_vanished
    <2>3. CASE answered_right(c, s)
      BY <1>1, <1>2, <2>3, RightMoves DEF answered_right
    <2>4. CASE answered_wrong(c, s)
      BY <1>1, <1>2, <2>4, WrongMoves, NothingJudged
    <2>5. CASE comparison_raises
      BY <1>1, <1>2, <2>5, KeepMoves DEF comparison_raises
    <2>6. QED BY <2>1, <2>2, <2>3, <2>4, <2>5 DEF verification_answered
  <1>6. QED BY <1>3, <1>5 DEF OneCallAtATime

\* A claim lookup waits with the stored session: a fresh one is refused.
LEMMA GetClaimStatusSerial ==
    ASSUME OneAtATime, SerialInductive, NEW c \in Calls, NEW h \in Handlers, NEW expected,
           get_claim_status(h, c, expected)
    PROVE  OneCallAtATime(c)
  <1>1. TypeOK /\ UNCHANGED <<sessions, wrong>> /\ ~busy(c)
    BY DEF SerialInductive, Inductive, get_claim_status, deliver
  <1>2. Moved(c)
    BY <1>1, KeepMoves
  <1>3. CASE claim_refused(c, expected)
    BY <1>1, <1>2, <1>3, Unattended DEF claim_refused, OneCallAtATime
  <1>4. CASE claim_lookup_started(h, c, expected)
    <2>1. is_authenticated(get(c)) /\ await(h, "claim", c, get(c))
      BY <1>4 DEF claim_lookup_started, authorised, require_authenticated
    <2>2. get(c) = sessions'[c]
      BY <1>1, <2>1 DEF get, NewSession, is_authenticated
    <2>3. QED BY <1>1, <1>2, <2>1, <2>2, Attends DEF OneCallAtATime
  <1>5. QED BY <1>3, <1>4 DEF get_claim_status

\* The answer of a claim lookup judges nothing.
LEMMA ClaimAnsweredSerial ==
    ASSUME SerialInductive, NEW h \in Handlers, claim_answered(h)
    PROVE  OneCallAtATime(handlers[h].call)
  <1> DEFINE c == handlers[h].call
             s == handlers[h].session
  <1>1. TypeOK /\ CopiesAreCurrent /\ UNCHANGED wrong /\ return(h)
    BY DEF SerialInductive, Inductive, claim_answered
  <1>2. c \in Calls /\ s = get(c) /\ s \in Session
    BY HeldIsStored DEF claim_answered, Waits
  <1>3. Attended(c)
    BY <1>1, <1>2, Leaves
  <1>4. Moved(c)
    <2>1. CASE claim_found(c, s)
      <3>1. PICK claim \in Claims : save(c, with_claim(s, claim))
        BY <2>1 DEF claim_found
      <3>2. QED BY <1>1, <1>2, <3>1, NothingJudged, SaveMoves, TransitionType
    <2>2. CASE claim_unavailable
      BY <1>1, <1>2, <2>2, KeepMoves DEF claim_unavailable
    <2>3. QED BY <2>1, <2>2 DEF claim_answered
  <1>5. QED BY <1>3, <1>4 DEF OneCallAtATime

\* An FAQ answer notes its topic on a session that exists.
LEMMA SearchFaqSerial ==
    ASSUME OneAtATime, SerialInductive, NEW c \in Calls, NEW topic \in Topics,
           search_faq(c, topic)
    PROVE  OneCallAtATime(c)
  <1>1. TypeOK /\ UNCHANGED <<handlers, wrong>> /\ ~busy(c)
    BY DEF SerialInductive, Inductive, search_faq, deliver
  <1>2. Attended(c)
    BY <1>1, Unattended
  <1>3. CASE live(c)
    <2>1. sessions[c] \in Session /\ get(c) = sessions[c]
      BY <1>1, <1>3 DEF TypeOK, live, get
    <2>2. save(c, with_faq_topic(sessions[c], topic))
      BY <1>3 DEF search_faq
    <2>3. Moved(c)
      BY <1>1, <2>1, <2>2, NothingJudged, SaveMoves, TransitionType
    <2>4. QED BY <1>2, <2>3 DEF OneCallAtATime
  <1>4. CASE ~live(c)
    <2>1. UNCHANGED sessions
      BY <1>1, <1>4 DEF search_faq, save, live, TypeOK
    <2>2. QED BY <1>1, <1>2, <2>1, KeepMoves DEF OneCallAtATime
  <1>5. QED BY <1>3, <1>4

\* Both ways to a representative.
LEMMA EscalationSerial ==
    ASSUME SerialInductive, NEW c \in Calls, NEW reason \in EscalationReason,
           request_representative(c, reason), UNCHANGED <<handlers, wrong>>, ~busy(c)
    PROVE  OneCallAtATime(c)
  <1>1. TypeOK
    BY DEF SerialInductive, Inductive
  <1>2. get(c) \in Session /\ save(c, with_escalation(get(c), reason))
    BY <1>1, GetType DEF request_representative
  <1>3. Moved(c)
    BY <1>1, <1>2, NothingJudged, SaveMoves, TransitionType
  <1>4. QED BY <1>3, Unattended DEF OneCallAtATime

\* The end of a call drops the session, or waits with the one it saved.
LEMMA CallEndedSerial ==
    ASSUME OneAtATime, SerialInductive, NEW c \in Calls, NEW h \in Handlers,
           call_ended(h, c)
    PROVE  OneCallAtATime(c)
  <1>1. TypeOK /\ ~busy(c)
    BY DEF SerialInductive, Inductive, call_ended, deliver
  <1>2. CASE end_ignored(c)
    BY <1>1, <1>2, Unattended, KeepMoves DEF end_ignored, OneCallAtATime
  <1>3. CASE end_unfiled(c)
    BY <1>1, <1>3, Unattended, DiscardMoves DEF end_unfiled, OneCallAtATime
  <1>4. CASE end_filing(h, c)
    <2> DEFINE outcome == derive_outcome(sessions[c])
               s == with_outcome(sessions[c], outcome)
    <2>1. live(c) /\ save(c, s) /\ await(h, "sheet_read", c, s) /\ UNCHANGED wrong
      BY <1>4 DEF end_filing
    <2>2. sessions[c] \in Session /\ get(c) = sessions[c] /\ sessions'[c] = s
      BY <1>1, <2>1 DEF TypeOK, live, get, save
    <2>3. outcome \in ConversationOutcome
      BY <2>2, OutcomeType
    <2>4. Moved(c)
      BY <1>1, <2>1, <2>2, <2>3, NothingJudged, SaveMoves, TransitionType
    <2>5. QED BY <1>1, <2>1, <2>2, <2>4, Attends DEF OneCallAtATime
  <1>5. QED BY <1>2, <1>3, <1>4 DEF call_ended

\* A wait for the sheet that leads to another keeps the copy.
LEMMA FilingGoesOn ==
    ASSUME SerialInductive, NEW h \in Handlers, handlers[h].awaiting \in Waits, NEW next,
           handlers' = [handlers EXCEPT ![h] = next],
           next.call = handlers[h].call, next.session = handlers[h].session,
           UNCHANGED <<sessions, wrong>>
    PROVE  OneCallAtATime(handlers[h].call)
  BY HeldIsStored, GoesOn, KeepMoves DEF SerialInductive, Inductive, OneCallAtATime

\* The read of the sheet ends with the session dropped or as it was.
LEMMA SheetReadAnsweredSerial ==
    ASSUME SerialInductive, NEW h \in Handlers, sheet_read_answered(h)
    PROVE  OneCallAtATime(handlers[h].call)
  <1> DEFINE c == handlers[h].call
  <1>1. TypeOK /\ CopiesAreCurrent /\ handlers[h].awaiting \in Waits /\ c \in Calls
    BY HeldIsStored DEF SerialInductive, Inductive, sheet_read_answered, Waits
  <1>2. CASE read_failed(h, c) \/ read_present(h, c)
    BY <1>1, <1>2, Leaves, DiscardMoves DEF read_failed, read_present, OneCallAtATime
  <1>3. CASE read_absent(h, c)
    <2> DEFINE next == [handlers[h] EXCEPT !.awaiting = "sheet_append"]
    <2>1. handlers' = [handlers EXCEPT ![h] = next] /\ UNCHANGED <<sessions, wrong>>
      BY <1>3 DEF read_absent
    <2>2. next.call = c /\ next.session = handlers[h].session
      BY <1>1 DEF TypeOK, Suspended, Idle
    <2>3. QED BY <1>1, <2>1, <2>2, FilingGoesOn
  <1>4. QED BY <1>2, <1>3 DEF sheet_read_answered

\* So does each attempt to append.
LEMMA AppendAnsweredSerial ==
    ASSUME SerialInductive, NEW h \in Handlers, append_answered(h)
    PROVE  OneCallAtATime(handlers[h].call)
  <1> DEFINE c == handlers[h].call
  <1>1. TypeOK /\ CopiesAreCurrent /\ handlers[h].awaiting \in Waits /\ c \in Calls
    BY HeldIsStored DEF SerialInductive, Inductive, append_answered, Waits
  <1>2. CASE append_confirmed(h, c) \/ append_failed(h, c)
    BY <1>1, <1>2, Leaves, DiscardMoves DEF append_confirmed, append_failed, OneCallAtATime
  <1>3. CASE append_retried(h)
    <2> DEFINE next == [handlers[h] EXCEPT !.attempt = @ + 1]
    <2>1. handlers' = [handlers EXCEPT ![h] = next] /\ UNCHANGED <<sessions, wrong>>
      BY <1>3 DEF append_retried
    <2>2. next.call = c /\ next.session = handlers[h].session
      BY <1>1 DEF TypeOK, Suspended, Idle
    <2>3. QED BY <1>1, <2>1, <2>2, FilingGoesOn
  <1>4. QED BY <1>2, <1>3 DEF append_answered

\* A restart, or a step that changes nothing, aside, every step is one of these.
LEMMA NextSerial ==
    ASSUME OneAtATime, SerialInductive, [Next]_vars
    PROVE  \/ \E c \in Calls : OneCallAtATime(c)
           \/ restart
           \/ UNCHANGED vars
  <1>1. CASE \E c \in Calls : delivered(c)
    <2>1. PICK c \in Calls : delivered(c)
      BY <1>1
    <2>2. CASE start_call(c)
      BY <2>2, StartCallSerial
    <2>3. CASE \E topic \in Topics : search_faq(c, topic)
      BY <2>3, SearchFaqSerial
    <2>4. CASE intercept(c)
      BY <2>4, EscalationSerial DEF intercept, deliver, EscalationReason
    <2>5. CASE \E supplied \in Reasons, alarm \in BOOLEAN :
                   representative_requested(c, supplied, alarm)
      <3>1. PICK reason \in EscalationReason :
                /\ request_representative(c, reason)
                /\ UNCHANGED <<handlers, wrong>> /\ ~busy(c)
        BY <2>5 DEF representative_requested, deliver, _coerce_reason, EscalationReason
      <3>2. QED BY <3>1, EscalationSerial
    <2>6. CASE \E h \in Handlers : submit_phone(h, c)
      BY <2>6, SubmitPhoneSerial
    <2>7. CASE \E h \in Handlers : submit_verification(h, c)
      BY <2>7, SubmitVerificationSerial
    <2>8. CASE \E h \in Handlers, expected \in Customers \cup {None} :
                   get_claim_status(h, c, expected)
      BY <2>8, GetClaimStatusSerial
    <2>9. CASE \E h \in Handlers : call_ended(h, c)
      BY <2>9, CallEndedSerial
    <2>10. QED
      BY <2>1, <2>2, <2>3, <2>4, <2>5, <2>6, <2>7, <2>8, <2>9 DEF delivered
  <1>2. CASE \E h \in Handlers : answered(h)
    <2>1. PICK h \in Handlers : answered(h)
      BY <1>2
    <2>2. OneCallAtATime(handlers[h].call)
      BY <2>1, LookupAnsweredSerial, VerificationAnsweredSerial, ClaimAnsweredSerial,
         SheetReadAnsweredSerial, AppendAnsweredSerial DEF answered
    <2>3. handlers[h].call \in Calls
      BY <2>1, HeldIsStored
         DEF answered, Waits, lookup_answered, verification_answered, claim_answered,
             sheet_read_answered, append_answered
    <2>4. QED BY <2>2, <2>3
  <1>3. QED BY <1>1, <1>2 DEF Next

\* Nobody comes to hold anything stale.
LEMMA CopiesStep ==
    ASSUME TypeOK, CopiesAreCurrent, NEW c \in Calls, OneCallAtATime(c)
    PROVE  CopiesAreCurrent'
  <1> SUFFICES ASSUME NEW h \in Handlers, handlers'[h] # Idle
               PROVE  /\ handlers'[h].session = sessions'[handlers'[h].call]
                      /\ \A g \in Handlers : handlers'[g].call = handlers'[h].call => g = h
    BY DEF CopiesAreCurrent
  <1>1. CASE handlers'[h].call = c
    BY <1>1 DEF OneCallAtATime, Attended
  <1>2. CASE handlers'[h].call # c
    <2>1. handlers'[h] = handlers[h] /\ handlers[h] # Idle
      BY <1>2 DEF OneCallAtATime, Attended
    <2>2. handlers[h].call \in Calls \ {c}
      BY <1>2, <2>1 DEF TypeOK, Suspended
    <2>3. handlers'[h].session = sessions'[handlers'[h].call]
      BY <2>1, <2>2
         DEF CopiesAreCurrent, OneCallAtATime, Moved, Kept
    <2>4. ASSUME NEW g \in Handlers, handlers'[g].call = handlers'[h].call PROVE g = h
      <3>1. handlers'[g] = handlers[g]
        BY <1>2, <2>1, <2>2, <2>4, CallAssumption DEF OneCallAtATime, Attended, Idle
      <3>2. QED BY <2>1, <2>4, <3>1 DEF CopiesAreCurrent
    <2>5. QED BY <2>3, <2>4
  <1>3. QED BY <1>1, <1>2

\* The count of a session follows the answers judged.
LEMMA CountsStep ==
    ASSUME TypeOK, CountsExact, NEW c \in Calls, Moved(c)
    PROVE  CountsExact'
  <1> SUFFICES ASSUME NEW d \in Calls
               PROVE  (get(d))'.authentication_attempts = wrong'[d]
    BY DEF CountsExact
  <1>1. CASE Kept(d)
    BY <1>1 DEF Kept, CountsExact, get, live
  <1>2. CASE d = c /\ Dropped(c)
    BY <1>2 DEF Dropped, get, live, NewSession
  <1>3. CASE d = c /\ (Judged(c) \/ Rewritten(c))
    <2>1. (get(c))' = sessions'[c]
      BY <1>3, NoSessionIsNone DEF Judged, Rewritten, get, live
    <2>2. get(c).authentication_attempts = wrong[c]
      BY DEF CountsExact
    <2>3. QED BY <1>3, <2>1, <2>2 DEF Judged, Rewritten, Unjudged, get
  <1>4. QED BY <1>1, <1>2, <1>3 DEF Moved

\* Every step preserves the invariant,
LEMMA SerialStep ==
    ASSUME OneAtATime, SerialInductive, [Next]_vars
    PROVE  SerialInductive'
  <1>1. Inductive'
    BY NextInductive DEF SerialInductive
  <1>2. CopiesAreCurrent' /\ CountsExact'
    <2>1. CASE \E c \in Calls : OneCallAtATime(c)
      BY <2>1, CopiesStep, CountsStep DEF SerialInductive, Inductive, OneCallAtATime
    <2>2. CASE restart
      BY <2>2 DEF restart, CopiesAreCurrent, CountsExact, get, live, NewSession
    <2>3. CASE UNCHANGED vars
      BY <2>3 DEF vars, program, history, SerialInductive, CopiesAreCurrent, CountsExact,
                  get, live
    <2>4. QED BY <2>1, <2>2, <2>3, NextSerial
  <1>3. QED BY <1>1, <1>2 DEF SerialInductive

\* which holds at first,
LEMMA SerialInit == Init => SerialInductive
  BY InitInductive DEF Init, SerialInductive, CopiesAreCurrent, CountsExact, get, live, NewSession

\* and so always.
LEMMA SerialHolds == ASSUME OneAtATime PROVE Spec => []SerialInductive
  <1>1. Init => SerialInductive
    BY SerialInit
  <1>2. SerialInductive /\ [Next]_vars => SerialInductive'
    BY SerialStep
  <1>3. QED BY <1>1, <1>2, PTL DEF Spec

\* One webhook of a call at a time is enough for nothing stale ever to be saved.
THEOREM NothingStale == ASSUME OneAtATime PROVE Spec => []CopiesAreCurrent
  <1>1. SerialInductive => CopiesAreCurrent
    BY DEF SerialInductive
  <1>2. QED BY <1>1, SerialHolds, PTL

\* No wrong answer is lost or charged twice.
THEOREM AttemptsExact == ASSUME OneAtATime PROVE Spec => []AttemptsAreWrongAnswers
  <1>1. SerialInductive => AttemptsAreWrongAnswers
    BY DEF SerialInductive, CountsExact, AttemptsAreWrongAnswers, get
  <1>2. QED BY <1>1, SerialHolds, PTL

-----------------------------------------------------------------------------
(* The budget *)

\* What the budget sees of the calls.
Phases == [c \in Calls |-> phase_of(sessions[c])]

\* The initial state is one of the budget's.
LEMMA BudgetInit == Init => Budget!Init
  BY DEF Init, Budget!Init, phase_of

\* A step on one call is a step of its budget.
LEMMA BudgetStep ==
    ASSUME SerialInductive, SerialInductive', NEW c \in Calls, Moved(c)
    PROVE  [Budget!Next]_Budget!budgetVars
  <1> DEFINE was == phase_of(sessions[c])
             is == phase_of(sessions'[c])
  <1>1. /\ wrong \in [Calls -> Nat] /\ wrong' \in [Calls -> Nat]
        /\ sessions[c] \in Session \cup {None}
    BY DEF SerialInductive, Inductive, TypeOK
  <1>2. Phases' = [Phases EXCEPT ![c] = is] /\ Phases[c] = was
    BY DEF Phases, Moved, Kept
  <1>3. wrong' = [wrong EXCEPT ![c] = wrong'[c]]
    BY <1>1 DEF Moved, Kept
  <1>4. CASE Kept(c)
    BY <1>1, <1>2, <1>3, <1>4 DEF Kept, Phases, Budget!budgetVars
  <1>5. CASE Dropped(c)
    <2>1. is = "none" /\ wrong'[c] = 0
      BY <1>5 DEF Dropped, phase_of
    <2>2. Budget!Close(c)
      BY <1>2, <1>3, <2>1 DEF Budget!Close, Phases
    <2>3. QED BY <2>2 DEF Budget!Next
  <1>6. CASE Judged(c)
    <2>1. CASE wrong'[c] = wrong[c]
      <3>1. is = "verified" /\ was = "open" /\ UNCHANGED wrong
        BY <1>1, <1>3, <1>6, <2>1 DEF Judged
      <3>2. Budget!RightAnswer(c)
        BY <1>2, <3>1 DEF Budget!RightAnswer, Phases
      <3>3. QED BY <3>2 DEF Budget!Next
    <2>2. CASE wrong'[c] = wrong[c] + 1
      <3>1. sessions[c].authentication_attempts = wrong[c]
        BY <1>6 DEF SerialInductive, CountsExact, Judged, get
      <3>2. ~(wrong[c] >= MAX_AUTHENTICATION_ATTEMPTS)
        BY <1>6, <3>1
           DEF SerialInductive, Inductive, SessionsGrounded, Grounded, Judged, phase_of,
               is_authenticated
      <3>3. /\ was = "open"
            /\ is = IF wrong[c] + 1 >= MAX_AUTHENTICATION_ATTEMPTS
                    THEN "locked" ELSE "open"
        BY <1>1, <1>6, <2>2, <3>1 DEF Judged
      <3>4. wrong[c] + 1 >= MAX_AUTHENTICATION_ATTEMPTS
                <=> wrong[c] + 1 = MAX_AUTHENTICATION_ATTEMPTS
        BY <1>1, <3>2, SessionAssumption
      <3>5. wrong' = [wrong EXCEPT ![c] = @ + 1]
        BY <1>1, <1>3, <2>2
      <3>6. Budget!WrongAnswer(c)
        BY <1>2, <3>3, <3>4, <3>5 DEF Budget!WrongAnswer, Phases
      <3>7. QED BY <3>6 DEF Budget!Next
    <2>3. QED BY <1>6, <2>1, <2>2 DEF Judged
  <1>7. CASE Rewritten(c)
    <2>1. UNCHANGED wrong /\ is = phase_of(get(c))
      BY <1>1, <1>3, <1>7 DEF Rewritten, Unjudged
    <2>2. CASE live(c)
      BY <1>2, <2>1, <2>2 DEF get, Phases, Budget!budgetVars
    <2>3. CASE ~live(c)
      <3>1. was = "none" /\ is = "open"
        BY <2>1, <2>3, NewSessionType, NoSessionIsNone
           DEF get, live, phase_of, NewSession, is_authenticated
      <3>2. Budget!Open(c)
        BY <1>2, <2>1, <3>1 DEF Budget!Open, Phases
      <3>3. QED BY <3>2 DEF Budget!Next
    <2>4. QED BY <2>2, <2>3
  <1>8. QED BY <1>4, <1>5, <1>6, <1>7 DEF Moved

\* One webhook of a call at a time, three wrong answers lock a call, and a verified
\* or locked call stays so until it ends.
THEOREM BudgetHolds == ASSUME OneAtATime PROVE Spec => ImplementsBudget
  <1>1. Init => Budget!Init
    BY BudgetInit
  <1>2. SerialInductive /\ SerialInductive' /\ [Next]_vars
            => [Budget!Next]_Budget!budgetVars
    <2> SUFFICES ASSUME SerialInductive, SerialInductive', [Next]_vars
                 PROVE  [Budget!Next]_Budget!budgetVars
      OBVIOUS
    <2>1. CASE \E c \in Calls : OneCallAtATime(c)
      BY <2>1, BudgetStep DEF OneCallAtATime
    <2>2. CASE restart
      <3>1. Budget!Lose
        BY <2>2 DEF restart, Budget!Lose, Budget!Init, phase_of
      <3>2. QED BY <3>1 DEF Budget!Next
    <2>3. CASE UNCHANGED vars
      BY <2>3 DEF vars, program, history, Budget!budgetVars
    <2>4. QED BY <2>1, <2>2, <2>3, NextSerial
  <1>3. QED
    BY <1>1, <1>2, SerialHolds, PTL DEF Spec, ImplementsBudget, Budget!Spec

\* No handler of a call takes back what another has escalated.
THEOREM EscalationStays == ASSUME OneAtATime PROVE Spec => EscalationSticks
  <1> DEFINE Sticks == \A c \in Calls :
                 live(c) /\ sessions[c].escalated /\ (live(c))' => (sessions[c].escalated)'
  <1>1. SerialInductive /\ [Next]_vars => [Sticks]_vars
    <2> SUFFICES ASSUME SerialInductive, [Next]_vars, NEW d \in Calls,
                        live(d), sessions[d].escalated, (live(d))'
                 PROVE  sessions'[d].escalated
      OBVIOUS
    <2>1. CASE \E c \in Calls : OneCallAtATime(c)
      <3>1. PICK c \in Calls : Moved(c)
        BY <2>1 DEF OneCallAtATime
      <3>2. CASE Kept(d)
        BY <3>2 DEF Kept
      <3>3. CASE c = d /\ ~Kept(d)
        BY <3>1, <3>3 DEF Moved, Dropped, Judged, Rewritten, Unjudged, get, live
      <3>4. QED BY <3>1, <3>2, <3>3 DEF Moved
    <2>2. CASE restart
      BY <2>2 DEF restart, live
    <2>3. CASE UNCHANGED vars
      BY <2>3 DEF vars, program
    <2>4. QED BY <2>1, <2>2, <2>3, NextSerial
  <1>2. QED BY <1>1, SerialHolds, PTL DEF Spec, EscalationSticks

-----------------------------------------------------------------------------
(* The rows of a call *)

\* The rows a call may come to have, and those an append may have left behind.
Allowed == IF LostAcks THEN max_retries + 1 ELSE 1

Left(h) == IF LostAcks THEN handlers[h].attempt ELSE 0

\* What makes the bound inductive: a handler appends only for a call that had no row
\* when it began, and nobody else appends for that call.
FilingInductive ==
    /\ \A c \in Calls : Cardinality(rows_of(c)) <= Allowed
    /\ \A h \in Handlers :
           /\ handlers[h].awaiting = "sheet_append" =>
                  Cardinality(rows_of(handlers[h].call)) <= Left(h)
           /\ handlers[h].awaiting = "sheet_read" => handlers[h].attempt = 0

\* The rows of a call can be counted.
LEMMA RowsCount ==
    ASSUME TypeOK, NEW c
    PROVE  IsFiniteSet(rows_of(c)) /\ Cardinality(rows_of(c)) \in Nat
  <1>1. rows_of(c) \subseteq 1..Len(sheet) /\ Len(sheet) \in Nat
    BY DEF rows_of, TypeOK
  <1>2. IsFiniteSet(1..Len(sheet))
    BY <1>1, FS_Interval
  <1>3. QED BY <1>1, <1>2, FS_Subset, FS_CardinalityType

\* A row that lands is one more row of its call, and of no other.
LEMMA RowLands ==
    ASSUME TypeOK, NEW h \in Handlers, NEW c \in Calls, c = handlers[h].call, row_lands(h)
    PROVE  /\ Cardinality(rows_of(c))' = Cardinality(rows_of(c)) + 1
           /\ \A d \in Calls \ {c} : rows_of(d)' = rows_of(d)
  <1> DEFINE last == Len(sheet) + 1
             row == build_record(c, handlers[h].session)
  <1>1. sheet' = Append(sheet, row) /\ sheet \in Seq(InteractionRecord) /\ row.call_id = c
    BY DEF row_lands, TypeOK, build_record
  <1> HIDE DEF row
  <1>2. DOMAIN sheet' = DOMAIN sheet \cup {last} /\ last \notin DOMAIN sheet
    BY <1>1
  <1>3. (\A i \in DOMAIN sheet : sheet'[i] = sheet[i]) /\ sheet'[last] = row
    BY <1>1
  <1> HIDE DEF last
  <1>4. \A d : {i \in DOMAIN sheet' : sheet'[i].call_id = d}
                   = rows_of(d) \cup (IF d = c THEN {last} ELSE {})
    BY <1>1, <1>2, <1>3 DEF rows_of
  <1> DEFINE now == {i \in DOMAIN sheet' : sheet'[i].call_id = c}
  <1>5. now = rows_of(c) \cup {last} /\ last \notin rows_of(c)
    BY <1>2, <1>4 DEF rows_of
  <1>6. Cardinality(now) = Cardinality(rows_of(c)) + 1
    BY <1>5, RowsCount, FS_AddElement
  <1>7. \A d \in Calls \ {c} : {i \in DOMAIN sheet' : sheet'[i].call_id = d} = rows_of(d)
    BY <1>4
  <1>8. QED BY <1>6, <1>7 DEF rows_of

\* A step that appends nothing and begins no append.
LEMMA FilingKept ==
    ASSUME FilingInductive, UNCHANGED sheet,
           \A g \in Handlers :
               \/ handlers'[g] \in {handlers[g], Idle}
               \/ handlers'[g].awaiting # "sheet_append" /\ handlers'[g].attempt = 0
    PROVE  FilingInductive'
  <1>1. \A c \in Calls : (Cardinality(rows_of(c)) <= Allowed)'
    BY DEF FilingInductive, rows_of, Allowed
  <1>2. ASSUME NEW g \in Handlers
        PROVE  /\ handlers'[g].awaiting = "sheet_append" =>
                      Cardinality(rows_of(handlers[g].call))' <= Left(g)'
               /\ handlers'[g].awaiting = "sheet_read" => handlers'[g].attempt = 0
    BY <1>2 DEF FilingInductive, rows_of, Left, Idle
  <1>3. QED BY <1>1, <1>2 DEF FilingInductive

\* A step by which the only handler on a call goes on with its append, or returns.
LEMMA FilingGrows ==
    ASSUME TypeOK, TypeOK', CopiesAreCurrent, FilingInductive,
           NEW h \in Handlers, NEW c \in Calls, c = handlers[h].call,
           \A d \in Calls \ {c} : rows_of(d)' = rows_of(d),
           \A g \in Handlers \ {h} : handlers'[g] = handlers[g],
           handlers'[h].awaiting # "sheet_read",
           handlers'[h].awaiting = "sheet_append" => /\ handlers'[h].call = c
                                                     /\ Cardinality(rows_of(c))' <= Left(h)',
           Cardinality(rows_of(c))' <= Allowed
    PROVE  FilingInductive'
  <1>1. \A d \in Calls : (Cardinality(rows_of(d)) <= Allowed)'
    BY DEF FilingInductive, Allowed
  <1>2. handlers[h] # Idle
    BY CallAssumption DEF Idle
  <1>3. ASSUME NEW g \in Handlers \ {h}, handlers'[g].awaiting \in Waits
        PROVE  /\ handlers'[g].awaiting = "sheet_append" =>
                      Cardinality(rows_of(handlers[g].call))' <= Left(g)'
               /\ handlers'[g].awaiting = "sheet_read" => handlers'[g].attempt = 0
    <2>1. handlers'[g] = handlers[g] /\ handlers[g].awaiting \in Waits
      BY <1>3
    <2>2. handlers[g].call \in Calls
      BY <2>1, SuspendedType
    <2>3. handlers[g].call # c
      BY <1>2 DEF CopiesAreCurrent
    <2>4. rows_of(handlers[g].call)' = rows_of(handlers[g].call)
      BY <2>1, <2>2, <2>3
    <2>5. Left(g)' = Left(g)
      BY <2>1 DEF Left
    <2>6. QED BY <2>1, <2>4, <2>5 DEF FilingInductive
  <1>4. /\ handlers'[h].awaiting = "sheet_append" =>
               Cardinality(rows_of(handlers[h].call))' <= Left(h)'
        /\ handlers'[h].awaiting = "sheet_read" => handlers'[h].attempt = 0
    BY DEF Idle
  <1>5. QED BY <1>1, <1>3, <1>4 DEF FilingInductive, Waits

\* The sheet has answered: the append begins only where there is no row.
LEMMA ReadFiling ==
    ASSUME TypeOK, TypeOK', CopiesAreCurrent, FilingInductive,
           NEW h \in Handlers, NEW c \in Calls, c = handlers[h].call, sheet_read_answered(h)
    PROVE  FilingInductive'
  <1>1. UNCHANGED sheet /\ handlers[h].awaiting = "sheet_read"
    BY DEF sheet_read_answered
  <1>2. CASE return(h)
    BY <1>1, <1>2, FilingKept DEF return, TypeOK
  <1>3. CASE read_absent(h, c)
    <2> DEFINE next == [handlers[h] EXCEPT !.awaiting = "sheet_append"]
    <2>1. /\ handlers[h] \in Suspended /\ handlers[h].attempt = 0
          /\ handlers' = [handlers EXCEPT ![h] = next]
      BY <1>1, <1>3, SuspendedType DEF read_absent, FilingInductive, Waits, TypeOK, Idle
    <2>2. /\ handlers'[h] = next /\ next.awaiting = "sheet_append"
          /\ next.call = c /\ next.attempt = 0
          /\ \A g \in Handlers \ {h} : handlers'[g] = handlers[g]
      BY <2>1 DEF TypeOK, Suspended
    <2>3. rows_of(c) = {} /\ Cardinality({}) = 0
      BY <1>3, FS_EmptySet DEF read_absent, on_file, rows_of
    <2>4. \A d : rows_of(d)' = rows_of(d)
      BY <1>1 DEF rows_of
    <2>5. Cardinality(rows_of(c))' = 0
      BY <2>3, <2>4
    <2>6. Left(h)' = 0 /\ 0 <= Allowed
      BY <2>2, CallAssumption DEF Left, Allowed
    <2>7. Cardinality(rows_of(c))' <= Left(h)' /\ Cardinality(rows_of(c))' <= Allowed
      BY <2>5, <2>6
    <2>8. QED BY <2>2, <2>4, <2>7, FilingGrows
  <1>4. QED BY <1>2, <1>3 DEF sheet_read_answered, read_failed, read_present

\* An attempt has ended: its row is the next of its append, or its last.
LEMMA AppendFiling ==
    ASSUME TypeOK, TypeOK', CopiesAreCurrent, FilingInductive,
           NEW h \in Handlers, NEW c \in Calls, c = handlers[h].call, append_answered(h)
    PROVE  FilingInductive'
  <1> DEFINE attempt == handlers[h].attempt
             rows == Cardinality(rows_of(c))
  <1>1. /\ handlers[h] \in Suspended /\ attempt \in 0..max_retries
        /\ handlers[h].awaiting = "sheet_append"
    BY SuspendedType DEF append_answered, Waits
  <1>2. max_retries \in Nat /\ LostAcks \in BOOLEAN
    BY CallAssumption
  <1>3. rows \in Nat /\ rows <= Left(h)
    BY <1>1, RowsCount DEF FilingInductive
  <1>4. rows <= attempt + 1 /\ attempt + 1 <= max_retries + 1
    BY <1>1, <1>2, <1>3 DEF Left
  <1>5. \/ Cardinality(rows_of(c))' = rows /\ \A d : rows_of(d)' = rows_of(d)
        \/ /\ Cardinality(rows_of(c))' = rows + 1
           /\ \A d \in Calls \ {c} : rows_of(d)' = rows_of(d)
           /\ LostAcks \/ append_confirmed(h, c)
    <2>1. CASE UNCHANGED sheet
      BY <2>1 DEF rows_of
    <2>2. CASE row_lands(h) /\ (LostAcks \/ append_confirmed(h, c))
      BY <2>2, RowLands
    <2>3. QED
      BY <2>1, <2>2 DEF append_answered, append_confirmed, append_retried, append_failed,
                        row_may_land
  <1>6. Cardinality(rows_of(c))' <= Allowed
    BY <1>1, <1>2, <1>3, <1>5 DEF Allowed, Left
  <1>7. \A d \in Calls \ {c} : rows_of(d)' = rows_of(d)
    BY <1>5
  <1>8. CASE append_confirmed(h, c) \/ append_failed(h, c)
    <2>1. handlers'[h] = Idle /\ \A g \in Handlers \ {h} : handlers'[g] = handlers[g]
      BY <1>8 DEF append_confirmed, append_failed, return, TypeOK
    <2>2. handlers'[h].awaiting \notin {"sheet_read", "sheet_append"}
      BY <2>1 DEF Idle
    <2>3. QED BY <1>6, <1>7, <2>1, <2>2, FilingGrows
  <1>9. CASE append_retried(h)
    <2> DEFINE next == [handlers[h] EXCEPT !.attempt = @ + 1]
    <2>1. handlers' = [handlers EXCEPT ![h] = next]
      BY <1>9 DEF append_retried
    <2>2. /\ handlers'[h] = next /\ next.awaiting = "sheet_append"
          /\ next.call = c /\ next.attempt = attempt + 1
          /\ \A g \in Handlers \ {h} : handlers'[g] = handlers[g]
      BY <1>1, <2>1 DEF TypeOK, Suspended
    <2>3. ~append_confirmed(h, c)
      BY <1>1, <2>2 DEF append_confirmed, return, TypeOK, Idle
    <2>4. Cardinality(rows_of(c))' <= Left(h)'
      BY <1>1, <1>2, <1>3, <1>5, <2>2, <2>3 DEF Left
    <2>5. QED BY <1>6, <1>7, <2>2, <2>4, FilingGrows
  <1>10. QED BY <1>8, <1>9 DEF append_answered

\* What neither reads nor writes the sheet leaves its appends alone.
LEMMA ElsewhereFiling ==
    ASSUME TypeOK, FilingInductive,
           \/ \E c \in Calls : delivered(c)
           \/ \E h \in Handlers : \/ lookup_answered(h)
                                  \/ verification_answered(h)
                                  \/ claim_answered(h)
           \/ restart
           \/ UNCHANGED vars
    PROVE  FilingInductive'
  <1>1. CASE \E h \in Handlers, c \in Calls, wait \in Waits \ {"sheet_append"} :
                 \E s : await(h, wait, c, s) /\ UNCHANGED sheet
    BY <1>1, FilingKept DEF await, TypeOK
  <1>2. CASE UNCHANGED sheet /\ \/ UNCHANGED handlers
                                \/ \E h \in Handlers : return(h)
    BY <1>2, FilingKept DEF return, TypeOK
  <1>3. CASE restart
    BY <1>3, FilingKept DEF restart
  <1>4. CASE UNCHANGED vars
    BY <1>2, <1>4 DEF vars, program
  <1>5. CASE \E c \in Calls : delivered(c)
    <2>1. PICK c \in Calls : delivered(c)
      BY <1>5
    <2>2. CASE start_call(c) \/ (\E topic \in Topics : search_faq(c, topic)) \/ intercept(c)
               \/ \E supplied \in Reasons, alarm \in BOOLEAN :
                      representative_requested(c, supplied, alarm)
      BY <1>2, <2>2 DEF start_call, search_faq, intercept, representative_requested
    <2>3. CASE \E h \in Handlers : submit_phone(h, c)
      BY <1>1, <1>2, <2>3
         DEF submit_phone, phone_refused, phone_not_understood, lookup_started, Waits
    <2>4. CASE \E h \in Handlers : submit_verification(h, c)
      BY <1>1, <1>2, <2>4
         DEF submit_verification, verification_refused, blank_answer, verification_raises,
             verification_started, Waits
    <2>5. CASE \E h \in Handlers, expected \in Customers \cup {None} :
                   get_claim_status(h, c, expected)
      BY <1>1, <1>2, <2>5 DEF get_claim_status, claim_refused, claim_lookup_started, Waits
    <2>6. CASE \E h \in Handlers : call_ended(h, c)
      BY <1>1, <1>2, <2>6 DEF call_ended, end_ignored, end_unfiled, end_filing, Waits
    <2>7. QED BY <2>1, <2>2, <2>3, <2>4, <2>5, <2>6 DEF delivered
  <1>6. CASE \E h \in Handlers : \/ lookup_answered(h)
                                \/ verification_answered(h)
                                \/ claim_answered(h)
    BY <1>2, <1>6 DEF lookup_answered, verification_answered, claim_answered
  <1>7. QED BY <1>3, <1>4, <1>5, <1>6

\* Every step preserves the bound on the rows,
LEMMA FilingStep ==
    ASSUME OneAtATime, SerialInductive, FilingInductive, [Next]_vars
    PROVE  FilingInductive'
  <1>1. TypeOK /\ TypeOK' /\ CopiesAreCurrent
    BY SerialStep DEF SerialInductive, Inductive
  <1>2. CASE \E h \in Handlers : sheet_read_answered(h)
    <2>1. PICK h \in Handlers : sheet_read_answered(h) /\ handlers[h].call \in Calls
      BY <1>1, <1>2, SuspendedType DEF sheet_read_answered, Waits
    <2>2. QED BY <1>1, <2>1, ReadFiling
  <1>3. CASE \E h \in Handlers : append_answered(h)
    <2>1. PICK h \in Handlers : append_answered(h) /\ handlers[h].call \in Calls
      BY <1>1, <1>3, SuspendedType DEF append_answered, Waits
    <2>2. QED BY <1>1, <2>1, AppendFiling
  <1>4. QED BY <1>1, <1>2, <1>3, ElsewhereFiling DEF Next, answered

\* which holds at first, and so always.
LEMMA FilingHolds == ASSUME OneAtATime PROVE Spec => []FilingInductive
  <1>1. Init => FilingInductive
    <2> SUFFICES ASSUME Init PROVE FilingInductive
      OBVIOUS
    <2>1. \A c : rows_of(c) = {}
      BY DEF Init, rows_of
    <2>2. \A c : Cardinality(rows_of(c)) = 0
      BY <2>1, FS_EmptySet
    <2>3. QED BY <2>2, CallAssumption DEF Init, FilingInductive, Allowed, Idle
  <1>2. SerialInductive /\ FilingInductive /\ [Next]_vars => FilingInductive'
    BY FilingStep
  <1>3. QED BY <1>1, <1>2, SerialHolds, PTL DEF Spec

\* However acknowledgements are lost, the rows of a call are those of one append.
THEOREM RowsBounded == ASSUME OneAtATime PROVE Spec => []RowsWithinRetries
  <1>1. TypeOK /\ FilingInductive => RowsWithinRetries
    BY CallAssumption, RowsCount DEF FilingInductive, RowsWithinRetries, Allowed
  <1>2. QED BY <1>1, TypeCorrect, FilingHolds, PTL

\* Where acknowledgements arrive, a call has one row, across restarts, evictions from
\* the guard and any number of ends.
THEOREM OneRow == ASSUME OneAtATime, ~LostAcks PROVE Spec => []OneRowPerCall
  <1>1. FilingInductive => OneRowPerCall
    BY DEF FilingInductive, OneRowPerCall, Allowed
  <1>2. QED BY <1>1, FilingHolds, PTL

=============================================================================
