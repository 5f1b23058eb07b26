------------------------- MODULE VerificationBudget -------------------------
(***************************************************************************)
(* What the verification promises about one call, whatever its tools and   *)
(* their upstream do: every wrong answer counts, the last one of the       *)
(* budget locks the call, and neither a verified nor a locked call ever    *)
(* changes again before it ends (models/enums.py: both are terminal).      *)
(***************************************************************************)
EXTENDS Naturals

CONSTANTS Calls, Budget

VARIABLES
    phase,      \* of each call: "none", "open", "verified" or "locked"
    wrong       \* wrong answers judged since the call was opened

budgetVars == <<phase, wrong>>

Init ==
    /\ phase = [c \in Calls |-> "none"]
    /\ wrong = [c \in Calls |-> 0]

Open(c) ==
    /\ phase[c] = "none"
    /\ phase' = [phase EXCEPT ![c] = "open"]
    /\ UNCHANGED wrong

WrongAnswer(c) ==
    /\ phase[c] = "open"
    /\ wrong' = [wrong EXCEPT ![c] = @ + 1]
    /\ phase' = [phase EXCEPT ![c] =
                     IF wrong[c] + 1 = Budget THEN "locked" ELSE "open"]

RightAnswer(c) ==
    /\ phase[c] = "open"
    /\ phase' = [phase EXCEPT ![c] = "verified"]
    /\ UNCHANGED wrong

\* The call ends, and its session with it.
Close(c) ==
    /\ phase' = [phase EXCEPT ![c] = "none"]
    /\ wrong' = [wrong EXCEPT ![c] = 0]

\* The process restarts and every session is lost.
Lose == Init'

Next ==
    \/ \E c \in Calls : Open(c) \/ WrongAnswer(c) \/ RightAnswer(c) \/ Close(c)
    \/ Lose

Spec == Init /\ [][Next]_budgetVars

=============================================================================
