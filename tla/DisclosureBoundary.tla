------------------------- MODULE DisclosureBoundary -------------------------
(***************************************************************************)
(* What the authorization boundary promises: nothing about a claim leaves  *)
(* the system, on the phone or into the interaction log, before the        *)
(* customer it belongs to was verified upstream on that very call.         *)
(***************************************************************************)
CONSTANTS Calls, Customers, Claims, owner

VARIABLES
    proved,         \* customers verified on each call
    disclosed,      \* claims read out on each call
    filed           \* <<call, customer>> of the rows that say "authenticated"

boundaryVars == <<proved, disclosed, filed>>

Init ==
    /\ proved = [c \in Calls |-> {}]
    /\ disclosed = [c \in Calls |-> {}]
    /\ filed = {}

Prove(c, customer) ==
    /\ proved' = [proved EXCEPT ![c] = @ \cup {customer}]
    /\ UNCHANGED <<disclosed, filed>>

Disclose(c, claim) ==
    /\ owner[claim] \in proved[c]
    /\ disclosed' = [disclosed EXCEPT ![c] = @ \cup {claim}]
    /\ UNCHANGED <<proved, filed>>

File(c, customer) ==
    /\ customer \in proved[c]
    /\ filed' = filed \cup {<<c, customer>>}
    /\ UNCHANGED <<proved, disclosed>>

Next ==
    \E c \in Calls :
        \/ \E customer \in Customers : Prove(c, customer) \/ File(c, customer)
        \/ \E claim \in Claims : Disclose(c, claim)

Spec == Init /\ [][Next]_boundaryVars

=============================================================================
