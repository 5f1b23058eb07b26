--------------------------- MODULE MCCallHandling ---------------------------
(***************************************************************************)
(* Small instances of CallHandling for TLC.                                *)
(***************************************************************************)
EXTENDS CallHandling

CONSTANTS alice, bob, claimA, claimB, h1, h2

\* Each customer owns one claim.
ClaimOwners == (claimA :> alice) @@ (claimB :> bob)

ConversationEvents == {"start", "lookup", "verify", "claim", "faq", "representative", "end"}
VerificationEvents == {"lookup", "verify"}
DisclosureEvents == {"lookup", "verify", "claim", "faq", "end"}
FilingEvents == {"start", "emergency", "end", "restart"}
LifecycleEvents == {"start", "lookup", "end"}
EscalationEvents == {"representative", "end"}
=============================================================================
