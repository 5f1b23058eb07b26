----------------------------- MODULE MCSheetsClient -----------------------------
(* Two calls of the Interactions client that share an access token.        *)
EXTENDS SheetsClient

CONSTANTS t1, t2

=============================================================================
