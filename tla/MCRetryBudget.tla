---------------------------- MODULE MCRetryBudget ----------------------------
(***************************************************************************)
(* Small instances of RetryBudget for TLC.                                 *)
(***************************************************************************)
EXTENDS RetryBudget
=============================================================================
