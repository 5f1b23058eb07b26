-------------------------- MODULE MCReadinessCache --------------------------
(* An instance of ReadinessCache for TLC. *)
EXTENDS ReadinessCache

\* No cache, one that a slow check outlasts, and one that it does not.
MCTtls == {0, 2, 4}
=============================================================================
