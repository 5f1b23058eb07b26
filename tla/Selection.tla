------------------------------ MODULE Selection ------------------------------
(***************************************************************************)
(* The members of a sequence that a comprehension or a substitution keeps. *)
(* SelectSeq says the same of a test that is an operator; the provers know *)
(* nothing of it, and no lemma can be cited for every test.                *)
(***************************************************************************)
EXTENDS Naturals, Sequences

\* [x for x in s if x in A]
only(s, A) ==
    LET kept[n \in 0..Len(s)] ==
            IF n = 0 THEN <<>>
            ELSE IF s[n] \in A THEN Append(kept[n - 1], s[n]) ELSE kept[n - 1]
    IN  kept[Len(s)]

=============================================================================
