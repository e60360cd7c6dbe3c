------------------------------ MODULE MCOutcome ------------------------------
(* Small instances of OutcomeCapture for TLC. *)
EXTENDS OutcomeCapture, TLC

CONSTANTS v1, v2

MCRows == {v1, v2}

\* Rows differ in nothing but their name.
Symmetry == Permutations(MCRows)
=============================================================================
