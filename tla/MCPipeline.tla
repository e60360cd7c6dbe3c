----------------------------- MODULE MCPipeline -----------------------------
(* Small instances of VerdictPipeline for TLC. *)
EXTENDS VerdictPipeline, TLC

CONSTANTS r1, r2, oracle, authority

MCRequests == {r1, r2}
MCCheckers == {oracle, authority}
MCFindings == {"None", "High", "Critical"}

\* Requests differ in nothing but their name.
Symmetry == Permutations(MCRequests)
=============================================================================
