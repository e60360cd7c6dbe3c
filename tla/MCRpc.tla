-------------------------------- MODULE MCRpc --------------------------------
(* Small instances of RpcManager for TLC. *)
EXTENDS RpcManager, TLC

CONSTANTS c1, c2, c3

MCCallers == {c1, c2, c3}
MCTwoCallers == {c1, c2}

\* Callers differ in nothing but their name.
Symmetry == Permutations(MCCallers)
=============================================================================
