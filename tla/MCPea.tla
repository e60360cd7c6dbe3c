-------------------------------- MODULE MCPea --------------------------------
(* Small instances of PeaExchange for TLC. *)
EXTENDS PeaExchange

MCJudged == {[verdict |-> "BLOCK", score |-> 0], [verdict |-> "APPROVE", score |-> 10000]}
MCOneJudged == {[verdict |-> "BLOCK", score |-> 0]}
=============================================================================
