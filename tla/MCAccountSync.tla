---------------------------- MODULE MCAccountSync ----------------------------
(* A small instance of AccountSync for TLC: a pool the configuration names, which *)
(* transactions touch and blocks may close, and a monitored user account.         *)
EXTENDS AccountSync

Block(p, u) == [k \in Keys |-> IF k = "pool" THEN p ELSE u]

MCBlocks == {Block("changed", "same"), Block("closed", "same"),
             Block("same", "changed"), Block("changed", "changed")}
=============================================================================
