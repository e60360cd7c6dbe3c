------------------------------ MODULE MCServer ------------------------------
(* Small instances of Server for TLC. *)
EXTENDS Server

CONSTANTS r1, r2, oracle

MCRequests == {r1, r2}
MCCheckers == {oracle}
MCFindings == {"None"}

MCDefault == <<1, 2>>
MCRelaxed == <<4, 8>>

\* Everything in place; the nodes down at start-up, no key file and the gRPC port
\* taken; a bad key file; the REST port taken; a gRPC port that is no number.
MCEnvironments ==
    {[rpc |-> "up", key |-> "valid", db |-> "up", rest |-> "free", grpc |-> "free"],
     [rpc |-> "down", key |-> "unset", db |-> "up", rest |-> "free", grpc |-> "taken"],
     [rpc |-> "up", key |-> "invalid", db |-> "up", rest |-> "free", grpc |-> "free"],
     [rpc |-> "up", key |-> "valid", db |-> "up", rest |-> "taken", grpc |-> "free"],
     [rpc |-> "up", key |-> "valid", db |-> "up", rest |-> "free", grpc |-> "unparseable"]}

\* Dev mode: no RPC keys.
MCDevRequests == {r1}
MCDevEnvironments ==
    {[rpc |-> "unset", key |-> "unset", db |-> "up", rest |-> "free", grpc |-> "free"]}
=============================================================================
