---------------------------- MODULE MCTraceChecks ----------------------------
(* Small instances of TraceChecks for TLC. *)
EXTENDS TraceChecks

MCKeys == {"payer", "bob", "vault", "mint", "stranger", "SOL_SB", "SOL_PYTH", "DRIFT_V2",
           "SQUADS_V4", "SPL_TOKEN"}
MCKeyOrder == <<"payer", "vault", "SOL_PYTH", "stranger", "bob", "mint", "SOL_SB", "SYSTEM",
                "SPL_TOKEN", "SPL_TOKEN_2022", "BPF_LOADER_UPGRADEABLE", "SQUADS_V4",
                "DRIFT_V2", "JUPITER_V6", "SWITCHBOARD_V2", "PYTH", "OTHER">>
MCSources == {"vault"}

Call(p, o, a, u) == [program |-> p, op |-> o, accounts |-> a, unlimited |-> u]

\* Approvals and revocations, and the programs that can issue them.
MCApprovals ==
    {Call("SPL_TOKEN", "Approve", <<"vault", "stranger">>, TRUE),
     Call("SPL_TOKEN", "Approve", <<"vault", "stranger">>, FALSE),
     Call("SPL_TOKEN", "Approve", <<"vault", "DRIFT_V2">>, TRUE),
     Call("SPL_TOKEN_2022", "ApproveChecked", <<"vault", "mint", "stranger">>, TRUE),
     Call("SPL_TOKEN", "Revoke", <<"vault">>, FALSE)}

\* Authority changes of every kind, with and without a known protocol.
MCChanges ==
    {Call("SPL_TOKEN", "SetAuthority", <<"vault">>, FALSE),
     Call("SPL_TOKEN_2022", "SetAuthority", <<"vault", "DRIFT_V2">>, FALSE),
     Call("SPL_TOKEN", "CloseAccount", <<"vault">>, FALSE),
     Call("BPF_LOADER_UPGRADEABLE", "Upgrade", <<"stranger">>, FALSE),
     Call("BPF_LOADER_UPGRADEABLE", "Close", <<"DRIFT_V2">>, FALSE),
     Call("SQUADS_V4", "VaultTransactionExecute", <<"SQUADS_V4", "DRIFT_V2">>, FALSE)}

MCCarriers ==
    {Call("OTHER", "Any", <<"vault">>, FALSE),
     Call("SQUADS_V4", "VaultTransactionExecute", <<"SQUADS_V4">>, FALSE),
     Call("SYSTEM", "Transfer", <<"payer", "bob">>, FALSE),
     Call("SYSTEM", "AdvanceNonceAccount", <<"stranger">>, FALSE)}

\* Oracle calls; the second one also names an account that is no feed.
MCOracles ==
    {Call("SWITCHBOARD_V2", "Read", <<"SOL_SB">>, FALSE),
     Call("PYTH", "Read", <<"SOL_PYTH", "stranger">>, FALSE)}

MCInstructions == MCApprovals \cup MCChanges \cup MCCarriers \cup MCOracles

\* bob's account does not exist yet.
MCPreState == [k \in {"payer", "vault", "mint"} |-> IF k = "payer" THEN 5000 ELSE 10]

\* Scaled down: 1 SOL is 1000 lamports and the fee is one of them, 0.0001 SOL is less
\* than half a lamport and 1e6 SOL more than i128::MAX.
MCRegistry == [SOL |-> [mint |-> "WSOL", decimals |-> 3],
               USDC |-> [mint |-> "USDC", decimals |-> 2]]
MCParsedAmounts == [w \in {"2", "0.0001", "1e6"} |->
                       CASE w = "2" -> [num |-> 2, den |-> 1]
                         [] w = "0.0001" -> [num |-> 1, den |-> 10000]
                         [] w = "1e6" -> [num |-> 1000000, den |-> 1]]
MCI128_MAX == 2^29 - 1

\* Feed accounts: prices in cents, the Switchboard ones with two and the Pyth ones with
\* three decimals; the reference time is 100.
Aggregator(price, std_dev, timestamp) ==
    [owner |-> "SWITCHBOARD_V2", len |-> 3851, header |-> "Aggregator", timestamp |-> timestamp,
     result |-> [mantissa |-> price, scale |-> 2],
     std_deviation |-> [mantissa |-> std_dev, scale |-> 2]]
PythPrice(header, price, conf, timestamp) ==
    [owner |-> "PYTH", len |-> 3312, header |-> header, timestamp |-> timestamp,
     price |-> 10 * price, conf |-> 10 * conf, expo |-> -3]

Feeds(sb, pyth) == [accounts |-> [SOL_SB |-> sb, SOL_PYTH |-> pyth], now |-> 100]

\* Agreement; deviations of exactly and of more than three sigma either way, by a
\* narrow and a wide feed; zero confidence; stale, future and unparsable feeds.
MCFeedStates ==
    {Feeds(Aggregator(8000, 10, 95), PythPrice("Price", 8010, 5, 98)),
     Feeds(Aggregator(8000, 10, 95), PythPrice("Price", 8030, 5, 98)),
     Feeds(Aggregator(8000, 10, 95), PythPrice("Price", 8031, 5, 98)),
     Feeds(Aggregator(8090, 10, 70), PythPrice("Price", 8000, 29, 69)),
     Feeds(Aggregator(8000, 500, 95), PythPrice("Price", 8200, 20, 120)),
     Feeds(Aggregator(8000, 0, 95), PythPrice("Price", 9000, 0, 98)),
     Feeds(Aggregator(8000, 10, 95), PythPrice("Product", 9000, 10, 98))}

Says(description) == {[description |-> description, spec |-> {}]}
Specifies(spec) == {[description |-> <<"upgrade">>, spec |-> {spec}]}

MCIntents ==
    {{},
     Says(<<"upgrade", "set", "authority", "close", "multisig">>),
     Says(<<"send", "2", "SOL", "to", "bob">>),
     Says(<<"swap", "2", "USDC", "for", "SOL">>),
     Says(<<"deposit", "2", "BONK", "into", "squads">>),
     Says(<<"send", "0.0001", "SOL", "to", "bob">>),
     Says(<<"deposit", "1e6", "SOL", "into", "squads">>),
     Specifies([kind |-> "Deposit", amount |-> 2000, mint |-> "WSOL"])}
=============================================================================
