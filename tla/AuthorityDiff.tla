---------------------------- MODULE AuthorityDiff ----------------------------
(***************************************************************************)
(* The Authority Diff checker                                              *)
(* (crates/ciel-checkers/src/authority_diff.rs): which calls of the graph  *)
(* change an authority, how severe each one is, and what an intent that    *)
(* mentions the change may take off.                                       *)
(***************************************************************************)
EXTENDS Integers, Sequences

Codes == {"SPL_SET_AUTHORITY_IN_CPI", "SPL_CLOSE_ACCOUNT_IN_CPI", "SPL_INIT_ACCOUNT_IN_CPI",
          "BPF_UPGRADE_IN_CPI", "BPF_SET_AUTHORITY_IN_CPI", "BPF_CLOSE_IN_CPI",
          "MULTISIG_ADMIN_HANDOFF_CANDIDATE"}

NoFlag == "none"

\* ProgramRegistry::with_mainnet_defaults.
KnownProtocols == {"SPL_TOKEN", "SPL_TOKEN_2022", "BPF_LOADER_UPGRADEABLE", "DRIFT_V2",
                   "RAYDIUM_AMM_V4", "JUPITER_V6", "ORCA_WHIRLPOOL", "SQUADS_V4"}

Accounts(call) == {call.accounts[i] : i \in DOMAIN call.accounts}

match_spl_token(call) ==
    CASE call.op = "SetAuthority" -> "SPL_SET_AUTHORITY_IN_CPI"
      [] call.op = "CloseAccount" -> "SPL_CLOSE_ACCOUNT_IN_CPI"
      [] call.op \in {"InitializeAccount", "InitializeAccount2", "InitializeAccount3"} ->
           "SPL_INIT_ACCOUNT_IN_CPI"
      [] OTHER -> NoFlag

match_bpf_loader(call) ==
    CASE call.op = "Upgrade" -> "BPF_UPGRADE_IN_CPI"
      [] call.op \in {"SetAuthority", "SetAuthorityChecked"} -> "BPF_SET_AUTHORITY_IN_CPI"
      [] call.op = "Close" -> "BPF_CLOSE_IN_CPI"
      [] OTHER -> NoFlag

match_squads_proxy(call) ==
    IF (Accounts(call) \ {"SQUADS_V4"}) \cap KnownProtocols # {}
    THEN "MULTISIG_ADMIN_HANDOFF_CANDIDATE" ELSE NoFlag

match_call(call) ==
    CASE call.program \in {"SPL_TOKEN", "SPL_TOKEN_2022"} -> match_spl_token(call)
      [] call.program = "BPF_LOADER_UPGRADEABLE" -> match_bpf_loader(call)
      [] call.program = "SQUADS_V4" -> match_squads_proxy(call)
      [] OTHER -> NoFlag

flag_severity(code) ==
    CASE code = "SPL_SET_AUTHORITY_IN_CPI" -> "High"
      [] code = "SPL_CLOSE_ACCOUNT_IN_CPI" -> "Medium"
      [] code = "SPL_INIT_ACCOUNT_IN_CPI" -> "Low"
      [] code = "BPF_UPGRADE_IN_CPI" -> "Critical"
      [] code = "BPF_SET_AUTHORITY_IN_CPI" -> "High"
      [] code = "BPF_CLOSE_IN_CPI" -> "High"
      [] code = "MULTISIG_ADMIN_HANDOFF_CANDIDATE" -> "Medium"
      [] OTHER -> "Low"

lookup_known_protocol_in_call(call) == Accounts(call) \cap KnownProtocols # {}

Levels == {"None", "Low", "Medium", "High", "Critical"}

severity_u8 == [None |-> 0, Low |-> 1, Medium |-> 2, High |-> 3, Critical |-> 4]

severity_from_u8 == [n \in 0..4 |-> CHOOSE s \in Levels : severity_u8[s] = n]

\* One level up or down, clamped to the scale.
shift_severity(s, delta) ==
    LET n == severity_u8[s] + delta
    IN  severity_from_u8[IF n < 0 THEN 0 ELSE IF n > 4 THEN 4 ELSE n]

shift_severity_with_floor(s, delta, floor) ==
    IF severity_u8[shift_severity(s, delta)] < severity_u8[floor]
    THEN floor ELSE shift_severity(s, delta)

modulate_by_stack_height(s, height) ==
    IF height <= 1 THEN shift_severity_with_floor(s, -1, "Low")
    ELSE IF height = 2 THEN s
    ELSE shift_severity(s, 1)

\* The severity a matched call gets in the loop over the graph.
CallSeverity(call, height, nonce) ==
    LET base == IF lookup_known_protocol_in_call(call)
                THEN "Critical" ELSE flag_severity(match_call(call))
        modulated == modulate_by_stack_height(base, height)
    IN  IF nonce THEN shift_severity(modulated, 1) ELSE modulated

\* A keyword acknowledges a flag when all its words occur in the intent.
keywords_for(code) ==
    CASE code \in {"SPL_SET_AUTHORITY_IN_CPI", "BPF_SET_AUTHORITY_IN_CPI"} ->
           {{"set", "authority"}, {"setauthority"}, {"authority", "change"},
            {"transfer", "authority"}, {"update", "admin"}, {"updateadmin"},
            {"rotate", "authority"}, {"change", "authority"}}
      [] code = "BPF_UPGRADE_IN_CPI" -> {{"upgrade"}, {"deploy"}, {"redeploy"}}
      [] code \in {"SPL_CLOSE_ACCOUNT_IN_CPI", "BPF_CLOSE_IN_CPI"} ->
           {{"close", "account"}, {"close"}}
      [] code = "SPL_INIT_ACCOUNT_IN_CPI" ->
           {{"initialize"}, {"init", "account"}, {"create", "account"}}
      [] code = "MULTISIG_ADMIN_HANDOFF_CANDIDATE" ->
           {{"multisig"}, {"squads"}, {"governance", "proposal"}}
      [] OTHER -> {}

\* intent is the set of words of the description and the constraints; a request
\* without an intent acknowledges nothing, like one without words.
intent_acknowledges(intent, code) == \E kw \in keywords_for(code) : kw \subseteq intent

\* Mutant: an acknowledged flag keeps no floor for known protocols.
AcknowledgedUnfloored(call, s) == shift_severity_with_floor(s, -1, "Low")

\* The intent acknowledgement pass, on one flag.
Acknowledged(call, s) ==
    shift_severity_with_floor(s, -1, IF lookup_known_protocol_in_call(call)
                                     THEN "High" ELSE "Low")

\* The final severity of a matched call.
FlagSeverity(call, height, nonce, intent) ==
    LET s == CallSeverity(call, height, nonce)
    IN  IF intent_acknowledges(intent, match_call(call)) THEN Acknowledged(call, s) ELSE s

\* has_durable_nonce_precursor: the first instruction advances a durable nonce.
has_durable_nonce_precursor(instructions) ==
    /\ instructions # <<>>
    /\ instructions[1].program = "SYSTEM"
    /\ instructions[1].op = "AdvanceNonceAccount"

\* Mutant: the severity of the last flag instead of the highest.
authority_check_last(graph, instructions, intent) ==
    LET nonce   == has_durable_nonce_precursor(instructions)
        flagged == {i \in DOMAIN graph : match_call(graph[i].call) # NoFlag}
        last    == CHOOSE i \in flagged : \A j \in flagged : j <= i
    IN  [passed   |-> flagged = {},
         severity |-> IF flagged = {} THEN "None"
                      ELSE FlagSeverity(graph[last].call, graph[last].height, nonce, intent)]

\* check: one flag per matched call, the severity is the highest of them.
authority_check(graph, instructions, intent) ==
    LET nonce   == has_durable_nonce_precursor(instructions)
        flagged == {n \in {graph[i] : i \in DOMAIN graph} : match_call(n.call) # NoFlag}
        levels  == {severity_u8[FlagSeverity(n.call, n.height, nonce, intent)] : n \in flagged}
    IN  [passed   |-> flagged = {},
         severity |-> IF flagged = {} THEN "None"
                      ELSE severity_from_u8[CHOOSE n \in levels : \A k \in levels : k <= n]]
=============================================================================
