----------------------------- MODULE IntentDiff -----------------------------
(***************************************************************************)
(* The Intent Diff checker and its rules engine                            *)
(* (crates/ciel-checkers/src/intent_diff.rs, intent_rules.rs): does the    *)
(* change of balances in the trace match what the user said?               *)
(*                                                                         *)
(* A goal is the sequence of words of the description; a specification is  *)
(* a record [kind, amount, mint, mint_out, min_out] in raw units.  A word  *)
(* can stand for any positive fraction num/den of tokens.                  *)
(***************************************************************************)
EXTENDS Integers, Sequences, FiniteSetsExt

CONSTANTS TOKEN_REGISTRY,   \* symbol -> [mint, decimals]
          ParsedAmounts,    \* word -> [num, den]: the positive amount f64::from_str reads
          I128_MAX          \* i128::MAX

ASSUME RegistryAssumption ==
    /\ \A s \in DOMAIN TOKEN_REGISTRY : 10^(TOKEN_REGISTRY[s].decimals) \in Nat \ {0}
    /\ ParsedAmounts \in [DOMAIN ParsedAmounts -> [num : Nat \ {0}, den : Nat \ {0}]]
    /\ I128_MAX \in Nat

SWAP_TOLERANCE_BPS == 100
TRANSFER_TOLERANCE_BPS == 10
DEPOSIT_TOLERANCE_BPS == 100

Unrecognized == [kind |-> "Unrecognized"]

\* <<verb, amount, token, preposition, rest...>>, with one word of rest for a
\* swap and any number for the others.
ParsePattern(tokens, kind, preposition) ==
    IF /\ IF kind = "Swap" THEN Len(tokens) = 5 ELSE Len(tokens) >= 5
       /\ tokens[4] = preposition
       /\ tokens[2] \in DOMAIN ParsedAmounts
    THEN [kind |-> kind, amount |-> ParsedAmounts[tokens[2]],
          token |-> tokens[3], rest |-> tokens[5]]
    ELSE Unrecognized

parse_intent_goal(tokens) ==
    IF tokens = <<>> THEN Unrecognized
    ELSE CASE tokens[1] = "swap" -> ParsePattern(tokens, "Swap", "for")
           [] tokens[1] \in {"transfer", "send"} -> ParsePattern(tokens, "Transfer", "to")
           [] tokens[1] = "deposit" -> ParsePattern(tokens, "Deposit", "into")
           [] OTHER -> Unrecognized

\* (amount * 10^decimals).round() as i128: less than half a raw unit is 0 and the cast
\* saturates.  The relative error of the f64 product, 2^-53, is left out.
to_raw_units(amount, decimals) ==
    LET raw == (2 * amount.num * 10^decimals + amount.den) \div (2 * amount.den)
    IN  IF raw > I128_MAX THEN I128_MAX ELSE raw

AbsOf(n) == IF n < 0 THEN -n ELSE n

\* i128 arithmetic: + - and abs() wrap in a release build, saturating_mul does not.
WrapI128(n) == ((n + I128_MAX + 1) % (2 * (I128_MAX + 1))) - (I128_MAX + 1)

saturating_mul(a, b) ==
    IF a > I128_MAX \div b THEN I128_MAX
    ELSE IF a < -(I128_MAX \div b) THEN -I128_MAX - 1
    ELSE a * b

Distance(actual, expected) == WrapI128(AbsOf(WrapI128(actual - expected)))

\* Mutant: basis points taken for whole multiples.
within_tolerance_unscaled(actual, expected, tolerance_bps) ==
    Distance(actual, expected) <= saturating_mul(AbsOf(expected), tolerance_bps)

within_tolerance(actual, expected, tolerance_bps) ==
    saturating_mul(Distance(actual, expected), 10000)
        <= saturating_mul(AbsOf(expected), tolerance_bps)

\* The changes of all owners of the mint; of all accounts of the transaction for
\* wrapped SOL, which stands for native lamports.
sum_mint_delta(trace, mint) ==
    MapThenSumSet(LAMBDA d : d.delta, {d \in trace.token_balance_deltas : d.mint = mint})
    + IF mint = "WSOL"
      THEN MapThenSumSet(LAMBDA k : trace.balance_deltas[k], DOMAIN trace.balance_deltas)
      ELSE 0

passed_noop == [passed |-> TRUE, severity |-> "None", flag |-> "none"]
inconclusive == [passed |-> TRUE, severity |-> "None",
                 flag |-> "INTENT_VERIFICATION_INCONCLUSIVE"]
failed == [passed |-> FALSE, severity |-> "High", flag |-> "INTENT_BALANCE_MISMATCH"]

verify_swap(trace, amount, mint_in, mint_out, min_out) ==
    IF /\ within_tolerance(sum_mint_delta(trace, mint_in), -amount, SWAP_TOLERANCE_BPS)
       /\ sum_mint_delta(trace, mint_out) > 0
       /\ sum_mint_delta(trace, mint_out) >= min_out
    THEN passed_noop ELSE failed

verify_transfer(trace, amount, mint) ==
    IF within_tolerance(sum_mint_delta(trace, mint), -amount, TRANSFER_TOLERANCE_BPS)
    THEN passed_noop ELSE failed

\* Only the outflow is verified: a match is inconclusive about the receipt.
verify_deposit(trace, amount, mint) ==
    IF within_tolerance(sum_mint_delta(trace, mint), -amount, DEPOSIT_TOLERANCE_BPS)
    THEN inconclusive ELSE failed

\* min_out is 0 when the specification names none: a swap must bring something in
\* anyway.
verify_spec(trace, spec) ==
    CASE spec.kind = "Swap" ->
           verify_swap(trace, spec.amount, spec.mint, spec.mint_out, spec.min_out)
      [] spec.kind = "Transfer" -> verify_transfer(trace, spec.amount, spec.mint)
      [] spec.kind = "Deposit" -> verify_deposit(trace, spec.amount, spec.mint)

verify_from_text(trace, pattern) ==
    IF \/ pattern.kind = "Unrecognized"
       \/ pattern.token \notin DOMAIN TOKEN_REGISTRY
       \/ pattern.kind = "Swap" /\ pattern.rest \notin DOMAIN TOKEN_REGISTRY
    THEN inconclusive
    ELSE LET token == TOKEN_REGISTRY[pattern.token]
             raw   == to_raw_units(pattern.amount, token.decimals)
         IN  CASE pattern.kind = "Swap" ->
                    verify_swap(trace, raw, token.mint, TOKEN_REGISTRY[pattern.rest].mint, 0)
               [] pattern.kind = "Transfer" -> verify_transfer(trace, raw, token.mint)
               [] pattern.kind = "Deposit" -> verify_deposit(trace, raw, token.mint)

\* check: no intent is a no-op, a specification takes precedence over the text.
\* An Option is a set of at most one element.
intent_check(trace, intent) ==
    IF intent = {} THEN passed_noop
    ELSE LET stated == CHOOSE i \in intent : TRUE
         IN  IF stated.spec # {}
             THEN verify_spec(trace, CHOOSE spec \in stated.spec : TRUE)
             ELSE verify_from_text(trace, parse_intent_goal(stated.description))
=============================================================================
