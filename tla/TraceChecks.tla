----------------------------- MODULE TraceChecks -----------------------------
(***************************************************************************)
(* The checkers that work on the trace alone, run on the trace of a        *)
(* simulation that stopped anywhere, and the verdict the scorer gives when *)
(* the other checkers find nothing.                                        *)
(***************************************************************************)
EXTENDS CallGraph, AuthorityDiff, ApprovalAbuse, IntentDiff, OracleSanity, Scorer

CONSTANTS Intents,     \* optional intents: sets of at most one [description, spec]
          FeedStates   \* what the feed accounts may hold: [accounts, now]

\* An intent, and the specification in it, is there or not; amounts are u64, whose
\* product with 10000 fits an i128.
ASSUME IntentsAssumption ==
    \A intent \in Intents : \A i \in intent :
        /\ intent = {i}
        /\ \A spec \in i.spec : /\ i.spec = {spec}
                                /\ spec.amount \in 0..(I128_MAX \div 10000)
                                /\ spec.kind \in {"Swap", "Transfer", "Deposit"}

\* The numbers in the feed accounts; only the program that owns an account writes its
\* header, so an aggregator is Switchboard's and a Pyth price is not.
ASSUME FeedsAssumption ==
    \A f \in FeedStates : \A k \in DOMAIN f.accounts :
        LET data == f.accounts[k]
        IN  /\ data.header = "Aggregator" =>
                  /\ data.owner = "SWITCHBOARD_V2"
                  /\ \A d \in {data.result, data.std_deviation} :
                        d.mantissa \in Int /\ 10^(DECIMALS - d.scale) \in Nat
            /\ data.header = "Price" =>
                  /\ data.owner # "SWITCHBOARD_V2"
                  /\ data.price \in Int /\ data.conf \in Int
                  /\ 10^(DECIMALS + data.expo) \in Nat

\* The words of the description and the constraints, none without an intent.
Words(intent) == UNION {{i.description[k] : k \in DOMAIN i.description} : i \in intent}

Authority(intent) == authority_check(extract_cpi_graph, tx, Words(intent))

Approval == approval_check(extract_cpi_graph)

\* The oracle accounts of the trace, in the order it lists them.
ReadKeys ==
    LET reads == detect_oracle_reads
    IN  [i \in DOMAIN reads |-> reads[i].oracle_pubkey]

\* The pipeline's verdict on the four outputs.
TraceVerdict(intent, cache, reads) ==
    LET statuses == <<Authority(intent).severity, Approval.severity,
                      intent_check(SimulationTrace, intent).severity,
                      oracle_check(cache, reads).severity>>
    IN  score_to_verdict(compute_safety_score(statuses),
                         {statuses[i] : i \in DOMAIN statuses})

Simulated == sim # "running"

\* The call's accounts name a known protocol and it changes an authority.
TouchesKnownProtocol(call) ==
    match_call(call) # NoFlag /\ lookup_known_protocol_in_call(call)

\* authority_diff.rs floors the intent downgrade at High for known protocols.
\* Through the scorer's thresholds that is what keeps such a change from an
\* APPROVE, at every stack height, whatever the user wrote and however far the
\* simulation got.
KnownAuthorityChangeNeverApproved ==
    Simulated /\ (\E i \in DOMAIN extract_cpi_graph :
                     TouchesKnownProtocol(extract_cpi_graph[i].call))
      => LET reads == ReadKeys
         IN  \A intent \in Intents : TraceVerdict(intent, EmptyCache, reads) # "APPROVE"

\* executor.rs on layer 1: "Layer 1 always populates - even when simulation fails
\* before execution": an authority change the user signed is reported also when
\* the simulation never reached it.
SignedChangeAlwaysReported ==
    Simulated /\ (\E i \in DOMAIN tx : match_call(tx[i]) # NoFlag)
      => \A intent \in Intents : /\ ~Authority(intent).passed
                                 /\ Authority(intent).severity # "None"

\* The longer the simulation runs, the more the checker sees: a simulation that
\* fails early never reports a higher severity than the one that goes on.
ExecutionNeverSoftens ==
    [][severity_u8[Authority({})'.severity] >= severity_u8[Authority({}).severity]]_vars

UnknownDelegate(s) == grants[s] # NoGrant /\ grants[s].delegate \notin KnownProtocols

Flagged(s) ==
    \E i \in ApprovalFlags(extract_cpi_graph) : extract_cpi_graph[i].call.accounts[1] = s

RevokedFromWithin(s) ==
    \E i \in DOMAIN inner : /\ inner[i].call.program \in SplToken
                            /\ inner[i].call.op = "Revoke"
                            /\ inner[i].call.accounts[1] = s

\* An unlimited approval of an unknown delegate that stands when the transaction
\* ends is flagged, whatever was approved and revoked before it, unless it is a
\* top-level approval and an inner call revoked an earlier one: the graph lists
\* that Revoke after it.
StandingApprovalFlaggedInLayer ==
    sim = "ok" => \A s \in Sources :
        UnknownDelegate(s) => Flagged(s) \/ (grants[s].height = 1 /\ RevokedFromWithin(s))

\* The deltas of a successful simulation add up to the fee: what one account of
\* the transaction loses another one gains, newly created accounts included.
DeltasConserveLamports ==
    sim = "ok" => TotalOf(SimulationTrace.balance_deltas) = -Fee

\* The oracle calls that ran: signed ones, reached or not, and recorded inner ones.
OracleCalls ==
    LET graph == extract_cpi_graph
    IN  {c \in {graph[i].call : i \in DOMAIN graph} : c.program \in OraclePrograms}

\* executor.rs: "Two-layer detection ensures oracle reads are captured even when the
\* transaction fails before execution": every account an oracle call of the
\* transaction names is read, at every depth and wherever the simulation stopped.
\* The one exception is an inner call to an oracle that a signed instruction also
\* calls: the log layer is then skipped.
OracleCallsAreRead ==
    Simulated => LET read == ToSet(ReadKeys) IN
      \A c \in OracleCalls : \A k \in ToSet(c.accounts) \ OraclePrograms :
        \/ k \in read
        \/ c \notin ToSet(tx) /\ \E i \in DOMAIN tx : tx[i].program = c.program

\* The loop remembers pairs so that a deviation is reported once when both feeds are
\* read.  What is reported, and how often, does not depend on which feed comes first.
AnomaliesReportedOnce ==
    Simulated => LET reads == ReadKeys IN reads # <<>> => \A f \in FeedStates :
        LET cache    == Populated(f.accounts, f.now)
            flags    == OracleFlags(cache, reads)
            backward == OracleFlags(cache, Reverse(reads))
        IN  /\ \A i, j \in DOMAIN flags : flags[i] = flags[j] => i = j
            /\ ToSet(backward) = ToSet(flags) /\ Len(backward) = Len(flags)

\* Two feeds of one asset quote prices that no confidence either of them states
\* can explain.
Contradict(accounts, asset) ==
    LET feeds == default_mainnet[asset]
        p     == parse_switchboard_v2(accounts[feeds.switchboard], asset)
        q     == parse_pyth_price(accounts[feeds.pyth], asset)
    IN  /\ {feeds.switchboard, feeds.pyth} \subseteq DOMAIN accounts
        /\ p \notin OracleParseError /\ q \notin OracleParseError
        /\ p.confidence + q.confidence > 0
        /\ \A sigma \in {p.confidence, q.confidence} :
              \/ p.price > q.price + sigma_threshold * sigma
              \/ q.price > p.price + sigma_threshold * sigma

\* A transaction that reads either of two feeds that contradict each other is
\* blocked, whichever of them it reads, through whatever calls, and whether or not
\* its simulation succeeded.
ContradictedFeedIsBlocked ==
    Simulated => LET reads == ReadKeys IN
      \A c \in OracleCalls \cap ToSet(tx) : \A f \in FeedStates :
        (\E k \in ToSet(c.accounts) : \E asset \in asset_for(k) : Contradict(f.accounts, asset))
        => \A intent \in Intents :
              TraceVerdict(intent, Populated(f.accounts, f.now), reads) = "BLOCK"

\* The intent names an outflow, and one the checker can compare with nothing: it is
\* at least one raw unit, and its tolerance in raw units does not reach i128::MAX.
ComparesWithNothing(raw, tolerance_bps) ==
    raw > 0 /\ saturating_mul(raw, tolerance_bps) < I128_MAX

StatesOutflow(i) ==
    IF i.spec # {} THEN \A spec \in i.spec : spec.amount > 0
    ELSE LET p   == parse_intent_goal(i.description)
             raw == to_raw_units(p.amount, TOKEN_REGISTRY[p.token].decimals)
         IN  /\ p # Unrecognized /\ p.token \in DOMAIN TOKEN_REGISTRY
             /\ CASE p.kind = "Swap" -> p.rest \in DOMAIN TOKEN_REGISTRY
                  [] p.kind = "Transfer" -> ComparesWithNothing(raw, TRANSFER_TOLERANCE_BPS)
                  [] p.kind = "Deposit" -> ComparesWithNothing(raw, DEPOSIT_TOLERANCE_BPS)

\* intent_diff.rs compares sums of deltas and never looks at trace.success: that a
\* failed simulation confirms no swap, transfer or deposit rests on the executor
\* leaving its deltas empty and on the tolerance being a fraction of the amount.  A
\* specified amount is a u64 and always compares; a transfer or deposit of a written
\* amount that rounds to no raw unit, or that saturates, is confirmed by a failed
\* simulation and is the exception.
FailedSimulationConfirmsNothing ==
    sim = "failed" => \A intent \in Intents : \A i \in intent :
        StatesOutflow(i) => ~intent_check(SimulationTrace, intent).passed
=============================================================================
