---------------------------- MODULE OracleSanity ----------------------------
(***************************************************************************)
(* The Oracle Sanity checker (crates/ciel-checkers/src/oracle_sanity.rs)   *)
(* and the price cache it reads (oracle_cache.rs): account data parsed     *)
(* into prices, the map of canonical feeds, and the loop over the oracle   *)
(* reads of a trace.                                                       *)
(*                                                                         *)
(* Prices and confidences are whole numbers of 10^-DECIMALS dollars.  The  *)
(* code divides f64s and compares the quotient with a threshold; here both *)
(* sides are multiplied out, which gives the same answer away from the     *)
(* last place of a double.                                                 *)
(***************************************************************************)
EXTENDS Integers, SequencesExt

DECIMALS == 4

OracleType == {"Switchboard", "Pyth"}

SB_MIN_SIZE == 3851

PYTH_MIN_SIZE == 240

OracleParseError ==
    [error : {"TooShort", "BadDiscriminator", "BadMagic", "BadAccountType"}]

OraclePrice(oracle_type, price, confidence, timestamp, asset) ==
    [oracle_type |-> oracle_type, price |-> price, confidence |-> confidence,
     timestamp |-> timestamp, asset |-> asset]

\* mantissa / 10^scale, for scales up to DECIMALS.
switchboard_decimal(d) == d.mantissa * 10^(DECIMALS - d.scale)

\* Account data is a record of its length, what its header says it is, and the
\* fields at the offsets the parser reads.
parse_switchboard_v2(data, asset) ==
    IF data.len < SB_MIN_SIZE THEN [error |-> "TooShort"]
    ELSE IF data.header # "Aggregator" THEN [error |-> "BadDiscriminator"]
    ELSE OraclePrice("Switchboard", switchboard_decimal(data.result),
                     switchboard_decimal(data.std_deviation), data.timestamp, asset)

\* value * 10^expo, for exponents from -DECIMALS on.
PythDecimal(value, expo) == value * 10^(DECIMALS + expo)

\* agg.status is not read: a feed that has stopped trading parses like any other.
parse_pyth_price(data, asset) ==
    IF data.len < PYTH_MIN_SIZE THEN [error |-> "TooShort"]
    ELSE IF data.header \notin {"Price", "Product"} THEN [error |-> "BadMagic"]
    ELSE IF data.header # "Price" THEN [error |-> "BadAccountType"]
    ELSE OraclePrice("Pyth", PythDecimal(data.price, data.expo),
                     PythDecimal(data.conf, data.expo), data.timestamp, asset)

\* default_mainnet: per asset the Switchboard and the Pyth feed.  For thirteen of
\* the twenty the table holds the same key twice.
SharedFeeds == {"USDT", "JUP", "RAY", "WIF", "RNDR", "HNT", "ORCA", "MNGO", "MSOL",
                "DRIFT", "W", "JITOSOL", "TENSOR"}

PairedFeeds ==
    [SOL  |-> [switchboard |-> "SOL_SB", pyth |-> "SOL_PYTH"],
     BTC  |-> [switchboard |-> "BTC_SB", pyth |-> "BTC_PYTH"],
     ETH  |-> [switchboard |-> "ETH_SB", pyth |-> "ETH_PYTH"],
     USDC |-> [switchboard |-> "USDC_SB", pyth |-> "USDC_PYTH"],
     BONK |-> [switchboard |-> "BONK_SB", pyth |-> "BONK_PYTH"],
     JTO  |-> [switchboard |-> "JTO_SB", pyth |-> "JTO_PYTH"],
     PYTH |-> [switchboard |-> "PYTH_SB", pyth |-> "PYTH_PYTH"]]

default_mainnet ==
    [a \in SharedFeeds \cup DOMAIN PairedFeeds |->
        IF a \in SharedFeeds THEN [switchboard |-> a, pyth |-> a] ELSE PairedFeeds[a]]

\* register enters the Switchboard key and then the Pyth key: a key that is both
\* ends up as a Pyth feed.
IsPythFeed(key, asset) == default_mainnet[asset].pyth = key

asset_for(key) ==
    {a \in DOMAIN default_mainnet : key \in {default_mainnet[a].switchboard,
                                             default_mainnet[a].pyth}}

is_known(key) == asset_for(key) # {}

\* The paired feed, of at most one asset.
cross_reference(key) ==
    {IF IsPythFeed(key, a) THEN default_mainnet[a].switchboard ELSE default_mainnet[a].pyth
        : a \in asset_for(key)}

\* OracleSanityChecker::new; the ratio is 0.05.
sigma_threshold == 3
staleness_threshold_secs == 30
wide_confidence_percent == 5

\* OracleCache: what it holds once the accounts of some feeds were parsed; the ones
\* that do not parse are left out.  No code of the repository fills it yet.
Populated(accounts, reference_timestamp) ==
    LET parse(k) == IF accounts[k].owner = "SWITCHBOARD_V2"
                    THEN parse_switchboard_v2(accounts[k], k)
                    ELSE parse_pyth_price(accounts[k], k)
    IN  [prices |-> [k \in {key \in DOMAIN accounts : parse(key) \notin OracleParseError}
                        |-> parse(k)],
         reference_timestamp |-> reference_timestamp]

\* OracleCache::default, which is what the pipeline passes.
EmptyCache == [prices |-> <<>>, reference_timestamp |-> 0]
----------------------------------------------------------------------------
(* The checks on one read.                                                 *)

IsStale(cache, key) ==
    cache.reference_timestamp - cache.prices[key].timestamp > staleness_threshold_secs

HasWideConfidence(cache, key) ==
    LET p == cache.prices[key]
    IN  p.price > 0 /\ 100 * p.confidence > wide_confidence_percent * p.price

Magnitude(n) == IF n < 0 THEN -n ELSE n

\* Mutant: the difference keeps its sign.
DeviatesUpwards(cache, key, cross) ==
    /\ {key, cross} \subseteq DOMAIN cache.prices
    /\ LET p == cache.prices[key]
           q == cache.prices[cross]
           max_uncertainty == IF p.confidence > q.confidence THEN p.confidence ELSE q.confidence
       IN  max_uncertainty > 0 /\ p.price - q.price > sigma_threshold * max_uncertainty

\* Further apart than sigma_threshold times the larger confidence, if that is not 0.
Deviates(cache, key, cross) ==
    /\ {key, cross} \subseteq DOMAIN cache.prices
    /\ LET p == cache.prices[key]
           q == cache.prices[cross]
           max_uncertainty == IF p.confidence > q.confidence THEN p.confidence ELSE q.confidence
       IN  /\ max_uncertainty > 0
           /\ Magnitude(p.price - q.price) > sigma_threshold * max_uncertainty

FlagIf(cond, code, subject) == IF cond THEN <<[code |-> code, subject |-> subject]>> ELSE <<>>

\* Mutant: pairs that were compared are not remembered.
NewPairsForgotten(acc, key) == {{key, cross} : cross \in cross_reference(key)}

\* The pairs of feeds that a read makes the loop compare, each pair once.
NewPairs(acc, key) == {{key, cross} : cross \in cross_reference(key)} \ acc.checked_pairs

\* One iteration of the loop; acc is [flags, checked_pairs].
CheckRead(cache, acc, key) ==
    IF key \notin DOMAIN cache.prices
    THEN [acc EXCEPT !.flags = @ \o FlagIf(~is_known(key), "UNKNOWN_ORACLE_ACCOUNT", {key})]
    ELSE LET deviates == \E cross \in cross_reference(key) :
                            {key, cross} \in NewPairs(acc, key) /\ Deviates(cache, key, cross)
         IN  [flags |-> acc.flags
                 \o FlagIf(IsStale(cache, key), "STALE_ORACLE_FEED", {key})
                 \o FlagIf(HasWideConfidence(cache, key), "WIDE_CONFIDENCE_INTERVAL", {key})
                 \o FlagIf(deviates, "ORACLE_DEVIATION_3_SIGMA", {key} \cup cross_reference(key)),
              checked_pairs |-> acc.checked_pairs \cup NewPairs(acc, key)]

oracle_flag_severity(code) ==
    CASE code = "ORACLE_DEVIATION_3_SIGMA" -> "Critical"
      [] code \in {"UNKNOWN_ORACLE_ACCOUNT", "STALE_ORACLE_FEED"} -> "High"
      [] code = "WIDE_CONFIDENCE_INTERVAL" -> "Medium"

\* The flags of a sequence of reads, each an oracle account.
OracleFlags(cache, reads) ==
    FoldLeft(LAMBDA acc, key : CheckRead(cache, acc, key),
             [flags |-> <<>>, checked_pairs |-> {}], reads).flags

\* check: passed without flags, otherwise the severity is the highest of them.
oracle_check(cache, reads) ==
    LET flags  == OracleFlags(cache, reads)
        levels == {oracle_flag_severity(flags[i].code) : i \in DOMAIN flags}
    IN  [passed   |-> flags = <<>>,
         severity |-> IF flags = <<>> THEN "None"
                      ELSE IF "Critical" \in levels THEN "Critical"
                      ELSE IF "High" \in levels THEN "High" ELSE "Medium"]
=============================================================================
