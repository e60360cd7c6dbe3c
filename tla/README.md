# Ciel: a verification project

Ciel judges Solana transactions before they are signed: it simulates a
transaction on a fork of mainnet state, runs a set of checkers over the trace,
scores what they report, signs the verdict as an attestation and logs it. This
directory holds TLA+ models of the parts that make the verdict what it is, TLC
runs that check them on small instances, and TLAPS proofs for every instance.
Paths below are relative to `src/crates/` unless they start with `src/`.

## 1. Inventory

| Component | State | Operations | Hard because | Must hold |
|---|---|---|---|---|
| Safety scorer (`ciel-pipeline/src/scorer_stub.rs`) | none | `compute_safety_score`, `score_to_verdict`, `encode_score_u16` | f64 subtraction in HashMap order, compared with 0.7 and 0.4, then multiplied and rounded | signed score exact, rounding never lenient, more evidence never softens |
| Verdict pipeline (`pipeline.rs`) | fork behind a `std::sync::Mutex`, per-request progress | `evaluate_raw_tx`, `build_timeout_response` | concurrent requests, a deadline that cannot cut blocking code, panics that poison the mutex, clients that hang up, staleness read early and used late | log and attestations agree, poison fails closed |
| Checker runner (`ciel-checkers/src/runner.rs`, `traits.rs`, `hash.rs`) | result map | `run_checkers`, `checker_outputs_hash` | some checkers time out while others complete | the verdict rests on the results it attests |
| Verdict log (`verdict_store.rs`) | `verdict_log` table | `log_verdict`, `insert_verdict` | the insert is spawned after the answer, its failure is only logged | nothing logged that was not issued; nothing issued that is unaccounted for |
| Staleness tracker (`ciel-fork/src/staleness.rs`) | last update, last slot | `record_update`, `state` | read before long waits | stale state is not attested as APPROVE |
| Outcome capture (`outcome.rs`) | batch of a cycle | `capture_cycle`, `determine_outcome`, `update_verdict_outcome` | forks, a node that forgets, failing updates, restarts, oldest-first batches | outcomes are final, earned, and every APPROVE gets one |
| RPC manager (`ciel-fork/src/rpc.rs`) | circuit breaker | `fetch_account`, `fetch_multiple_accounts`, `get_slot`, `get_latest_blockhash` | the breaker lock is released between admission and result | breaker consistent, opens rightly, probes again, calls return |
| Account cache, Geyser subscriber (`cache.rs`, `geyser.rs`) | cache entries, `last_slot`, subscription filter | stream, reconnect, gap fill, dynamic accounts, eviction | two writers without order, gap fill and replay meet at one slot number | a caught-up cache is current |
| Fork simulator (`simulator.rs`) | LiteSVM copies | `init_sysvars`, `load_account(s)` | loads race with the stream | as above |
| Transaction executor (`executor.rs`, `trace.rs`) | simulation trace | `execute_transaction`, `extract_cpi_graph`, `compute_balance_deltas`, `detect_oracle_reads` | traces of failed simulations, a call graph that is not in execution order, oracle reads found in two layers | what was signed is always seen, deltas conserve lamports |
| Authority Diff, Approval Abuse, Intent Diff (`authority_diff.rs`, `approval_abuse.rs`, `intent_diff.rs`, `intent_rules.rs`) | none | `check` | severity shifts that combine, revocations out of order, sums that cancel, amounts that round to 0 or saturate | intents cannot buy an APPROVE for a known protocol |
| Oracle Sanity (`oracle_sanity.rs`, `oracle_cache.rs`) | parsed prices, the map of canonical feeds | parsers, `register`, `cross_reference`, `check` | each pair of feeds is compared once, from whichever side the trace lists first; thresholds met exactly; zero confidence | order of reads does not matter, feeds that contradict each other block |
| Attestation, signer, PEA (`ciel-signer/src/`) | key | `new`, `new_timeout`, `sign_*`, `verify_attestation`, `to_pea_json`, `from_pea_json` | one key, three kinds of message; an envelope with four parts that may come from different places | only issued verdicts are accepted as verdicts |
| TypeScript verifier (`src/sdk/typescript/src/pea.ts`) | none | `isPeaEnvelope`, `wireBytesFromEnvelope`, `verifyPea` | a second implementation of the same format, with decoders of its own | the two verifiers agree |
| Server (`ciel-server/src/`) | wiring, counters | `main`, `handle_verdict`, `evaluate_inner`, `record_verdict` | start-up order with fallbacks and panics; two front ends share one pipeline; counters and log are kept by different tasks | every request is answered with what became of it, counters match the log, the tracker is kept alive |

How they meet: the server hands a transaction to the pipeline; the pipeline
reads the staleness tracker, takes the fork mutex, calls the executor, gives the
trace to the checkers through the runner, scores, signs, and spawns the insert;
the handler counts the verdict and answers. Outcome capture later reads the same
table. The subscriber and the simulator share the account cache, both call the RPC
manager, and the subscriber feeds the tracker. `main` does not start the subscriber,
and gives the pipeline `all_stub_checkers()` (`main.rs:157`), which find nothing: the
real checkers run in the crate's tests. The models show what the parts do once wired;
`VerdictPipeline` lets a checker report anything.
Attestations leave the server and are verified elsewhere, later, possibly by the
TypeScript verifier.

## 2. Modules

| Module | Models | State and actions |
|---|---|---|
| `Scorer` | `scorer_stub.rs` as operators; f64 as integers of 2^-58 units with round-to-nearest-even after every subtraction and after the product by 10000 | - |
| `ScoringLoop` | the loop over the result map in any order | score, multiset of results taken; `TakeResult` |
| `VerdictPipeline` | `pipeline.rs` with runner, tracker, log | per request `pc`, deadline clocks, checker statuses; `forkOwner`, `poisoned`; `spawned`, `verdict_log`, `lostInserts`; one action per await-free stretch of `evaluate_raw_tx_inner` and per way a request can end |
| `VerdictService` | what a caller may rely on: at most one attestation per request, journal entries only for issued verdicts, a broken service stops judging | `VerdictPipeline` implements it by `PhaseOf`, `journal`, `broken` |
| `Server` | `main.rs`, `rest.rs`, `grpc.rs`, `metrics.rs`, `lib.rs`, composed with `VerdictPipeline` (EXTENDS: the pipeline's steps become steps of a handler) | `env`, `stage`, `fork`; per request `channel`, `reply`; the counters. One action per stage of `main`, `Dispatch`, `Handle` |
| `RpcManager` | `rpc.rs` | breaker `state`, `opened_at`, `failures` (ages); per caller operation, where it waits, result |
| `OutcomeCapture` | `outcome.rs` against a chain that processes, confirms, drops and forgets | rows, outcomes, batch, sampled `now` |
| `AccountSync` | `cache.rs`, `geyser.rs`, account loading of `simulator.rs` against a chain of confirmed blocks | cache with who inserted each entry, subscription, in-flight updates, gap fill, one load |
| `CallGraph` | `executor.rs`: a simulation that enters instructions, issues inner calls, moves lamports and may fail anywhere; the trace it leaves, with its oracle reads | `Invoke`, `Cpi`, `Fails`, `Succeeds` |
| `AuthorityDiff`, `ApprovalAbuse`, `IntentDiff`, `OracleSanity` | the four checkers, the parsers of `oracle_cache.rs` and the feed map | operators |
| `TraceChecks` | the four checkers on `CallGraph`'s trace, and the scorer on their outputs | - |
| `Attestation` | the three kinds of attestation, their bytes and signatures, the envelope and both verifiers | operators |
| `PeaExchange` | servers that sign and restart, the chain's slots, a consumer whose envelope may be mixed from several | `slot`, `pinned`, `issued`, `signatures`, `envelope`; `SignVerdict`, `SignTimeout`, `SignPolicy`, `SignOverride`, `Restart`, `NewSlot`, `Receive`, `Replaced` |
| `VerdictPipelineProofs` (also about `Server`), `ScorerProofs`, `ScoringLoopProofs`, `RpcManagerProofs`, `OutcomeCaptureProofs`, `AccountSyncProofs`, `TraceChecksProofs`, `PeaExchangeProofs` | theorems and the invariants they need | - |

`MC*` modules only give constants their values. `PROJECT.json` maps every
definition to the lines it models. Operators marked "Mutant" are wrong variants
of the definition after them; each property is violated under one of them.

What is abstracted: contents of transactions, messages, flags and accounts are
names, levels or slot numbers; wording, JSON and latencies are left out. Clocks
are ages in ticks that saturate one past the last threshold that is compared
with them, so no behaviour is cut off. In `TraceChecks` 1 SOL is 1000 lamports and
the fee is 1. Stated amounts are fractions: `to_raw_units` scales, rounds (to 0 for a
tiny amount) and saturates at `I128_MAX`, a constant; the comparison wraps and
saturates as the code's does.
Oracle prices are whole numbers of 10^-4 dollars, and quotients of the code are
multiplied out. Borsh writes attestations at a fixed width, so the bytes of a
value are its length (132, or 86 for policies and overrides) and the value itself,
and every string of the right length decodes. In an envelope bytes are a text, written
strictly, loosely (white space, the url-safe alphabet, characters that are no digits)
or too short: the Rust decoders read the first only, those of the SDK the second too.
An Ed25519 signature is the key and
the bytes it covers, and exists only if somebody made it.

## 3. Runs

| Run | Instance | Shows |
|---|---|---|
| `scoring` | up to 7 results (the code has 7 checker slots at most), any order | `EncodedScoreIsExact`, `RoundingNeverLenient`, `ApproveNeedsEvidence`, `MoreResultsNeverSoften` |
| `scoring_replay` (violated) | same | iteration order changes a verdict at a threshold: `ReplayIsDeterministic` fails |
| `pipeline` | 2 requests, 2 checkers, 3 findings, all clocks short enough for every race | `TimeoutsAreUnmistakable`, `LoggedVerdictsWereIssued`, `EveryVerdictIsAccountedFor`, `ApproveRestsOnEvidence`, `ForkHeldOnlyToSimulate`, `PoisonedForkNeverAttests`, `ImplementsVerdictService` |
| `pipeline_in_flight` (violated) | 2 requests, 2 checkers, under `FairSpec` | staleness is read once: an APPROVE is signed while the tracker is past the warn threshold |
| `server` | 5 environments, all with the RPC keys set and a database (see `MCEnvironments`), 2 requests over REST or gRPC, 1 checker that finds nothing or times out, under `ServerSpec` | `RepliesTellTheOutcome`, `MetricsMatchTheLog`, `EveryRequestIsAnswered` |
| `server_keepalive` (violated) | 1 request, the RPC keys unset (dev mode, relaxed thresholds), under `ServerSpec` | nothing refreshes the tracker after start-up: `TrackerIsKeptAlive` fails |
| `rpc` | 3 callers, threshold 2, window 1, open time 2 | `RpcTypeOK`, `BreakerConsistent`, `OldestFirst`, `OpensOnRecentFailures`, `OpenAdmitsNobody`, `ProbeBecomesDue`, `EveryCallReturns` |
| `outcome` | 2 rows, batch of 1, ttl 0, retention 1 | `OutcomesAreEarned`, `ExpiredOnlyIfForgotten`, `OutcomeIsFinal`, `EveryApproveIsResolved` |
| `trace_checks` | 17 kinds of calls, 2 instructions, 2 inner calls, height 3, 8 intents (one rounds to no raw unit, one saturates), 7 states of the two SOL feeds | `KnownAuthorityChangeNeverApproved`, `SignedChangeAlwaysReported`, `StandingApprovalFlaggedInLayer`, `DeltasConserveLamports`, `FailedSimulationConfirmsNothing`, `OracleCallsAreRead`, `AnomaliesReportedOnce`, `ContradictedFeedIsBlocked`, `ExecutionNeverSoftens` |
| `account_sync` | a configured pool account, a monitored user account, 4 slots, chunks of 1 | `SyncTypeOK`, `StreamedEntriesAreCurrent`, `FilledEntriesMissOnlyTheGap` |
| `pea` | a trusted and another server, 4 slots, 2 signatures, 2 replaced or rewritten parts | `AcceptedIsIssuedAndFresh`, `ReaderGetsIssuedVerdict`, `VerifiersAgree` |
| `pea_expiry` (violated) | the same servers, under `FairSpec` | a server that has been up for more than two slots issues verdicts that have already expired: `IssuedVerdictIsFresh` fails |

Why the bounds are enough. Two requests are enough for every pairwise race on
the mutex and the log, the third would only queue; two checkers give every
mixture of completed and timed out. Three callers let two late results meet a
probe. Two rows with a batch of one let an unresolved row hide another. Four
slots are the least at which a change can fall strictly between what a gap fill
read and the slot it records. Two inner calls and height 3 reach every branch of
the stack-height modulation, with a revocation before and after an approval, and
let the two feeds of an asset be read in either order and in either layer; the
feed states hold deviations of exactly and of just over three sigma, ages of
exactly and just over 30 s, zero confidence, and an account that does not parse.
Two signatures are enough for an envelope mixed from two attestations of different
kinds or keys, and two replaced parts for an object and bytes that agree with each
other but not with the signature; four slots pass the expiry window.
The five environments of `server` reach every way `main` can end: serving with both
front ends or with REST alone, a port variable that is no number, a key file or a REST
port that cannot be used. `rpc` unset differs from them in the thresholds alone, and
has the `server_keepalive` run.
Deadlock checking is off where the instance ends: requests are answered once, the
chain and the simulation are finite.

### Fairness

* `VerdictPipeline` and `Server`: time passes; `main` and the task of a request are
  scheduled whenever they can run, where running includes being handed a free mutex
  (std mutexes give no order, but every holder leaves by itself); spawned inserts
  run. Nothing makes a checker answer, a client submit, a deadline win its race
  or an update arrive.
* `RpcManager`: time passes and every request to a node ends, by an answer, an
  error or a timeout. The fallback call has no timeout of its own in the code;
  that it ends is an assumption about the HTTP client's default.
* `OutcomeCapture`: the loop runs, and for a row that is asked for again and
  again the node answers and the database accepts in the end (strong fairness
  per row): outages end. Without it no retry loop resolves anything.
* `PeaExchange`: the chain produces slots. Only `pea_expiry` uses it.

## 4. Proofs

Every theorem is about arbitrary constants: any sets of requests, checkers, rows,
accounts or calls, any thresholds and bounds. `PROJECT.json` lists the theorems with
the property each states; 36 of the 40 properties of the passing runs have one, all but
the four liveness properties. Per
module, what is assumed, the inductive invariant, and why the property alone would
not do.

`VerdictPipelineProofs`, from `PipelineAssumption` (any requests, finitely many
checkers, any thresholds with warn below timeout) and, for the server, from
`ServerAssumption`:

* `TypeCorrect` (which no run repeats), `ForkExclusion`, `LogIsFaithful`,
  `LogIsComplete`: invariance of
  `IInv`, the conjunction of `TypeOK`, `AnsweredWhenDone`,
  `ForkHeldOnlyToSimulate`, `PoisonStopsSimulation`, `LoggedVerdictsWereIssued`
  and `EveryVerdictIsAccountedFor`. The log properties alone are not inductive:
  that an entry's attestation stays what the caller got needs
  `AnsweredWhenDone` (a request has a reply exactly when it is done, so no later
  step of that request can change it), and the fork property needs that a
  poisoned fork is held by nobody.
* `ApprovalRestsOnEvidence`: the step that answers scores the statuses of all
  checkers in some order; by `ScoreCoversEveryPenalty` one High or Critical among
  them keeps the score below what an APPROVE needs, whatever the order.
* `TimeoutsStandOut`: the same step signs a score between 0 and 10000 over all
  checkers (`JudgementIsUnmistakable`, from `ScoreCoversEveryPenalty`); the deadline
  and the staleness gate sign the sentinel and the zero hash.
* `PoisonFailsClosed`: for one request, the state "poisoned and not past the
  fork, or ended without an attestation" is closed under every step.
* `PipelineRefinesService`: every step of the pipeline is a step of
  `VerdictService` or leaves its variables unchanged, one case per action, under
  `IInv`.
* `ServerRunsThePipeline`: every step of the server is a step of the pipeline or
  leaves it alone, so `IInv` holds of the server too.
* `MetricsAreTheLog`: `MetricsInv` adds to the property that the log is finite and
  the counters are numbers. The step that issues a verdict adds one entry, which
  is new because of `IInv` (a request that was not answered has no entry), so each
  cardinality grows by exactly what the counter does.
* `RepliesAreTrue`: a reply is written once, in the step that ends its request, and
  tells that outcome (`RespondTells`); no other step changes the outcome of a request
  that has a reply (`OthersAreTold`, which needs `FrontInv`).
* `StaleServerNeverJudges`, what the missing keep-alive leads to: for one request,
  `JudgesNothing` (serving, the tracker
  past the threshold, the request idle, on its way to a TIMEOUT, or done without a
  judgement) is closed under every step; that a request without a channel starts
  there is `FrontInv`.

`ScorerProofs` and `ScoringLoopProofs`, from `MaxCheckers \in Nat`. A number is kept
as hundredths `h` and an error `e`; `SubF64` rounds, and its lemmas say that the
hundredths are subtracted exactly while the error stays small. How small is `Accurate`:
the score is a double, and its error at most 640 (in units of 2^-58 of a hundredth)
per hundredth taken, so at most 64000 after the clamp; a clean result costs nothing
because subtracting 0.0 from a double returns it. Multiplied by 100 and with the
rounding of the product that is far below 2^57, the half unit `round` absorbs
(`ProductErrs`, `EncodeIsExact`).
`ScoreCoversEveryPenalty` is about the loop of `compute_safety_score` over any
sequence, a recursive function; in place of an induction, the least index at which
the claim fails is shown not to exist. It also says that the score is signed exactly.
`EncodedIsExact`, `RoundingIsStrict`, `ApprovalNeedsEvidence` and
`ResultsNeverSoften` follow from `LoopInv`: `PenaltiesArePaid` (the hundredths are
100 minus the penalties of what was taken) and `Accurate`. The second gives
`EncodedIsExact` its bound on the error, and `ResultsNeverSoften` that a clean result,
which subtracts 0.0, does not move a score across a threshold by rounding.

`RpcManagerProofs`, from the assumption on the breaker's parameters:
`RpcTypeCorrect`, `BreakerStaysConsistent`, `DequeIsOrdered`,
`BreakerOpensRightly` and `OpenKeepsPrimaryIdle`. The invariant is
`BreakerInv` (types of the breaker with the bound on the deque, consistency and order
of the deque) with the
types of the callers; `PruneAndAppend` is the lemma that dropping old failures
from the front and appending a new one keeps order and bound.

`OutcomeCaptureProofs`, from `OutcomeAssumption`: `OutcomesEarned`,
`ExpiredIsForgotten`, `OutcomesAreFinal`. The UPDATE has no condition, so that it
overwrites nothing rests on `BatchIsUndecided`: the rows of a batch still wait for
their outcome however long ago they were fetched, which in turn needs
`RowsAreDistinct` (the row just written is not also further down the batch). What is
concluded and not yet written is part of `ExpiredIsWrittenOff`, with
`SampledInThePast` because `now` is older than the answer it is combined with.

`AccountSyncProofs`, from `SyncAssumption`, for any accounts, slots and chunk size:
`SyncTypesHold`, `StreamKeepsUp`, `FillMissesOnlyTheGap`. A cache is current only if
nothing is missing and unknown: `SyncInv` accounts for every change an entry does not
show. While connected, a change past `last_slot` is under way (`NothingSkipped`), and
so is what an entry misses since the subscription (`MissedIsUnderWay`). While not,
what a streamed entry misses will be replayed, since it is not older than `last_slot`,
or the account was closed before it (`GapIsKnown`); and a gap fill, which moves
`last_slot`, has asked for every streamed entry by the time it does so
(`FillCovers`).

`TraceChecksProofs`, from `CallsAreTyped` (which makes the accounts of a
transaction finite), `RegistryAssumption` (a parsed amount is a positive fraction, the
scale of a token and `I128_MAX` are numbers), `IntentsAssumption` (an intent is there
or not, and the amount of a structured one, a u64, times 10000 fits an i128) and
`FeedsAssumption` (the numbers in a feed account are integers within the scales the
model represents, and the header of an account agrees with the program that owns it,
which is the only one that can write it):

* `SignedChangeIsReported`, `KnownAuthorityChangeIsHeld`, `ExecutionOnlyHardens`:
  under the types `SimTypes`, `GraphFacts` says what the call graph is: the signed
  instructions, then the inner calls so far. `AuthorityFacts` says that the checker's
  severity is the highest of its flags, and `FlagSeverityFacts` that a flag of a known
  protocol stays at High or above through all shifts: the stack height takes at most
  one level from Critical, and the intent is floored. The scorer's part is
  `ScoreCoversEveryPenalty` again.
* `StandingApprovalIsFlagged`: `GrantsAreListed` says that a grant that stands has its
  approval in its own layer of the graph with no Revoke of that source after it in
  that layer. The property is about the end of a simulation; only this says enough
  about the middle.
* `FailureConfirmsNothing`: the deltas of a failure sum to 0, and an amount of at least one raw
  unit whose tolerance does not saturate is never within tolerance of 0. The two
  exceptions are in the statement (`ComparesWithNothing`): there the code does confirm.
* `DeltasAddUpToTheFee`: `Conserved` says that the changes of all accounts sum to minus
  the fee until the simulation is rolled back. The sum is the library's fold over a
  set, which picks its elements in an unknown order; `SumTakesOut` shows, by the
  smallest set that violates it, that any element may be taken out first, and
  `SumsAgree` that elements worth 0 do not count. The code sums only the accounts that
  changed, which are the others.
* Loops over sequences are the library's `FoldLeft`. `FoldExists` shows that a fold
  whose step keeps to a set of accumulators has a value, and `FoldRuns` that its values
  on the prefixes are a loop; an invariant of the loop is then an induction on the
  length (`UpToN`). Four loops of the model are proved about this way.
* `OracleReadsAreComplete`: after the first i signed instructions the reads hold each
  account of the oracle instructions among them once, and only reads of their oracles
  (`ReadUpTo`). So when no signed instruction calls an oracle, the log layer finds no
  read of it and adds all of `account_keys`, which `AccountKeysFacts` shows to hold
  every account that any call names. Both layers only add (`Adds`).
* `AnomaliesAreReportedOnce`, `OracleCheckIgnoresOrder`: the loop invariant `Seen` says
  that after a set of keys the flags are exactly the `Anomalies` of that set, an
  unordered notion, each once, and the remembered pairs are those of the cached keys
  in it. A deviation that is skipped because its pair was compared is there already,
  from the other feed: that needs the pairing to be mutual (`CrossFacts`, from the
  feed table, in which no key serves two assets) and the comparison to be symmetric
  (`DeviatesBothWays`). Two sequences without repetitions and with the same elements
  are equally long (`LengthOfDistinct`).
* `ContradictionIsBlocked`: the signed call's feed is read (`OracleReadsAreComplete`),
  both feeds parse with the parser of their owner and deviate by more than the larger
  confidence allows (`ContradictionDeviates`), the deviation is among the flags
  whichever of the two came first, and a Critical result blocks.

`PeaExchangeProofs`, from `ExchangeAssumption`, for any sets of keys, hashes and
judgements and any number of slots, signatures and replaced parts: `PeaAcceptance`,
`PeaReader` and `PeaAgreement`. What a verifier accepts says nothing about how the
envelope came about, so the properties are not inductive; `PeaInv` says what the
world behind the envelope looks like: every signature over 132 bytes covers an
issued verdict, every issued verdict has the fields `CielAttestation::new` set and
was signed by the key it names, and an envelope's signature is one that somebody
made. `OtherKeepsInv` is where policies and overrides are kept apart, by their
length only. `PeaAgreement` is about envelopes that are written strictly: on others
the decoders differ, and only the SDK may accept. The
verifiers' checks then give the properties (`VerifiedIsIssued`,
`VerifiedChecks`).

Only model-checked: the liveness properties `ProbeBecomesDue`, `EveryCallReturns`,
`EveryApproveIsResolved` and `EveryRequestIsAnswered`, which need fairness and
ENABLED, out of this prover's reach.

## 5. What was found

Four places where a text of the repository and the code disagree have a run each
and are listed under "findings" in `PROJECT.json`. Seen while modelling and
without a run of their own:

* the pipeline deadline cannot interrupt the mutex wait or the simulation, so a
  verdict may be issued after it (`pipeline.rs:140`); the model allows this and no
  property claims the deadline;
* a half-open breaker admits every caller until the first result is in
  (`rpc.rs:65`), while `rpc.rs:30` speaks of one request;
* a Revoke counts if it comes later in the call graph (`approval_abuse.rs:163`); the
  graph lists top-level instructions before inner calls, so an inner Revoke that ran
  before a top-level approval suppresses its flag. `StandingApprovalFlaggedInLayer`
  says what remains true;
* the gap fill of `geyser.rs:359` moves the replay past changes it has not read and
  past accounts that were closed, although line 157 promises the gap to be filled;
  `FilledEntriesMissOnlyTheGap` bounds the damage;
* `outcome.rs:271` records a transaction as landed on any status without an error,
  also one that is only processed and whose fork may be dropped; after an outage
  longer than the node's status cache a landed one is recorded as expired
  (`ExpiredOnlyIfForgotten` says exactly when);
* `intent_diff.rs:468` sums the lamport changes of all accounts. By
  `DeltasConserveLamports` that sum is minus the fee, so a plain SOL transfer never
  matches the amount stated; and since `executor.rs:96` leaves token deltas empty,
  token intents never match either. An amount that rounds to 0 raw units, or one so
  large that both sides of the comparison saturate (`intent_diff.rs:488`, `495`),
  matches an empty trace, that of a failed simulation too. The pipeline passes no intent
  yet;
* a load inserts what it read although the stream has updated the account since, and
  takes the entry off the monitored ones (`simulator.rs:226`);
* the error of `compute_tx_hash` at `pipeline.rs:120` cannot occur, since serialising a
  transaction that was just decoded succeeds; the model has no such step;
* `mark_monitored` ignores accounts that are not cached (`geyser.rs:319`), and
  `get` may remove an entry that was refreshed since it was found expired
  (`cache.rs:68`);
* oracles: for 13 of the 20 assets `default_mainnet` holds the same key as
  Switchboard and Pyth feed, which is then compared with itself; two feeds with zero
  confidence are never found to deviate; a cached feed that is not in the map is
  never UNKNOWN; the trading status that `pyth_is_trading` decodes and the error
  `ZeroScale` are never used. The pipeline passes an empty cache, so today only
  UNKNOWN_ORACLE_ACCOUNT can be reported; where the logs mention an oracle that no
  signed instruction calls, the second layer of `detect_oracle_reads` takes every
  account of the transaction for a read, and those that are no feed, the payer
  included, are reported;
* envelopes: in `from_pea_json` the bytes are compared with a re-serialisation of
  what was decoded from them, which cannot fail, so the drift between bytes and object
  that the comment at `pea.rs:153` says is caught is not; `verifyPea` does compare the object
  with the bytes, which is why `AcceptedIsIssuedAndFresh` speaks of the object and
  `ReaderGetsIssuedVerdict` of the bytes. The SDK decodes base64 and hex leniently
  (`pea.ts:98`, `pea.ts:151`), so it accepts texts that `from_pea_json` rejects, over
  the same signed bytes (`VerifiersAgree` says which). Nothing in the server calls
  `to_pea_json` or signs policies or overrides yet;
* server: any RPC error at start-up gives an offline fork, while dev mode and its
  relaxed thresholds depend on `HELIUS_API_KEY` alone (`main.rs:104-128`); without the
  keep-alive of the finding, a server with the default thresholds answers TIMEOUT for
  good ten seconds after it started (`StaleServerNeverJudges`), or from its first
  request on if the database takes that long; `/health` answers ok all the same; clients are shown a
  checker that timed out as "Critical".

## 6. Not modelled

LiteSVM, PostgreSQL, the RPC nodes, Solana and Yellowstone are external: they
appear as the environment the code can meet. One view of the chain is assumed for
all RPC answers; a fallback node that lags behind is not modelled. Of the trace,
`account_changes` and `token_approvals` are left out: no checker reads them. Latency
histograms, request ids, the precompile instruction builder (`instruction.rs`, which
forwards to the Solana SDK), the fixtures (test data and a tool that prints it) and
the placeholder crates, gateway and MCP server (stubs without behaviour) are left
out.

## 7. Plan

Done, in this order: scorer, pipeline and service, RPC manager, outcome capture,
trace checkers, account sync; proofs for pipeline and breaker; oracle sanity and
oracle reads, attestations and envelopes with their proofs, server; proofs for the
scorer, the server, outcome capture, account sync, the trace checkers and the oracle
reads and checks.

1. A composition of `AccountSync` with the tracker of `VerdictPipeline`, once `main`
   starts the subscriber: does Fresh mean that the cache is current?
