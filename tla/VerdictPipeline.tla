--------------------------- MODULE VerdictPipeline ---------------------------
(***************************************************************************)
(* VerdictPipeline::evaluate_raw_tx (crates/ciel-pipeline/src/pipeline.rs) *)
(* for concurrent requests: staleness gate, fork simulation under a        *)
(* std::sync::Mutex, checker fan-out, scoring, signing, and the            *)
(* fire-and-forget verdict log.                                            *)
(*                                                                         *)
(* A request interleaves with others only where the code lets it: while it *)
(* waits for the fork mutex (the thread blocks) and while it awaits the    *)
(* checkers.  Everything between two such points is one action.  The       *)
(* deadline of 200 ms can cut a request only at the await.                 *)
(***************************************************************************)
EXTENDS Scorer, FiniteSets

CONSTANTS
    Requests,          \* calls of evaluate_raw_tx
    Checkers,          \* names of the checker suite
    Findings,          \* severities the checkers may report
    NoRequest,         \* the fork mutex is free
    WarnThreshold, TimeoutThreshold,    \* StalenessConfig, in clock ticks
    CheckerDeadline, PipelineDeadline,  \* CHECKER_DEADLINE_MS, timeout_ms
    DbConfigured       \* db_pool.is_some()

ASSUME PipelineAssumption ==
    /\ Findings \subseteq Severity
    /\ IsFiniteSet(Checkers)
    /\ NoRequest \notin Requests
    /\ WarnThreshold \in Nat /\ TimeoutThreshold \in Nat
    /\ WarnThreshold < TimeoutThreshold
    /\ CheckerDeadline \in Nat /\ PipelineDeadline \in Nat
    /\ DbConfigured \in BOOLEAN

VARIABLES
    age,               \* time since StalenessTracker::last_update
    pc,                \* where each request is
    elapsed,           \* time since its pipeline_start
    checkElapsed,      \* time since its run_checkers began
    downgrade,         \* its downgrade_reason is Some(..)
    status,            \* its checker futures: Pending or their status
    forkOwner,         \* who holds the fork mutex
    poisoned,          \* a panic happened while the mutex was held
    outcome,           \* what its caller got
    attestation,       \* the signed attestation returned, if any
    spawned,           \* log inserts spawned and not yet finished
    verdict_log,       \* rows of the verdict_log table
    lostInserts        \* entries whose insert failed (logged, not retried)

clockVars == <<age, elapsed, checkElapsed>>
forkVars  == <<forkOwner, poisoned>>
logVars   == <<spawned, verdict_log, lostInserts>>
replyVars == <<outcome, attestation>>
vars == <<age, pc, elapsed, checkElapsed, downgrade, status, forkOwner, poisoned,
          outcome, attestation, spawned, verdict_log, lostInserts>>
----------------------------------------------------------------------------
(* Data.                                                                   *)
PC == {"idle", "lock", "sim", "checkers", "timeoutLock", "done"}

TIMEOUT_SENTINEL == 65535

\* The orders in which the results HashMap may yield the checkers, each once.
Orders == {o \in [1..Cardinality(Checkers) -> Checkers] :
              \A c \in Checkers : \E i \in 1..Cardinality(Checkers) : o[i] = c}

StatusesIn(o, results) == [i \in 1..Cardinality(Checkers) |-> results[o[i]]]

Reported(results) == {results[c] : c \in Checkers}

\* checker_outputs_hash hashes the completed outputs, sorted by name.  For a given
\* suite it is determined by, and determines, which checkers completed with which
\* output: the results themselves.  A TIMEOUT carries 32 zero bytes, which is not
\* the hash of any results.
Hashes == [Checkers -> CheckerStatus \cup {"Pending"}]
ZeroHash == [c \in Checkers |-> "Pending"]

TimedOut(results) == {c \in Checkers : results[c] = "TimedOut"}

\* The fields of CielAttestation that depend on the evaluation.
Attest(verdict, score, hash) ==
    [verdict |-> verdict, safety_score |-> score, hash |-> hash]

NoAttestation == Attest("none", 0, ZeroHash)

IsAttestation(a) ==
    /\ a = Attest(a.verdict, a.safety_score, a.hash)
    /\ a.verdict \in Verdict
    /\ a.hash \in Hashes

\* VerdictLogEntry.
LogEntry(r, att, timed_out) == [req |-> r, attestation |-> att, timed_out |-> timed_out]

IsLogEntry(e) ==
    /\ e = LogEntry(e.req, e.attestation, e.timed_out)
    /\ e.req \in Requests
    /\ IsAttestation(e.attestation)
    /\ e.timed_out \subseteq Checkers

\* Counts clock ticks up to a bound past which nothing changes.
Saturate(t, bound) == IF t < bound THEN t + 1 ELSE bound

\* StalenessTracker::state.
Staleness ==
    IF age > TimeoutThreshold THEN "Timeout"
    ELSE IF age > WarnThreshold THEN "Warn" ELSE "Fresh"
----------------------------------------------------------------------------
Init ==
    /\ age = 0
    /\ pc = [r \in Requests |-> "idle"]
    /\ elapsed = [r \in Requests |-> 0]
    /\ checkElapsed = [r \in Requests |-> 0]
    /\ downgrade = [r \in Requests |-> FALSE]
    /\ status = [r \in Requests |-> [c \in Checkers |-> "Pending"]]
    /\ forkOwner = NoRequest
    /\ poisoned = FALSE
    /\ outcome = [r \in Requests |-> "none"]
    /\ attestation = [r \in Requests |-> NoAttestation]
    /\ spawned = {}
    /\ verdict_log = {}
    /\ lostInserts = {}

\* The request ends: its future is gone, with all its local state.
Leave(r, result) ==
    /\ pc' = [pc EXCEPT ![r] = "done"]
    /\ outcome' = [outcome EXCEPT ![r] = result]
    /\ elapsed' = [elapsed EXCEPT ![r] = 0]
    /\ checkElapsed' = [checkElapsed EXCEPT ![r] = 0]
    /\ status' = [status EXCEPT ![r] = [c \in Checkers |-> "Pending"]]

\* A PipelineError, or no answer at all.
LeaveWithout(r, result) == Leave(r, result) /\ UNCHANGED attestation

LeaveWith(r, att) ==
    /\ Leave(r, "attested")
    /\ attestation' = [attestation EXCEPT ![r] = att]
----------------------------------------------------------------------------
(* The clock, and the Geyser side of the staleness tracker.                *)

InFlight(r) == pc[r] \notin {"idle", "done"}

Tick ==
    /\ age' = Saturate(age, TimeoutThreshold + 1)
    /\ elapsed' = [r \in Requests |->
          IF InFlight(r) THEN Saturate(elapsed[r], PipelineDeadline + 1)
                         ELSE elapsed[r]]
    /\ checkElapsed' = [r \in Requests |->
          IF pc[r] = "checkers" THEN Saturate(checkElapsed[r], CheckerDeadline)
                                ELSE checkElapsed[r]]
    /\ UNCHANGED <<pc, downgrade, status, forkVars, replyVars, logVars>>

record_update ==
    /\ age' = 0
    /\ UNCHANGED <<pc, elapsed, checkElapsed, downgrade, status, forkVars,
                   replyVars, logVars>>
----------------------------------------------------------------------------
(* evaluate_raw_tx.                                                        *)

\* Steps 1 and 2: hash, and the only reading of the staleness tracker.  The error of
\* compute_tx_hash is not a case: what was decoded from bytes can be encoded again.
BeginEvaluate(r) ==
    /\ pc[r] = "idle"
    /\ pc' = [pc EXCEPT ![r] = IF Staleness = "Timeout" THEN "timeoutLock" ELSE "lock"]
    /\ downgrade' = [downgrade EXCEPT ![r] = Staleness = "Warn"]
    /\ UNCHANGED <<clockVars, status, forkVars, replyVars, logVars>>

\* Mutant: recovers the guard of a poisoned mutex.
AcquireForkPoisoned(r) ==
    /\ pc[r] = "lock"
    /\ forkOwner = NoRequest
    /\ forkOwner' = r
    /\ pc' = [pc EXCEPT ![r] = "sim"]
    /\ UNCHANGED <<clockVars, downgrade, status, poisoned, replyVars, logVars>>

\* Mutant: waits until the mutex is no longer poisoned.
AcquireForkRetrying(r) ==
    /\ pc[r] = "lock"
    /\ forkOwner = NoRequest /\ ~poisoned
    /\ forkOwner' = r
    /\ pc' = [pc EXCEPT ![r] = "sim"]
    /\ UNCHANGED <<clockVars, downgrade, status, poisoned, replyVars, logVars>>

\* Step 3: fork.lock(); a poisoned mutex is a PipelineError.
AcquireFork(r) ==
    /\ pc[r] = "lock"
    /\ forkOwner = NoRequest
    /\ IF poisoned
       THEN LeaveWithout(r, "error") /\ UNCHANGED <<age, forkOwner>>
       ELSE /\ forkOwner' = r
            /\ pc' = [pc EXCEPT ![r] = "sim"]
            /\ UNCHANGED <<clockVars, status, replyVars>>
    /\ UNCHANGED <<downgrade, poisoned, logVars>>

\* Mutant: the guard lives on across the await, as it does without its inner block.
SimulatedHoldingFork(r) ==
    /\ pc[r] = "sim"
    /\ pc' = [pc EXCEPT ![r] = "checkers"]
    /\ UNCHANGED <<clockVars, downgrade, status, forkVars, replyVars, logVars>>

\* execute_transaction returned a trace; the guard is dropped before the await.
Simulated(r) ==
    /\ pc[r] = "sim"
    /\ forkOwner' = NoRequest
    /\ pc' = [pc EXCEPT ![r] = "checkers"]
    /\ UNCHANGED <<clockVars, downgrade, status, poisoned, replyVars, logVars>>

\* execute_transaction returned an error; `?` drops the guard.
SimulationFailed(r) ==
    /\ pc[r] = "sim"
    /\ forkOwner' = NoRequest
    /\ LeaveWithout(r, "error")
    /\ UNCHANGED <<age, downgrade, poisoned, logVars>>

\* execute_transaction panicked: the guard is dropped while unwinding, which
\* poisons the mutex, and the request's task dies without an answer.
SimulationPanicked(r) ==
    /\ pc[r] = "sim"
    /\ forkOwner' = NoRequest
    /\ poisoned' = TRUE
    /\ LeaveWithout(r, "dropped")
    /\ UNCHANGED <<age, downgrade, logVars>>
----------------------------------------------------------------------------
(* Step 4: run_checkers, join_all over one timeout per checker.            *)

CheckerCompletes(r, c, severity) ==
    /\ pc[r] = "checkers"
    /\ status[r][c] = "Pending"
    /\ status' = [status EXCEPT ![r][c] = severity]
    /\ UNCHANGED <<clockVars, pc, downgrade, forkVars, replyVars, logVars>>

CheckerTimesOut(r, c) ==
    /\ pc[r] = "checkers"
    /\ status[r][c] = "Pending"
    /\ checkElapsed[r] >= CheckerDeadline
    /\ status' = [status EXCEPT ![r][c] = "TimedOut"]
    /\ UNCHANGED <<clockVars, pc, downgrade, forkVars, replyVars, logVars>>

AllReported(r) == \A c \in Checkers : status[r][c] # "Pending"

\* Mutant: the downgrade reason is reported but not applied.
FinalVerdictAsScored(r, score) == score_to_verdict(score, Reported(status[r]))

\* The verdict is downgraded from what was sampled at the start.
FinalVerdict(r, score) ==
    LET verdict == score_to_verdict(score, Reported(status[r]))
    IN  IF downgrade[r] /\ verdict = "APPROVE" THEN "WARN" ELSE verdict

AttestationFor(r, score) ==
    Attest(FinalVerdict(r, score), encode_score_u16(score), status[r])

LogEntryFor(r, att) == LogEntry(r, att, TimedOut(status[r]))

PossibleScores(r) == {compute_safety_score(StatusesIn(o, status[r])) : o \in Orders}

\* The attestations the results of r can lead to, one for each HashMap order.
PossibleAttestations(r) ==
    {AttestationFor(r, score) : score \in PossibleScores(r)}

\* Mutant: the log entry is spawned before signing, which may still fail.
FinishLogsFirst(r) ==
    /\ pc[r] = "checkers"
    /\ AllReported(r)
    /\ \E att \in PossibleAttestations(r) :
          /\ LeaveWith(r, att) \/ LeaveWithout(r, "error")
          /\ spawned' = IF DbConfigured THEN spawned \cup {LogEntryFor(r, att)} ELSE spawned
    /\ UNCHANGED <<age, downgrade, forkVars, verdict_log, lostInserts>>

\* Mutant: a BLOCK is not logged.
FinishDropsBlocks(r) ==
    /\ pc[r] = "checkers"
    /\ AllReported(r)
    /\ \/ \E att \in PossibleAttestations(r) :
             /\ LeaveWith(r, att)
             /\ spawned' = IF DbConfigured /\ att.verdict # "BLOCK"
                           THEN spawned \cup {LogEntryFor(r, att)} ELSE spawned
       \/ LeaveWithout(r, "error") /\ UNCHANGED spawned
    /\ UNCHANGED <<age, downgrade, forkVars, verdict_log, lostInserts>>

\* Steps 5 to 10 have no await between them: score in some HashMap order,
\* downgrade, hash, sign (which may fail), spawn the log insert, return.
Finish(r) ==
    /\ pc[r] = "checkers"
    /\ AllReported(r)
    /\ \/ \E att \in PossibleAttestations(r) :
             /\ LeaveWith(r, att)
             /\ spawned' = IF DbConfigured THEN spawned \cup {LogEntryFor(r, att)}
                                           ELSE spawned
       \/ LeaveWithout(r, "error") /\ UNCHANGED spawned
    /\ UNCHANGED <<age, downgrade, forkVars, verdict_log, lostInserts>>

\* Mutant: at the deadline the pipeline blocks on the results it has so far.
DeadlineBlocks(r) ==
    /\ pc[r] = "checkers"
    /\ ~AllReported(r)
    /\ elapsed[r] >= PipelineDeadline
    /\ LeaveWith(r, Attest("BLOCK", 0, status[r]))
    /\ UNCHANGED <<age, downgrade, forkVars, logVars>>

\* The top-level timeout fires at the await.  It polls the inner future first,
\* so it wins only while some checker is pending; the inner future is dropped.
DeadlineExceeded(r) ==
    /\ pc[r] = "checkers"
    /\ ~AllReported(r)
    /\ elapsed[r] >= PipelineDeadline
    /\ pc' = [pc EXCEPT ![r] = "timeoutLock"]
    /\ checkElapsed' = [checkElapsed EXCEPT ![r] = 0]
    /\ status' = [status EXCEPT ![r] = [c \in Checkers |-> "Pending"]]
    /\ UNCHANGED <<age, elapsed, downgrade, forkVars, replyVars, logVars>>

\* The future is dropped at the await: the client hung up, or a checker
\* panicked and took the request's task with it.
Abandoned(r) ==
    /\ pc[r] = "checkers"
    /\ LeaveWithout(r, "dropped")
    /\ UNCHANGED <<age, downgrade, forkVars, logVars>>

TimeoutAttestation == Attest("TIMEOUT", TIMEOUT_SENTINEL, ZeroHash)

\* build_timeout_response: needs the fork mutex for pinned_slot, signs a
\* sentinel attestation (signing may fail), and does not log it.
build_timeout_response(r) ==
    /\ pc[r] = "timeoutLock"
    /\ forkOwner = NoRequest
    /\ \/ ~poisoned /\ LeaveWith(r, TimeoutAttestation)
       \/ LeaveWithout(r, "error")
    /\ UNCHANGED <<age, downgrade, forkVars, logVars>>
----------------------------------------------------------------------------
(* log_verdict: the spawned insert task.                                   *)

insert_verdict(entry) ==
    /\ entry \in spawned
    /\ spawned' = spawned \ {entry}
    /\ verdict_log' = verdict_log \cup {entry}
    /\ UNCHANGED <<clockVars, pc, downgrade, status, forkVars, replyVars, lostInserts>>

InsertFails(entry) ==
    /\ entry \in spawned
    /\ spawned' = spawned \ {entry}
    /\ lostInserts' = lostInserts \cup {entry}
    /\ UNCHANGED <<clockVars, pc, downgrade, status, forkVars, replyVars, verdict_log>>
----------------------------------------------------------------------------
RequestStep(r) ==
    \/ AcquireFork(r) \/ Simulated(r) \/ SimulationFailed(r) \/ SimulationPanicked(r)
    \/ \E c \in Checkers : CheckerTimesOut(r, c)
    \/ \E c \in Checkers : \E s \in Findings : CheckerCompletes(r, c, s)
    \/ Finish(r)
    \/ DeadlineExceeded(r) \/ Abandoned(r) \/ build_timeout_response(r)

LogStep == \E entry \in spawned : insert_verdict(entry) \/ InsertFails(entry)

Next ==
    \/ Tick
    \/ record_update
    \/ \E r \in Requests : BeginEvaluate(r) \/ RequestStep(r)
    \/ LogStep

Spec == Init /\ [][Next]_vars

\* What a request does on its own: the thread runs when it can, and a checker
\* that hangs is cut by its timer.
Progress(r) ==
    \/ AcquireFork(r) \/ Simulated(r) \/ SimulationFailed(r) \/ SimulationPanicked(r)
    \/ \E c \in Checkers : CheckerTimesOut(r, c)
    \/ Finish(r)
    \/ build_timeout_response(r)

\* Time passes, every request gets to run and every spawned task is scheduled.
\* No client has to submit or hang up, no checker has to answer, no deadline has
\* to win its race and no Geyser update has to arrive.
Fairness ==
    /\ WF_vars(Tick)
    /\ \A r \in Requests : WF_vars(Progress(r))
    /\ WF_vars(LogStep)

FairSpec == Spec /\ Fairness
----------------------------------------------------------------------------
(* Properties.                                                             *)

\* Every log entry, wherever its insert stands.
Entries == spawned \cup verdict_log \cup lostInserts

\* Every variable holds a value the program can hold, and the clocks stay
\* within their saturation bounds.
TypeOK ==
    /\ age \in 0..(TimeoutThreshold + 1)
    /\ pc \in [Requests -> PC]
    /\ elapsed \in [Requests -> 0..(PipelineDeadline + 1)]
    /\ checkElapsed \in [Requests -> 0..CheckerDeadline]
    /\ downgrade \in [Requests -> BOOLEAN]
    /\ status \in [Requests -> [Checkers -> CheckerStatus \cup {"Pending"}]]
    /\ forkOwner \in Requests \cup {NoRequest}
    /\ poisoned \in BOOLEAN
    /\ outcome \in [Requests -> {"none", "attested", "error", "dropped"}]
    /\ DOMAIN attestation = Requests
    /\ \A r \in Requests : IsAttestation(attestation[r]) \/ attestation[r] = NoAttestation
    /\ \A e \in Entries : IsLogEntry(e)

\* A TIMEOUT by each of its fields, or a judgement by each of them.
Unmistakable(att) ==
    \/ att = Attest("TIMEOUT", 65535, ZeroHash)
    \/ /\ att.verdict \in {"APPROVE", "WARN", "BLOCK"}
       /\ att.safety_score \in 0..10000
       /\ att.hash \in [Checkers -> CheckerStatus]

\* A client tells a judgement from a TIMEOUT by the verdict, by the score or by the
\* hash, and the three never disagree: the sentinel score and the zero hash go with
\* TIMEOUT and with nothing else, and a judgement has a score of at most 10000 and
\* covers every checker, although the deadline may cut the suite half-reported.
TimeoutsAreUnmistakable ==
    \A r \in Requests : outcome[r] = "attested" => Unmistakable(attestation[r])

\* What is logged was issued: an entry, from the spawn on, carries exactly the
\* attestation its caller received.  A request that failed to sign, was cut by
\* the deadline or was abandoned at the await leaves no entry, and neither does
\* a TIMEOUT verdict.
LoggedVerdictsWereIssued ==
    \A e \in Entries :
        /\ outcome[e.req] = "attested"
        /\ attestation[e.req] = e.attestation
        /\ e.attestation.verdict # "TIMEOUT"

\* With a database, every verdict other than TIMEOUT has exactly one entry: its
\* insert is under way, done, or failed.  Only a failed insert loses a verdict.
EveryVerdictIsAccountedFor ==
    /\ \A r \in Requests :
          (DbConfigured /\ outcome[r] = "attested" /\ attestation[r].verdict # "TIMEOUT")
          => \E e \in Entries : e.req = r
    /\ \A e, f \in Entries : e.req = f.req => e = f
    /\ spawned \cap verdict_log = {}
    /\ spawned \cap lostInserts = {}
    /\ verdict_log \cap lostInserts = {}

\* An APPROVE rests on the results of its own request: the state was fresh when
\* the request began, and no completed output is High or Critical.
ApproveRestsOnEvidence ==
    \A r \in Requests :
        attestation[r].verdict = "APPROVE" =>
            /\ ~downgrade[r]
            /\ \A c \in Checkers :
                  attestation[r].hash[c] \in {"None", "Low", "Medium", "TimedOut"}

\* The fork mutex is held exactly by the request that simulates: never across
\* the await, never after the request ended by an error, panic or deadline.
ForkHeldOnlyToSimulate ==
    \A r \in Requests : (pc[r] = "sim") <=> (forkOwner = r)

\* After a panic under the mutex the pipeline fails closed: a request that had
\* not been simulated by then never gets an attestation, not even a TIMEOUT.
PoisonedForkNeverAttests ==
    \A r \in Requests :
        [](poisoned /\ pc[r] \in {"idle", "lock", "timeoutLock"}
              => [](outcome[r] # "attested"))

\* staleness.rs: "In-flight verdicts should be downgraded to WARN": an APPROVE
\* is not signed while the tracker is past the warn threshold.
InFlightVerdictsAreDowngraded ==
    [][\A r \in Requests :
          (outcome[r] = "none" /\ outcome'[r] = "attested")
          => ~(attestation'[r].verdict = "APPROVE" /\ Staleness # "Fresh")]_vars
----------------------------------------------------------------------------
(* The pipeline implements the verdict service.                            *)

\* What the caller can tell of a request.
PhaseOf(r) ==
    CASE pc[r] = "idle" -> "idle"
      [] pc[r] \in {"lock", "sim", "timeoutLock"} -> "pending"
      [] pc[r] = "checkers" -> "judged"
      [] pc[r] = "done" -> outcome[r]

Service == INSTANCE VerdictService WITH
    Verdicts <- Verdict, NotSigned <- NoAttestation,
    phase <- [r \in Requests |-> PhaseOf(r)], issued <- attestation,
    journal <- {<<e.req, e.attestation>> : e \in verdict_log},
    broken <- poisoned

\* The pipeline is an implementation of VerdictService.
ImplementsVerdictService == Service!ServiceSpec
=============================================================================
