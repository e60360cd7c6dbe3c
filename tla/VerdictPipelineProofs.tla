------------------------ MODULE VerdictPipelineProofs ------------------------
(***************************************************************************)
(* Proofs about VerdictPipeline, for every set of requests and checkers    *)
(* and all thresholds and deadlines.                                       *)
(***************************************************************************)
EXTENDS Server, ScorerProofs, FiniteSetTheorems

\* A request has an outcome exactly when its future is gone, and holds an
\* attestation exactly when that outcome is "attested".
AnsweredWhenDone ==
    \A r \in Requests :
        /\ (pc[r] = "done") <=> (outcome[r] # "none")
        /\ (outcome[r] = "attested") <=> (attestation[r] # NoAttestation)

----------------------------------------------------------------------------
(* Facts about the attestations a request can be given.                    *)

\* score_to_verdict and the staleness downgrade never produce TIMEOUT: whatever
\* the score is.
LEMMA FinalVerdictType ==
    ASSUME NEW r \in Requests, NEW score
    PROVE  FinalVerdict(r, score) \in {"APPROVE", "WARN", "BLOCK"}
BY DEF FinalVerdict, score_to_verdict

\* Every attestation of a finished evaluation is well formed and not a TIMEOUT.
LEMMA PossibleAttestationsType ==
    ASSUME TypeOK, NEW r \in Requests, NEW att \in PossibleAttestations(r)
    PROVE  /\ IsAttestation(att)
           /\ att.verdict # "TIMEOUT"
           /\ att # NoAttestation
<1>1. PICK score : att = Attest(FinalVerdict(r, score), encode_score_u16(score), status[r])
  BY DEF PossibleAttestations, AttestationFor
<1>2. att.verdict \in {"APPROVE", "WARN", "BLOCK"}
  BY <1>1, FinalVerdictType DEF Attest
<1>3. att.hash \in Hashes
  BY <1>1 DEF Attest, TypeOK, Hashes
<1>4. att = Attest(att.verdict, att.safety_score, att.hash)
  BY <1>1 DEF Attest
<1>5. att # NoAttestation
  BY <1>2 DEF NoAttestation, Attest
<1> QED BY <1>2, <1>3, <1>4, <1>5 DEF IsAttestation, Verdict

(* The TIMEOUT attestation of build_timeout_response is an attestation of   *)
(* the pipeline's type.                                                    *)
LEMMA TimeoutAttestationType ==
    IsAttestation(TimeoutAttestation) /\ TimeoutAttestation # NoAttestation
<1>1. TimeoutAttestation.verdict = "TIMEOUT" /\ TimeoutAttestation.hash = ZeroHash
  BY DEF TimeoutAttestation, Attest
<1>2. ZeroHash \in Hashes
  BY DEF ZeroHash, Hashes
<1>3. NoAttestation.verdict = "none"
  BY DEF NoAttestation, Attest
<1>4. TimeoutAttestation = Attest(TimeoutAttestation.verdict,
                                  TimeoutAttestation.safety_score, TimeoutAttestation.hash)
  BY DEF TimeoutAttestation, Attest
<1> QED BY <1>1, <1>2, <1>3, <1>4 DEF IsAttestation, Verdict
----------------------------------------------------------------------------
(* Type correctness.                                                       *)

\* The variables that only log entries and replies do not touch.
LocalTypes ==
    /\ age \in 0..(TimeoutThreshold + 1)
    /\ pc \in [Requests -> PC]
    /\ elapsed \in [Requests -> 0..(PipelineDeadline + 1)]
    /\ checkElapsed \in [Requests -> 0..CheckerDeadline]
    /\ downgrade \in [Requests -> BOOLEAN]
    /\ status \in [Requests -> [Checkers -> CheckerStatus \cup {"Pending"}]]
    /\ forkOwner \in Requests \cup {NoRequest}
    /\ poisoned \in BOOLEAN
    /\ outcome \in [Requests -> {"none", "attested", "error", "dropped"}]

AttestationTypes ==
    /\ DOMAIN attestation = Requests
    /\ \A r \in Requests : IsAttestation(attestation[r]) \/ attestation[r] = NoAttestation

EntryTypes == \A e \in Entries : IsLogEntry(e)

(* TypeOK is the conjunction of the three parts the step lemmas preserve.  *)
LEMMA TypeSplit == TypeOK <=> LocalTypes /\ AttestationTypes /\ EntryTypes
BY DEF TypeOK, LocalTypes, AttestationTypes, EntryTypes

\* A request that ends keeps its local variables typed.
LEMMA LeaveTypes ==
    ASSUME LocalTypes, NEW r \in Requests,
           NEW result \in {"attested", "error", "dropped"}, Leave(r, result)
    PROVE  /\ pc' \in [Requests -> PC]
           /\ elapsed' \in [Requests -> 0..(PipelineDeadline + 1)]
           /\ checkElapsed' \in [Requests -> 0..CheckerDeadline]
           /\ status' \in [Requests -> [Checkers -> CheckerStatus \cup {"Pending"}]]
           /\ outcome' \in [Requests -> {"none", "attested", "error", "dropped"}]
<1> USE PipelineAssumption DEF Leave, LocalTypes
<1>1. pc' \in [Requests -> PC]
  BY DEF PC
<1>2. elapsed' \in [Requests -> 0..(PipelineDeadline + 1)]
  OBVIOUS
<1>3. checkElapsed' \in [Requests -> 0..CheckerDeadline]
  OBVIOUS
<1>4. status' \in [Requests -> [Checkers -> CheckerStatus \cup {"Pending"}]]
  OBVIOUS
<1>5. outcome' \in [Requests -> {"none", "attested", "error", "dropped"}]
  OBVIOUS
<1> QED BY <1>1, <1>2, <1>3, <1>4, <1>5

\* Storing a well-formed attestation keeps the replies typed.
LEMMA LeaveWithTypes ==
    ASSUME AttestationTypes, NEW r \in Requests, NEW att, IsAttestation(att),
           LeaveWith(r, att)
    PROVE  AttestationTypes'
<1>1. attestation' = [attestation EXCEPT ![r] = att]
  BY DEF LeaveWith
<1>2. DOMAIN attestation' = Requests
  BY <1>1 DEF AttestationTypes
<1>3. ASSUME NEW q \in Requests
      PROVE  IsAttestation(attestation'[q]) \/ attestation'[q] = NoAttestation
  <2>1. CASE q = r
    BY <1>1, <2>1 DEF AttestationTypes
  <2>2. CASE q # r
    BY <1>1, <2>2 DEF AttestationTypes
  <2> QED BY <2>1, <2>2
<1> QED BY <1>2, <1>3 DEF AttestationTypes, IsAttestation, Attest, NoAttestation, ZeroHash

(* A tick of the clock only moves ages that saturate, so types survive it. *)
LEMMA TickTypes == LocalTypes /\ Tick => LocalTypes'
<1> SUFFICES ASSUME LocalTypes, Tick PROVE LocalTypes'
  OBVIOUS
<1> USE PipelineAssumption DEF Tick, LocalTypes, Saturate
<1>1. age' \in 0..(TimeoutThreshold + 1)
  OBVIOUS
<1>2. elapsed' \in [Requests -> 0..(PipelineDeadline + 1)]
  OBVIOUS
<1>3. checkElapsed' \in [Requests -> 0..CheckerDeadline]
  OBVIOUS
<1> QED BY <1>1, <1>2, <1>3 DEF forkVars, replyVars

\* One step of a request keeps its local variables typed.
LEMMA RequestStepTypes ==
    ASSUME LocalTypes, NEW r \in Requests, BeginEvaluate(r) \/ RequestStep(r)
    PROVE  LocalTypes'
<1> USE DEF clockVars, forkVars, replyVars
<1>1. CASE BeginEvaluate(r)
  BY <1>1 DEF LocalTypes, BeginEvaluate, PC
<1>2. CASE AcquireFork(r)
  <2>1. CASE poisoned
    BY <1>2, <2>1, LeaveTypes DEF LocalTypes, AcquireFork, LeaveWithout
  <2>2. CASE ~poisoned
    BY <1>2, <2>2 DEF LocalTypes, AcquireFork, PC
  <2> QED BY <2>1, <2>2
<1>3. CASE Simulated(r)
  BY <1>3 DEF LocalTypes, Simulated, PC
<1>4. CASE SimulationFailed(r)
  BY <1>4, LeaveTypes DEF LocalTypes, SimulationFailed, LeaveWithout
<1>5. CASE SimulationPanicked(r)
  BY <1>5, LeaveTypes DEF LocalTypes, SimulationPanicked, LeaveWithout
<1>6. CASE \E c \in Checkers : CheckerTimesOut(r, c)
  BY <1>6 DEF LocalTypes, CheckerTimesOut, CheckerStatus
<1>7. CASE \E c \in Checkers : \E s \in Findings : CheckerCompletes(r, c, s)
  BY <1>7, PipelineAssumption DEF LocalTypes, CheckerCompletes, CheckerStatus
<1>8. CASE Finish(r)
  BY <1>8, LeaveTypes DEF LocalTypes, Finish, LeaveWith, LeaveWithout
<1>9. CASE DeadlineExceeded(r)
  BY <1>9, PipelineAssumption DEF LocalTypes, DeadlineExceeded, PC
<1>10. CASE Abandoned(r)
  BY <1>10, LeaveTypes DEF LocalTypes, Abandoned, LeaveWithout
<1>11. CASE build_timeout_response(r)
  BY <1>11, LeaveTypes DEF LocalTypes, build_timeout_response, LeaveWith, LeaveWithout
<1> QED BY <1>1, <1>2, <1>3, <1>4, <1>5, <1>6, <1>7, <1>8, <1>9, <1>10, <1>11
        DEF RequestStep

\* The replies and the log entries stay typed.
LEMMA ReplyStepTypes ==
    ASSUME TypeOK, NEW r \in Requests, BeginEvaluate(r) \/ RequestStep(r)
    PROVE  AttestationTypes' /\ EntryTypes'
<1> USE DEF replyVars, logVars
<1>0. AttestationTypes /\ EntryTypes
  BY TypeSplit
<1>1. CASE Finish(r)
  <2>1. CASE LeaveWithout(r, "error") /\ UNCHANGED spawned
    BY <1>0, <1>1, <2>1 DEF Finish, LeaveWithout, AttestationTypes, EntryTypes, Entries
  <2>2. CASE \E att \in PossibleAttestations(r) :
               /\ LeaveWith(r, att)
               /\ spawned' = IF DbConfigured THEN spawned \cup {LogEntryFor(r, att)}
                                             ELSE spawned
    <3>1. PICK att \in PossibleAttestations(r) :
               /\ LeaveWith(r, att)
               /\ spawned' = IF DbConfigured THEN spawned \cup {LogEntryFor(r, att)}
                                             ELSE spawned
      BY <2>2
    <3>2. IsAttestation(att)
      BY PossibleAttestationsType
    <3>3. AttestationTypes'
      BY <1>0, <3>1, <3>2, LeaveWithTypes
    <3>4. IsLogEntry(LogEntryFor(r, att))
      BY <3>2 DEF IsLogEntry, LogEntryFor, LogEntry, TimedOut
    <3>5. Entries' \subseteq Entries \cup {LogEntryFor(r, att)}
      BY <1>1, <3>1 DEF Entries, Finish
    <3> QED BY <1>0, <3>3, <3>4, <3>5 DEF EntryTypes
  <2> QED BY <1>1, <2>1, <2>2 DEF Finish
<1>2. CASE build_timeout_response(r)
  <2>1. EntryTypes'
    BY <1>0, <1>2 DEF build_timeout_response, EntryTypes, Entries
  <2>2. AttestationTypes'
    <3>1. CASE LeaveWith(r, TimeoutAttestation)
      BY <1>0, <3>1, LeaveWithTypes, TimeoutAttestationType
    <3>2. CASE LeaveWithout(r, "error")
      BY <1>0, <3>2 DEF LeaveWithout, AttestationTypes
    <3> QED BY <1>2, <3>1, <3>2 DEF build_timeout_response
  <2> QED BY <2>1, <2>2
<1>3. CASE UNCHANGED attestation /\ UNCHANGED logVars
  BY <1>0, <1>3 DEF AttestationTypes, EntryTypes, Entries
<1>4. ASSUME ~Finish(r), ~build_timeout_response(r)
      PROVE  UNCHANGED attestation /\ UNCHANGED logVars
  BY <1>4 DEF RequestStep, BeginEvaluate, AcquireFork, Simulated, SimulationFailed,
     SimulationPanicked, CheckerTimesOut, CheckerCompletes, DeadlineExceeded, Abandoned,
     LeaveWithout
<1> QED BY <1>1, <1>2, <1>3, <1>4

\* A step of a log task moves one entry and touches nothing else.
LEMMA LogStepFacts ==
    ASSUME LogStep
    PROVE  /\ UNCHANGED <<clockVars, pc, downgrade, status, forkVars, replyVars>>
           /\ Entries' = Entries
BY DEF LogStep, insert_verdict, InsertFails, Entries

\* Every step keeps the types.
LEMMA TypeStep == TypeOK /\ [Next]_vars => TypeOK'
<1> SUFFICES ASSUME TypeOK, [Next]_vars PROVE TypeOK'
  OBVIOUS
<1> USE DEF clockVars, forkVars, replyVars, logVars
<1>0. LocalTypes /\ AttestationTypes /\ EntryTypes
  BY TypeSplit
<1>1. CASE Tick
  <2>1. LocalTypes'
    BY <1>0, <1>1, TickTypes
  <2>2. AttestationTypes' /\ EntryTypes'
    BY <1>0, <1>1 DEF Tick, AttestationTypes, EntryTypes, Entries
  <2> QED BY <2>1, <2>2 DEF TypeOK, LocalTypes, AttestationTypes, EntryTypes
<1>2. CASE record_update
  BY <1>0, <1>2, PipelineAssumption DEF record_update, TypeOK, Entries
<1>3. ASSUME NEW r \in Requests, BeginEvaluate(r) \/ RequestStep(r)
      PROVE  TypeOK'
  <2>1. LocalTypes'
    BY <1>0, <1>3, RequestStepTypes
  <2>2. AttestationTypes' /\ EntryTypes'
    BY <1>3, ReplyStepTypes
  <2> QED BY <2>1, <2>2 DEF TypeOK, LocalTypes, AttestationTypes, EntryTypes
<1>4. CASE LogStep
  BY <1>4, LogStepFacts DEF TypeOK
<1>5. CASE UNCHANGED vars
  BY <1>5 DEF vars, TypeOK, Entries
<1> QED BY <1>1, <1>2, <1>3, <1>4, <1>5 DEF Next

(* A freshly constructed pipeline (VerdictPipeline::new) is well typed.    *)
LEMMA TypeInit == Init => TypeOK
<1> SUFFICES ASSUME Init PROVE TypeOK
  OBVIOUS
<1>1. LocalTypes
  <2>1. age \in 0..(TimeoutThreshold + 1)
    BY PipelineAssumption DEF Init
  <2>2. pc \in [Requests -> PC]
    BY DEF Init, PC
  <2>3. elapsed \in [Requests -> 0..(PipelineDeadline + 1)]
    BY PipelineAssumption DEF Init
  <2>4. checkElapsed \in [Requests -> 0..CheckerDeadline]
    BY PipelineAssumption DEF Init
  <2>5. downgrade \in [Requests -> BOOLEAN]
    BY DEF Init
  <2>6. status \in [Requests -> [Checkers -> CheckerStatus \cup {"Pending"}]]
    BY DEF Init
  <2>7. /\ forkOwner \in Requests \cup {NoRequest}
        /\ poisoned \in BOOLEAN
        /\ outcome \in [Requests -> {"none", "attested", "error", "dropped"}]
    BY DEF Init
  <2> QED BY <2>1, <2>2, <2>3, <2>4, <2>5, <2>6, <2>7 DEF LocalTypes
<1>2. AttestationTypes /\ EntryTypes
  BY DEF Init, AttestationTypes, EntryTypes, Entries
<1> QED BY <1>1, <1>2, TypeSplit

\* Type correctness of the pipeline, for every instance.
THEOREM TypeCorrect == Spec => []TypeOK
BY TypeInit, TypeStep, PTL DEF Spec
----------------------------------------------------------------------------
(* The inductive invariant.                                                *)

\* Nobody simulates on a poisoned fork.
PoisonStopsSimulation == poisoned => forkOwner = NoRequest

IInv == /\ TypeOK
        /\ AnsweredWhenDone
        /\ ForkHeldOnlyToSimulate
        /\ PoisonStopsSimulation
        /\ LoggedVerdictsWereIssued
        /\ EveryVerdictIsAccountedFor

\* What a step of r may do to the replies and the log: nothing, end without an
\* attestation, issue a TIMEOUT, or issue a verdict and spawn its log entry.
StaysOpen(r) ==
    pc'[r] # "done" /\ UNCHANGED <<outcome, attestation, spawned, verdict_log, lostInserts>>

EndsUnattested(r) ==
    /\ pc'[r] = "done"
    /\ \E result \in {"error", "dropped"} : outcome' = [outcome EXCEPT ![r] = result]
    /\ UNCHANGED <<attestation, spawned, verdict_log, lostInserts>>

EndsAttested(r, att) ==
    /\ pc'[r] = "done"
    /\ IsAttestation(att) /\ att # NoAttestation
    /\ outcome' = [outcome EXCEPT ![r] = "attested"]
    /\ attestation' = [attestation EXCEPT ![r] = att]
    /\ UNCHANGED <<verdict_log, lostInserts>>

TimesOut(r) ==
    \E att : /\ EndsAttested(r, att)
             /\ att.verdict = "TIMEOUT"
             /\ UNCHANGED spawned

IssuesVerdict(r) ==
    \E att, entry :
        /\ EndsAttested(r, att)
        /\ att.verdict # "TIMEOUT"
        /\ entry.req = r /\ entry.attestation = att
        /\ entry.timed_out = {c \in Checkers : att.hash[c] = "TimedOut"}
        /\ spawned' = IF DbConfigured THEN spawned \cup {entry} ELSE spawned

\* Every step of a request is one of these four, by a request that had not
\* ended, and leaves the other requests where they are.
LEMMA RequestEffect ==
    ASSUME TypeOK, NEW r \in Requests, BeginEvaluate(r) \/ RequestStep(r)
    PROVE  /\ pc[r] # "done"
           /\ \A q \in Requests \ {r} : pc'[q] = pc[q]
           /\ StaysOpen(r) \/ EndsUnattested(r) \/ TimesOut(r) \/ IssuesVerdict(r)
<1> USE DEF replyVars, logVars
<1>0. pc \in [Requests -> PC] /\ DOMAIN attestation = Requests
  BY DEF TypeOK
<1>1. CASE BeginEvaluate(r)
  BY <1>0, <1>1 DEF BeginEvaluate, StaysOpen
<1>2. CASE AcquireFork(r)
  BY <1>0, <1>2 DEF AcquireFork, LeaveWithout, Leave, StaysOpen, EndsUnattested
<1>3. CASE Simulated(r)
  BY <1>0, <1>3 DEF Simulated, StaysOpen
<1>4. CASE SimulationFailed(r)
  BY <1>0, <1>4 DEF SimulationFailed, LeaveWithout, Leave, EndsUnattested
<1>5. CASE SimulationPanicked(r)
  BY <1>0, <1>5 DEF SimulationPanicked, LeaveWithout, Leave, EndsUnattested
<1>6. CASE \E c \in Checkers : CheckerTimesOut(r, c)
  BY <1>0, <1>6 DEF CheckerTimesOut, StaysOpen
<1>7. CASE \E c \in Checkers : \E s \in Findings : CheckerCompletes(r, c, s)
  BY <1>0, <1>7 DEF CheckerCompletes, StaysOpen
<1>8. CASE Finish(r)
  <2>0. pc[r] # "done" /\ pc' = [pc EXCEPT ![r] = "done"]
    BY <1>8 DEF Finish, LeaveWith, LeaveWithout, Leave
  <2>1. CASE LeaveWithout(r, "error") /\ UNCHANGED spawned
    BY <1>0, <1>8, <2>0, <2>1 DEF Finish, LeaveWithout, Leave, EndsUnattested
  <2>2. CASE ~(LeaveWithout(r, "error") /\ UNCHANGED spawned)
    <3>1. PICK att \in PossibleAttestations(r) :
               /\ LeaveWith(r, att)
               /\ spawned' = IF DbConfigured THEN spawned \cup {LogEntryFor(r, att)}
                                             ELSE spawned
      BY <1>8, <2>2 DEF Finish
    <3>2. IsAttestation(att) /\ att # NoAttestation /\ att.verdict # "TIMEOUT"
      BY PossibleAttestationsType
    <3>3. EndsAttested(r, att)
      BY <1>0, <1>8, <2>0, <3>1, <3>2 DEF Finish, LeaveWith, Leave, EndsAttested
    <3>4. LogEntryFor(r, att).req = r /\ LogEntryFor(r, att).attestation = att
      BY DEF LogEntryFor, LogEntry
    <3>5. LogEntryFor(r, att).timed_out = {c \in Checkers : att.hash[c] = "TimedOut"}
      <4>1. att.hash = status[r]
        BY DEF PossibleAttestations, AttestationFor, Attest
      <4> QED
        BY <4>1 DEF LogEntryFor, LogEntry, TimedOut
    <3>6. IssuesVerdict(r)
      BY <3>1, <3>2, <3>3, <3>4, <3>5 DEF IssuesVerdict
    <3> QED BY <1>0, <2>0, <3>6
  <2> QED BY <2>1, <2>2
<1>9. CASE DeadlineExceeded(r)
  BY <1>0, <1>9 DEF DeadlineExceeded, StaysOpen
<1>10. CASE Abandoned(r)
  BY <1>0, <1>10 DEF Abandoned, LeaveWithout, Leave, EndsUnattested
<1>11. CASE build_timeout_response(r)
  <2>1. CASE LeaveWith(r, TimeoutAttestation)
    <3>1. TimeoutAttestation.verdict = "TIMEOUT"
      BY DEF TimeoutAttestation, Attest
    <3>2. EndsAttested(r, TimeoutAttestation)
      BY <1>0, <1>11, <2>1, TimeoutAttestationType
         DEF build_timeout_response, LeaveWith, Leave, EndsAttested
    <3>3. TimesOut(r)
      BY <1>11, <3>1, <3>2 DEF TimesOut, build_timeout_response
    <3> QED BY <1>0, <1>11, <2>1, <3>3 DEF build_timeout_response, LeaveWith, Leave
  <2>2. CASE LeaveWithout(r, "error")
    BY <1>0, <1>11, <2>2 DEF build_timeout_response, LeaveWithout, Leave, EndsUnattested
  <2> QED BY <1>11, <2>1, <2>2 DEF build_timeout_response
<1> QED BY <1>1, <1>2, <1>3, <1>4, <1>5, <1>6, <1>7, <1>8, <1>9, <1>10, <1>11
        DEF RequestStep

\* The mutex invariant: acquired on entry to the simulation, released on every
\* way out of it.
LEMMA ForkStep ==
    ASSUME TypeOK, ForkHeldOnlyToSimulate, NEW r \in Requests,
           PoisonStopsSimulation, BeginEvaluate(r) \/ RequestStep(r)
    PROVE  ForkHeldOnlyToSimulate' /\ PoisonStopsSimulation'
<1> USE PipelineAssumption DEF ForkHeldOnlyToSimulate, PoisonStopsSimulation, forkVars
<1>0. pc \in [Requests -> PC] /\ forkOwner \in Requests \cup {NoRequest}
  BY DEF TypeOK
<1>1. CASE BeginEvaluate(r)
  BY <1>0, <1>1 DEF BeginEvaluate
<1>2. CASE AcquireFork(r)
  BY <1>0, <1>2 DEF AcquireFork, LeaveWithout, Leave
<1>3. CASE Simulated(r)
  BY <1>0, <1>3 DEF Simulated
<1>4. CASE SimulationFailed(r)
  BY <1>0, <1>4 DEF SimulationFailed, LeaveWithout, Leave
<1>5. CASE SimulationPanicked(r)
  BY <1>0, <1>5 DEF SimulationPanicked, LeaveWithout, Leave
<1>6. CASE \E c \in Checkers : CheckerTimesOut(r, c)
  BY <1>0, <1>6 DEF CheckerTimesOut
<1>7. CASE \E c \in Checkers : \E s \in Findings : CheckerCompletes(r, c, s)
  BY <1>0, <1>7 DEF CheckerCompletes
<1>8. CASE Finish(r)
  BY <1>0, <1>8 DEF Finish, LeaveWith, LeaveWithout, Leave
<1>9. CASE DeadlineExceeded(r)
  BY <1>0, <1>9 DEF DeadlineExceeded
<1>10. CASE Abandoned(r)
  BY <1>0, <1>10 DEF Abandoned, LeaveWithout, Leave
<1>11. CASE build_timeout_response(r)
  BY <1>0, <1>11 DEF build_timeout_response, LeaveWith, LeaveWithout, Leave
<1> QED BY <1>1, <1>2, <1>3, <1>4, <1>5, <1>6, <1>7, <1>8, <1>9, <1>10, <1>11
        DEF RequestStep

\* A step of a request preserves the invariant on replies and log entries.
LEMMA ReplyStep ==
    ASSUME IInv, NEW r \in Requests, BeginEvaluate(r) \/ RequestStep(r)
    PROVE  AnsweredWhenDone' /\ LoggedVerdictsWereIssued' /\ EveryVerdictIsAccountedFor'
<1>0. /\ TypeOK /\ AnsweredWhenDone
      /\ LoggedVerdictsWereIssued /\ EveryVerdictIsAccountedFor
      /\ outcome \in [Requests -> {"none", "attested", "error", "dropped"}]
      /\ pc \in [Requests -> PC] /\ DOMAIN attestation = Requests
  BY DEF IInv, TypeOK
<1>1. /\ pc[r] # "done"
      /\ \A q \in Requests \ {r} : pc'[q] = pc[q]
      /\ StaysOpen(r) \/ EndsUnattested(r) \/ TimesOut(r) \/ IssuesVerdict(r)
  BY <1>0, RequestEffect
<1>2. outcome[r] = "none" /\ attestation[r] = NoAttestation
  BY <1>0, <1>1 DEF AnsweredWhenDone
<1>3. \A e \in Entries : e.req \in Requests /\ e.req # r
  BY <1>0, <1>2 DEF LoggedVerdictsWereIssued, TypeOK, IsLogEntry
<1>4. CASE StaysOpen(r)
  <2>1. AnsweredWhenDone'
    BY <1>0, <1>1, <1>2, <1>4 DEF StaysOpen, AnsweredWhenDone, NoAttestation, Attest, ZeroHash
  <2>2. LoggedVerdictsWereIssued' /\ EveryVerdictIsAccountedFor'
    BY <1>0, <1>4
       DEF StaysOpen, LoggedVerdictsWereIssued, EveryVerdictIsAccountedFor, Entries
  <2> QED BY <2>1, <2>2
<1>5. CASE EndsUnattested(r)
  <2>0. \A q \in Requests \ {r} : outcome'[q] = outcome[q]
    BY <1>0, <1>5 DEF EndsUnattested
  <2>1. outcome'[r] \in {"error", "dropped"} /\ Entries' = Entries
    BY <1>0, <1>5 DEF EndsUnattested, Entries
  <2>2. AnsweredWhenDone'
    BY <1>0, <1>1, <1>2, <1>5, <2>0, <2>1
       DEF EndsUnattested, AnsweredWhenDone, NoAttestation, Attest, ZeroHash
  <2>3. LoggedVerdictsWereIssued'
    BY <1>0, <1>3, <1>5, <2>0, <2>1 DEF EndsUnattested, LoggedVerdictsWereIssued
  <2>4. EveryVerdictIsAccountedFor'
    BY <1>0, <1>5, <2>0, <2>1 DEF EndsUnattested, EveryVerdictIsAccountedFor
  <2> QED BY <2>2, <2>3, <2>4
<1>6. ASSUME NEW att, EndsAttested(r, att)
      PROVE  /\ AnsweredWhenDone'
             /\ outcome'[r] = "attested" /\ attestation'[r] = att
             /\ \A q \in Requests \ {r} :
                   outcome'[q] = outcome[q] /\ attestation'[q] = attestation[q]
  <2>1. /\ outcome'[r] = "attested" /\ attestation'[r] = att
        /\ \A q \in Requests \ {r} :
              outcome'[q] = outcome[q] /\ attestation'[q] = attestation[q]
    BY <1>0, <1>6 DEF EndsAttested
  <2> QED BY <1>0, <1>1, <1>6, <2>1
          DEF EndsAttested, AnsweredWhenDone, NoAttestation, Attest, ZeroHash
<1>7. CASE TimesOut(r)
  <2>1. PICK att : EndsAttested(r, att) /\ att.verdict = "TIMEOUT" /\ UNCHANGED spawned
    BY <1>7 DEF TimesOut
  <2>2. Entries' = Entries /\ UNCHANGED <<spawned, verdict_log, lostInserts>>
    BY <2>1 DEF EndsAttested, Entries
  <2>3. LoggedVerdictsWereIssued'
    BY <1>0, <1>3, <1>6, <2>1, <2>2 DEF LoggedVerdictsWereIssued
  <2>4. EveryVerdictIsAccountedFor'
    BY <1>0, <1>6, <2>1, <2>2 DEF EveryVerdictIsAccountedFor
  <2> QED BY <1>6, <2>1, <2>3, <2>4
<1>8. CASE IssuesVerdict(r)
  <2>1. PICK att, entry :
           /\ EndsAttested(r, att)
           /\ att.verdict # "TIMEOUT"
           /\ entry.req = r /\ entry.attestation = att
           /\ spawned' = IF DbConfigured THEN spawned \cup {entry} ELSE spawned
    BY <1>8 DEF IssuesVerdict
  <2>2. UNCHANGED <<verdict_log, lostInserts>>
    BY <2>1 DEF EndsAttested
  <2>3. Entries' = IF DbConfigured THEN Entries \cup {entry} ELSE Entries
    BY <2>1, <2>2 DEF Entries
  <2>4. entry \notin Entries
    BY <1>3, <2>1
  <2>5. LoggedVerdictsWereIssued'
    BY <1>0, <1>3, <1>6, <2>1, <2>3 DEF LoggedVerdictsWereIssued
  <2>6. \A q \in Requests :
           (DbConfigured /\ outcome'[q] = "attested" /\ attestation'[q].verdict # "TIMEOUT")
           => \E e \in Entries' : e.req = q
    BY <1>0, <1>6, <2>1, <2>3 DEF EveryVerdictIsAccountedFor
  <2>7. \A e, f \in Entries' : e.req = f.req => e = f
    BY <1>0, <1>3, <2>1, <2>3 DEF EveryVerdictIsAccountedFor
  <2>8. /\ spawned' \cap verdict_log' = {}
        /\ spawned' \cap lostInserts' = {}
        /\ verdict_log' \cap lostInserts' = {}
    BY <1>0, <2>1, <2>2, <2>4 DEF EveryVerdictIsAccountedFor, Entries
  <2>9. EveryVerdictIsAccountedFor'
    BY <2>6, <2>7, <2>8 DEF EveryVerdictIsAccountedFor
  <2> QED BY <1>6, <2>1, <2>5, <2>9
<1> QED BY <1>1, <1>4, <1>5, <1>7, <1>8

(* A freshly constructed pipeline satisfies the inductive invariant.       *)
LEMMA InvInit == Init => IInv
<1> SUFFICES ASSUME Init PROVE IInv
  OBVIOUS
<1>1. Entries = {} /\ spawned = {} /\ verdict_log = {} /\ lostInserts = {}
  BY DEF Init, Entries
<1>2. LoggedVerdictsWereIssued /\ EveryVerdictIsAccountedFor
  BY <1>1 DEF Init, LoggedVerdictsWereIssued, EveryVerdictIsAccountedFor
<1>3. AnsweredWhenDone /\ ForkHeldOnlyToSimulate /\ PoisonStopsSimulation
  BY PipelineAssumption
     DEF Init, AnsweredWhenDone, ForkHeldOnlyToSimulate, PoisonStopsSimulation
<1> QED BY <1>2, <1>3, TypeInit DEF IInv

(* Every step of the pipeline preserves the inductive invariant.           *)
LEMMA InvStep == IInv /\ [Next]_vars => IInv'
<1> SUFFICES ASSUME IInv, [Next]_vars PROVE IInv'
  OBVIOUS
<1> USE DEF forkVars, replyVars, logVars
<1>0. TypeOK'
  BY TypeStep DEF IInv
<1>1. ASSUME UNCHANGED <<pc, forkOwner, poisoned, outcome, attestation, spawned, verdict_log, lostInserts>>
      PROVE  IInv'
  BY <1>0, <1>1 DEF IInv, AnsweredWhenDone, ForkHeldOnlyToSimulate, Entries,
     PoisonStopsSimulation,
     LoggedVerdictsWereIssued, EveryVerdictIsAccountedFor, NoAttestation, Attest, ZeroHash
<1>2. ASSUME NEW r \in Requests, BeginEvaluate(r) \/ RequestStep(r)
      PROVE  IInv'
  BY <1>0, <1>2, ForkStep, ReplyStep DEF IInv
<1>3. CASE LogStep
  <2>1. /\ UNCHANGED <<pc, forkOwner, poisoned, outcome, attestation>>
        /\ Entries' = Entries
    BY <1>3, LogStepFacts
  <2>2. /\ spawned' \cap verdict_log' = {}
        /\ spawned' \cap lostInserts' = {}
        /\ verdict_log' \cap lostInserts' = {}
    BY <1>3 DEF IInv, EveryVerdictIsAccountedFor, LogStep, insert_verdict, InsertFails
  <2> QED BY <1>0, <2>1, <2>2 DEF IInv, AnsweredWhenDone, ForkHeldOnlyToSimulate,
     PoisonStopsSimulation, LoggedVerdictsWereIssued, EveryVerdictIsAccountedFor, NoAttestation, Attest, ZeroHash
<1>4. CASE Tick \/ record_update
  BY <1>1, <1>4 DEF Tick, record_update
<1>5. CASE UNCHANGED vars
  BY <1>1, <1>5 DEF vars
<1> QED BY <1>2, <1>3, <1>4, <1>5 DEF Next

(* The inductive invariant holds in every reachable state.                 *)
LEMMA Invariant == Spec => []IInv
BY InvInit, InvStep, PTL DEF Spec

\* The mutex is held exactly while a request simulates, whatever the number of
\* requests: pipeline.rs holds it for execute_transaction only.
THEOREM ForkExclusion == Spec => []ForkHeldOnlyToSimulate
BY Invariant, PTL DEF IInv

\* The verdict log never holds a verdict its caller did not receive.
THEOREM LogIsFaithful == Spec => []LoggedVerdictsWereIssued
BY Invariant, PTL DEF IInv

\* No verdict other than TIMEOUT is lost but by a failed insert, and none is
\* logged twice.
THEOREM LogIsComplete == Spec => []EveryVerdictIsAccountedFor
BY Invariant, PTL DEF IInv
----------------------------------------------------------------------------
(* An APPROVE rests on evidence.                                           *)

\* The results of a finished suite, in any order, are statuses the scorer knows.
LEMMA OrderOfResults ==
    ASSUME TypeOK, NEW r \in Requests, AllReported(r), NEW o \in Orders
    PROVE  /\ status[r] \in [Checkers -> CheckerStatus]
           /\ StatusesIn(o, status[r]) \in Seq(CheckerStatus)
           /\ Len(StatusesIn(o, status[r])) = Cardinality(Checkers)
<1> DEFINE statuses == StatusesIn(o, status[r])
           n == Cardinality(Checkers)
<1>1. n \in Nat
  BY PipelineAssumption, FS_CardinalityType
<1>2. status[r] \in [Checkers -> CheckerStatus]
  BY DEF TypeOK, AllReported
<1>3. \A i \in 1..n : status[r][o[i]] \in CheckerStatus
  BY <1>2 DEF Orders
<1>4. statuses = [i \in 1..n |-> status[r][o[i]]]
  BY DEF StatusesIn
<1> HIDE DEF n, statuses
<1>5. statuses \in Seq(CheckerStatus) /\ Len(statuses) = n
  BY <1>1, <1>3, <1>4
<1> QED
  BY <1>2, <1>5 DEF n, statuses

\* What a finished evaluation may call APPROVE: the score is at most one minus each
\* penalty, in every order of the results, so no result cost more than 0.30.
LEMMA EvidenceOfVerdict ==
    ASSUME TypeOK, NEW r \in Requests, AllReported(r),
           NEW att \in PossibleAttestations(r), att.verdict = "APPROVE"
    PROVE  /\ ~downgrade[r]
           /\ \A c \in Checkers : att.hash[c] \in {"None", "Low", "Medium", "TimedOut"}
<1>1. PICK o \in Orders :
         att = AttestationFor(r, compute_safety_score(StatusesIn(o, status[r])))
  BY DEF PossibleAttestations, PossibleScores
<1> DEFINE statuses == StatusesIn(o, status[r])
           score == compute_safety_score(statuses)
           n == Cardinality(Checkers)
<1>2. n \in Nat
  BY PipelineAssumption, FS_CardinalityType
<1>3. \A c \in Checkers : status[r][c] \in CheckerStatus
  BY DEF TypeOK, AllReported
<1>4. statuses \in Seq(CheckerStatus) /\ Len(statuses) = n
  BY OrderOfResults
<1>5. score \in Number /\ \A j \in 1..n : score.h <= 100 - Penalty(statuses[j])
  <2> HIDE DEF statuses, n
  <2> QED
    BY <1>4, ScoreCoversEveryPenalty
<1> HIDE DEF score
<1>6. /\ att.verdict = FinalVerdict(r, score) /\ att.hash = status[r]
  BY <1>1 DEF AttestationFor, Attest, score
<1>7. ~downgrade[r] /\ score_to_verdict(score, Reported(status[r])) = "APPROVE"
  BY <1>6 DEF FinalVerdict
<1>8. score.h >= 70 /\ score.h \in Int
  BY <1>5, <1>7, VerdictNeedsHundredths DEF Number
<1>9. ASSUME NEW c \in Checkers
      PROVE  status[r][c] \in {"None", "Low", "Medium", "TimedOut"}
  <2>1. PICK j \in 1..n : o[j] = c
    BY DEF Orders
  <2>2. statuses[j] = status[r][c]
    BY <2>1 DEF StatusesIn
  <2>3. score.h <= 100 - Penalty(status[r][c])
    BY <1>5, <2>2
  <2>4. status[r][c] \in CheckerStatus
    BY <1>3
  <2> QED
    BY <1>8, <2>3, <2>4 DEF CheckerStatus, Severity, Penalty
<1> QED
  BY <1>6, <1>7, <1>9

\* Only Finish issues an APPROVE, and a request that has one begins no more.
LEMMA EvidenceStep == IInv /\ ApproveRestsOnEvidence /\ [Next]_vars => ApproveRestsOnEvidence'
<1> SUFFICES ASSUME IInv, ApproveRestsOnEvidence, [Next]_vars PROVE ApproveRestsOnEvidence'
  OBVIOUS
<1>0. /\ TypeOK /\ AnsweredWhenDone /\ DOMAIN attestation = Requests
      /\ downgrade \in [Requests -> BOOLEAN] /\ NoAttestation.verdict = "none"
  BY DEF IInv, TypeOK, NoAttestation, Attest
<1>1. CASE UNCHANGED <<attestation, downgrade>>
  BY <1>1 DEF ApproveRestsOnEvidence
<1>2. ASSUME NEW r \in Requests, BeginEvaluate(r) PROVE ApproveRestsOnEvidence'
  <2>1. pc[r] = "idle" /\ attestation' = attestation
    BY <1>2 DEF BeginEvaluate, replyVars
  <2>2. attestation[r].verdict = "none"
    BY <1>0, <2>1 DEF AnsweredWhenDone
  <2>3. \A q \in Requests \ {r} : downgrade'[q] = downgrade[q]
    BY <1>0, <1>2 DEF BeginEvaluate
  <2> QED
    BY <2>1, <2>2, <2>3 DEF ApproveRestsOnEvidence
<1>3. ASSUME NEW r \in Requests, NEW att, LeaveWith(r, att), UNCHANGED downgrade,
             att.verdict = "APPROVE" =>
                 /\ ~downgrade[r]
                 /\ \A c \in Checkers : att.hash[c] \in {"None", "Low", "Medium", "TimedOut"}
      PROVE  ApproveRestsOnEvidence'
  <2>1. attestation' = [attestation EXCEPT ![r] = att]
    BY <1>3 DEF LeaveWith
  <2>2. attestation'[r] = att /\ \A q \in Requests \ {r} : attestation'[q] = attestation[q]
    BY <1>0, <2>1
  <2> QED
    BY <1>3, <2>2 DEF ApproveRestsOnEvidence
<1>4. ASSUME NEW r \in Requests, Finish(r) PROVE ApproveRestsOnEvidence'
  <2>1. AllReported(r) /\ UNCHANGED downgrade
    BY <1>4 DEF Finish
  <2>2. CASE \E att \in PossibleAttestations(r) : LeaveWith(r, att)
    BY <1>0, <1>3, <2>1, <2>2, EvidenceOfVerdict
  <2>3. CASE UNCHANGED attestation
    BY <1>1, <2>1, <2>3
  <2> QED
    BY <1>4, <2>2, <2>3 DEF Finish, LeaveWithout
<1>5. ASSUME NEW r \in Requests, build_timeout_response(r) PROVE ApproveRestsOnEvidence'
  <2>1. UNCHANGED downgrade /\ TimeoutAttestation.verdict = "TIMEOUT"
    BY <1>5 DEF build_timeout_response, TimeoutAttestation, Attest
  <2>2. CASE LeaveWith(r, TimeoutAttestation)
    BY <1>3, <2>1, <2>2
  <2>3. CASE UNCHANGED attestation
    BY <1>1, <2>1, <2>3
  <2> QED
    BY <1>5, <2>2, <2>3 DEF build_timeout_response, LeaveWithout
<1>6. ASSUME NEW r \in Requests, RequestStep(r) PROVE ApproveRestsOnEvidence'
  BY <1>1, <1>4, <1>5, <1>6
  DEF RequestStep, AcquireFork, Simulated, SimulationFailed, SimulationPanicked, LeaveWithout,
      CheckerTimesOut, CheckerCompletes, DeadlineExceeded, Abandoned, replyVars
<1>7. CASE Tick \/ record_update \/ LogStep \/ UNCHANGED vars
  BY <1>1, <1>7
  DEF Tick, record_update, LogStep, insert_verdict, InsertFails, vars, replyVars
<1> QED
  BY <1>2, <1>6, <1>7 DEF Next

\* An APPROVE rests on fresh state and on results of which none is High or Critical,
\* for any suite of checkers, in any order of the results, with f64 rounding.
THEOREM ApprovalRestsOnEvidence == Spec => []ApproveRestsOnEvidence
<1>1. Init => ApproveRestsOnEvidence
  BY DEF Init, ApproveRestsOnEvidence, NoAttestation, Attest
<1> QED
  BY <1>1, EvidenceStep, Invariant, PTL DEF Spec
----------------------------------------------------------------------------
(* A TIMEOUT is told from a judgement.                                     *)

\* A judgement comes from a suite that reported, with a score that is signed exactly.
LEMMA JudgementIsUnmistakable ==
    ASSUME TypeOK, NEW r \in Requests, AllReported(r), NEW att \in PossibleAttestations(r)
    PROVE  Unmistakable(att)
<1>1. PICK o \in Orders :
         att = AttestationFor(r, compute_safety_score(StatusesIn(o, status[r])))
  BY DEF PossibleAttestations, PossibleScores
<1> DEFINE statuses == StatusesIn(o, status[r])
           score == compute_safety_score(statuses)
<1>2. statuses \in Seq(CheckerStatus) /\ status[r] \in [Checkers -> CheckerStatus]
  BY OrderOfResults
<1>3. att = Attest(FinalVerdict(r, score), encode_score_u16(score), status[r])
  BY <1>1 DEF AttestationFor
<1> HIDE DEF statuses
<1>4. score.h \in 0..100 /\ encode_score_u16(score) = 100 * score.h
  BY <1>2, ScoreCoversEveryPenalty
<1> HIDE DEF score
<1>5. encode_score_u16(score) \in 0..10000
  BY <1>4
<1>6. FinalVerdict(r, score) \in {"APPROVE", "WARN", "BLOCK"}
  BY FinalVerdictType
<1> QED
  BY <1>2, <1>3, <1>5, <1>6 DEF Unmistakable, Attest

\* Only Finish and build_timeout_response issue attestations.
LEMMA UnmistakableStep == IInv /\ TimeoutsAreUnmistakable /\ [Next]_vars => TimeoutsAreUnmistakable'
<1> SUFFICES ASSUME IInv, TimeoutsAreUnmistakable, [Next]_vars PROVE TimeoutsAreUnmistakable'
  OBVIOUS
<1>0. /\ TypeOK /\ DOMAIN attestation = Requests /\ DOMAIN outcome = Requests
      /\ \A q \in Requests : outcome[q] = "attested" => Unmistakable(attestation[q])
  BY DEF IInv, TypeOK, TimeoutsAreUnmistakable
<1> SUFFICES \A q \in Requests : outcome'[q] = "attested" => Unmistakable(attestation'[q])
  BY DEF TimeoutsAreUnmistakable
<1>1. CASE UNCHANGED <<outcome, attestation>>
  BY <1>0, <1>1
<1>2. ASSUME NEW r \in Requests, NEW att, LeaveWith(r, att), Unmistakable(att)
      PROVE  \A q \in Requests : outcome'[q] = "attested" => Unmistakable(attestation'[q])
  <2>1. /\ attestation' = [attestation EXCEPT ![r] = att]
        /\ outcome' = [outcome EXCEPT ![r] = "attested"]
    BY <1>2 DEF LeaveWith, Leave
  <2>2. /\ attestation'[r] = att
        /\ \A q \in Requests \ {r} : attestation'[q] = attestation[q] /\ outcome'[q] = outcome[q]
    BY <1>0, <2>1
  <2> QED
    BY <1>0, <1>2, <2>2
<1>3. ASSUME NEW r \in Requests, NEW result \in {"error", "dropped"}, LeaveWithout(r, result)
      PROVE  \A q \in Requests : outcome'[q] = "attested" => Unmistakable(attestation'[q])
  <2>1. attestation' = attestation /\ outcome' = [outcome EXCEPT ![r] = result]
    BY <1>3 DEF LeaveWithout, Leave
  <2>2. /\ outcome'[r] # "attested"
        /\ \A q \in Requests \ {r} : outcome'[q] = outcome[q]
    BY <1>0, <2>1
  <2> QED
    BY <1>0, <2>1, <2>2
<1>4. ASSUME NEW r \in Requests, Finish(r)
      PROVE  \A q \in Requests : outcome'[q] = "attested" => Unmistakable(attestation'[q])
  <2>1. CASE LeaveWithout(r, "error")
    BY <1>3, <2>1
  <2>2. CASE ~LeaveWithout(r, "error")
    <3>1. AllReported(r)
      BY <1>4 DEF Finish
    <3>2. PICK att \in PossibleAttestations(r) : LeaveWith(r, att)
      BY <1>4, <2>2 DEF Finish
    <3>3. Unmistakable(att)
      BY <1>0, <3>1, JudgementIsUnmistakable
    <3> QED
      BY <1>2, <3>2, <3>3
  <2> QED
    BY <2>1, <2>2
<1>5. ASSUME NEW r \in Requests, build_timeout_response(r)
      PROVE  \A q \in Requests : outcome'[q] = "attested" => Unmistakable(attestation'[q])
  <2>1. Unmistakable(TimeoutAttestation)
    BY DEF Unmistakable, TimeoutAttestation, TIMEOUT_SENTINEL
  <2> QED
    BY <1>2, <1>3, <1>5, <2>1 DEF build_timeout_response
<1>6. ASSUME NEW r \in Requests, RequestStep(r)
      PROVE  \A q \in Requests : outcome'[q] = "attested" => Unmistakable(attestation'[q])
  <2>1. CASE SimulationFailed(r) \/ SimulationPanicked(r) \/ Abandoned(r)
    BY <1>3, <2>1 DEF SimulationFailed, SimulationPanicked, Abandoned
  <2>2. CASE AcquireFork(r)
    BY <1>1, <1>3, <2>2 DEF AcquireFork, replyVars
  <2> QED
    BY <1>1, <1>4, <1>5, <1>6, <2>1, <2>2
    DEF RequestStep, Simulated, CheckerTimesOut, CheckerCompletes, DeadlineExceeded, replyVars
<1>7. CASE Tick \/ record_update \/ LogStep \/ (\E r \in Requests : BeginEvaluate(r)) \/ UNCHANGED vars
  BY <1>1, <1>7
  DEF Tick, record_update, BeginEvaluate, LogStep, insert_verdict, InsertFails, vars, replyVars
<1> QED
  BY <1>6, <1>7 DEF Next

\* Sentinel score, zero hash and TIMEOUT go together, and every judgement covers the
\* whole suite with a score of at most 10000, for any suite and any order of results.
THEOREM TimeoutsStandOut == Spec => []TimeoutsAreUnmistakable
<1>1. Init => TimeoutsAreUnmistakable
  BY DEF Init, TimeoutsAreUnmistakable
<1> QED
  BY <1>1, UnmistakableStep, Invariant, PTL DEF Spec
----------------------------------------------------------------------------
(* A poisoned fork fails closed.                                           *)

NotYetSimulated(r) == pc[r] \in {"idle", "lock", "timeoutLock"}

\* Once the mutex is poisoned, r stays short of the simulation or ends without
\* an attestation.
ShutOut(r) ==
    /\ poisoned
    /\ NotYetSimulated(r) \/ (pc[r] = "done" /\ outcome[r] # "attested")

(* A request that has not got past a poisoned fork leaves without a verdict *)
(* of the simulation: its lock() fails (pipeline.rs:140).                  *)
LEMMA ShutOutStep ==
    ASSUME NEW r \in Requests
    PROVE  IInv /\ ShutOut(r) /\ [Next]_vars => ShutOut(r)'
<1> SUFFICES ASSUME IInv, ShutOut(r), [Next]_vars PROVE ShutOut(r)'
  OBVIOUS
<1> USE DEF ShutOut, NotYetSimulated, forkVars, replyVars
<1>0. /\ TypeOK /\ poisoned /\ pc \in [Requests -> PC]
      /\ outcome \in [Requests -> {"none", "attested", "error", "dropped"}]
  BY DEF IInv, TypeOK
<1>1. ASSUME NEW q \in Requests, BeginEvaluate(q) \/ RequestStep(q), q # r
      PROVE  ShutOut(r)'
  <2>1. pc'[r] = pc[r] /\ outcome'[r] = outcome[r]
    BY <1>0, <1>1, RequestEffect
       DEF StaysOpen, EndsUnattested, TimesOut, IssuesVerdict, EndsAttested
  <2>2. poisoned'
    BY <1>0, <1>1 DEF RequestStep, BeginEvaluate, AcquireFork, Simulated, SimulationFailed,
       SimulationPanicked, CheckerTimesOut, CheckerCompletes, Finish, DeadlineExceeded,
       Abandoned, build_timeout_response
  <2> QED BY <2>1, <2>2
<1>2. CASE BeginEvaluate(r) \/ RequestStep(r)
  <2>1. CASE BeginEvaluate(r)
    BY <1>0, <2>1 DEF BeginEvaluate
  <2>2. CASE AcquireFork(r)
    BY <1>0, <2>2 DEF AcquireFork, LeaveWithout, Leave
  <2>3. CASE build_timeout_response(r)
    BY <1>0, <2>3 DEF build_timeout_response, LeaveWithout, Leave
  <2>4. pc[r] \in {"idle", "lock", "timeoutLock"}
    BY <1>0, <1>2, RequestEffect
  <2> QED BY <1>2, <2>1, <2>2, <2>3, <2>4 DEF RequestStep, Simulated, SimulationFailed,
          SimulationPanicked, CheckerTimesOut, CheckerCompletes, Finish, DeadlineExceeded,
          Abandoned
<1>3. CASE LogStep
  BY <1>3, LogStepFacts
<1>4. CASE Tick \/ record_update
  BY <1>4 DEF Tick, record_update
<1>5. CASE UNCHANGED vars
  BY <1>5 DEF vars
<1> QED BY <1>1, <1>2, <1>3, <1>4, <1>5 DEF Next

\* After a panic under the fork mutex, a request that had not been simulated
\* never gets an attestation, neither a verdict nor a TIMEOUT.
THEOREM PoisonFailsClosed == Spec => PoisonedForkNeverAttests
<1> SUFFICES ASSUME NEW r \in Requests
             PROVE  Spec => [](poisoned /\ pc[r] \in {"idle", "lock", "timeoutLock"}
                                  => [](outcome[r] # "attested"))
  BY DEF PoisonedForkNeverAttests
<1>1. IInv /\ poisoned /\ pc[r] \in {"idle", "lock", "timeoutLock"} => ShutOut(r)
  BY DEF ShutOut, NotYetSimulated
<1>2. IInv /\ ShutOut(r) => outcome[r] # "attested"
  BY DEF IInv, AnsweredWhenDone, ShutOut, NotYetSimulated
<1>3. IInv /\ ShutOut(r) /\ [Next]_vars => ShutOut(r)'
  BY ShutOutStep
<1>4. Spec => []IInv /\ [][Next]_vars
  BY Invariant DEF Spec
<1> QED BY <1>1, <1>2, <1>3, <1>4, PTL
----------------------------------------------------------------------------
(* Refinement.                                                             *)

\* The initial state of the pipeline is one of the service.
LEMMA ServiceInitHolds == Init => Service!ServiceInit
BY DEF Init, Service!ServiceInit, PhaseOf

\* A step that leaves all that the mapping reads alone is a stutter.
LEMMA ServiceStutters ==
    ASSUME UNCHANGED <<attestation, verdict_log, poisoned>>,
           \A q \in Requests : PhaseOf(q)' = PhaseOf(q)
    PROVE  UNCHANGED Service!serviceVars
BY DEF Service!serviceVars

\* A step that moves one request moves that request's phase only.
LEMMA PhaseMoves ==
    ASSUME NEW r \in Requests, NEW p, PhaseOf(r)' = p,
           \A q \in Requests \ {r} : pc'[q] = pc[q] /\ outcome'[q] = outcome[q]
    PROVE  [q \in Requests |-> PhaseOf(q)'] = [[q \in Requests |-> PhaseOf(q)] EXCEPT ![r] = p]
<1>1. \A q \in Requests \ {r} : PhaseOf(q)' = PhaseOf(q)
  BY DEF PhaseOf
<1> QED BY <1>1

\* Where the steps of one request lead, seen through the mapping.
LEMMA RequestStepIsServiceStep ==
    ASSUME IInv, NEW r \in Requests, BeginEvaluate(r) \/ RequestStep(r)
    PROVE  Service!ServiceNext \/ UNCHANGED Service!serviceVars
<1> USE DEF replyVars, logVars, forkVars
<1>0. /\ TypeOK /\ pc \in [Requests -> PC] /\ DOMAIN attestation = Requests
      /\ outcome \in [Requests -> {"none", "attested", "error", "dropped"}]
      /\ poisoned \in BOOLEAN
  BY DEF IInv, TypeOK
<1>1. \A q \in Requests \ {r} : pc'[q] = pc[q] /\ outcome'[q] = outcome[q]
  BY <1>0, RequestEffect
     DEF StaysOpen, EndsUnattested, TimesOut, IssuesVerdict, EndsAttested
<1>2. ASSUME NEW how \in {"error", "dropped"}, LeaveWithout(r, how),
             PhaseOf(r) \in {"pending", "judged"},
             poisoned' \in {poisoned, TRUE}, UNCHANGED verdict_log
      PROVE  Service!ServiceNext
  <2>1. PhaseOf(r)' = how
    BY <1>0, <1>2 DEF PhaseOf, LeaveWithout, Leave
  <2>2. Service!GiveUp(r, how)
    BY <1>1, <1>2, <2>1, PhaseMoves DEF Service!GiveUp, LeaveWithout
  <2> QED BY <2>2 DEF Service!ServiceNext
<1>3. ASSUME NEW att, IsAttestation(att), LeaveWith(r, att),
             IF att.verdict = "TIMEOUT" THEN PhaseOf(r) = "pending" /\ ~poisoned
                                        ELSE PhaseOf(r) = "judged",
             UNCHANGED <<verdict_log, poisoned>>
      PROVE  Service!ServiceNext
  <2>1. PhaseOf(r)' = "attested"
    BY <1>0, <1>3 DEF PhaseOf, LeaveWith, Leave
  <2>2. attestation'[r] = att /\ attestation' = [attestation EXCEPT ![r] = attestation'[r]]
    BY <1>0, <1>3 DEF LeaveWith
  <2>3. Service!Attest(r)
    BY <1>1, <1>3, <2>1, <2>2, PhaseMoves DEF Service!Attest, IsAttestation
  <2> QED BY <2>3 DEF Service!ServiceNext
<1>4. CASE BeginEvaluate(r)
  <2>1. PhaseOf(r) = "idle" /\ PhaseOf(r)' = "pending"
    BY <1>0, <1>4 DEF BeginEvaluate, PhaseOf
  <2>2. Service!Submit(r)
    BY <1>1, <1>4, <2>1, PhaseMoves DEF BeginEvaluate, Service!Submit
  <2> QED BY <2>2 DEF Service!ServiceNext
<1>5. CASE AcquireFork(r)
  <2>1. PhaseOf(r) = "pending"
    BY <1>5 DEF AcquireFork, PhaseOf
  <2>2. CASE poisoned
    BY <1>2, <1>5, <2>1, <2>2 DEF AcquireFork
  <2>3. CASE ~poisoned
    <3>1. PhaseOf(r)' = "pending"
      BY <1>0, <1>5, <2>3 DEF AcquireFork, PhaseOf
    <3>2. \A q \in Requests : PhaseOf(q)' = PhaseOf(q)
      BY <1>1, <2>1, <3>1 DEF PhaseOf
    <3> QED BY <1>5, <2>3, <3>2, ServiceStutters DEF AcquireFork
  <2> QED BY <2>2, <2>3
<1>6. CASE Simulated(r)
  <2>1. PhaseOf(r) = "pending" /\ PhaseOf(r)' = "judged"
    BY <1>0, <1>6 DEF Simulated, PhaseOf
  <2>2. ~poisoned
    BY <1>6, PipelineAssumption DEF Simulated, IInv, ForkHeldOnlyToSimulate, PoisonStopsSimulation
  <2>3. Service!Judge(r)
    BY <1>1, <1>6, <2>1, <2>2, PhaseMoves DEF Simulated, Service!Judge
  <2> QED BY <2>3 DEF Service!ServiceNext
<1>7. CASE SimulationFailed(r)
  <2>1. PhaseOf(r) = "pending"
    BY <1>7 DEF SimulationFailed, PhaseOf
  <2> QED BY <1>2, <1>7, <2>1 DEF SimulationFailed
<1>8. CASE SimulationPanicked(r)
  <2>1. PhaseOf(r) = "pending"
    BY <1>8 DEF SimulationPanicked, PhaseOf
  <2> QED BY <1>2, <1>8, <2>1 DEF SimulationPanicked
<1>9. CASE \/ \E c \in Checkers : CheckerTimesOut(r, c)
           \/ \E c \in Checkers : \E s \in Findings : CheckerCompletes(r, c, s)
  <2>1. UNCHANGED <<pc, outcome, attestation, verdict_log, poisoned>>
    BY <1>9 DEF CheckerTimesOut, CheckerCompletes
  <2> QED BY <2>1, ServiceStutters DEF PhaseOf
<1>10. CASE Finish(r)
  <2>1. PhaseOf(r) = "judged" /\ UNCHANGED <<verdict_log, poisoned>>
    BY <1>10 DEF Finish, PhaseOf
  <2>2. CASE LeaveWithout(r, "error")
    BY <1>2, <2>1, <2>2
  <2>3. CASE ~LeaveWithout(r, "error")
    <3>1. PICK att \in PossibleAttestations(r) : LeaveWith(r, att)
      BY <1>10, <2>3 DEF Finish
    <3> QED BY <1>0, <1>3, <2>1, <3>1, PossibleAttestationsType
  <2> QED BY <2>2, <2>3
<1>11. CASE DeadlineExceeded(r)
  <2>1. PhaseOf(r) = "judged" /\ PhaseOf(r)' = "pending"
    BY <1>0, <1>11 DEF DeadlineExceeded, PhaseOf
  <2>2. Service!Discard(r)
    BY <1>1, <1>11, <2>1, PhaseMoves DEF DeadlineExceeded, Service!Discard
  <2> QED BY <2>2 DEF Service!ServiceNext
<1>12. CASE Abandoned(r)
  <2>1. PhaseOf(r) = "judged"
    BY <1>12 DEF Abandoned, PhaseOf
  <2> QED BY <1>2, <1>12, <2>1 DEF Abandoned
<1>13. CASE build_timeout_response(r)
  <2>1. PhaseOf(r) = "pending" /\ UNCHANGED <<verdict_log, poisoned>>
    BY <1>13 DEF build_timeout_response, PhaseOf
  <2>2. CASE LeaveWithout(r, "error")
    BY <1>2, <2>1, <2>2
  <2>3. CASE ~poisoned /\ LeaveWith(r, TimeoutAttestation)
    <3>1. TimeoutAttestation.verdict = "TIMEOUT"
      BY DEF TimeoutAttestation, Attest
    <3> QED BY <1>3, <2>1, <2>3, <3>1, TimeoutAttestationType
  <2> QED BY <1>13, <2>2, <2>3 DEF build_timeout_response
<1> QED BY <1>4, <1>5, <1>6, <1>7, <1>8, <1>9, <1>10, <1>11, <1>12, <1>13 DEF RequestStep

\* A completed insert is the service's Record; a failed one is invisible.
LEMMA LogStepIsServiceStep ==
    ASSUME IInv, LogStep
    PROVE  Service!ServiceNext \/ UNCHANGED Service!serviceVars
<1>0. UNCHANGED <<pc, outcome, attestation, poisoned>>
  BY LogStepFacts DEF replyVars, forkVars
<1>1. \A q \in Requests : PhaseOf(q)' = PhaseOf(q)
  BY <1>0 DEF PhaseOf
<1>2. PICK e \in spawned : insert_verdict(e) \/ InsertFails(e)
  BY DEF LogStep
<1>3. CASE InsertFails(e)
  BY <1>0, <1>1, <1>3, ServiceStutters DEF InsertFails
<1>4. CASE insert_verdict(e)
  <2>1. e \in Entries
    BY DEF Entries
  <2>2. /\ e.req \in Requests /\ outcome[e.req] = "attested"
        /\ attestation[e.req] = e.attestation /\ e.attestation.verdict # "TIMEOUT"
    BY <2>1 DEF IInv, LoggedVerdictsWereIssued, TypeOK, IsLogEntry
  <2>3. PhaseOf(e.req) = "attested"
    BY <2>2 DEF IInv, AnsweredWhenDone, PhaseOf
  <2>4. {<<f.req, f.attestation>> : f \in verdict_log'}
           = {<<f.req, f.attestation>> : f \in verdict_log} \cup {<<e.req, attestation[e.req]>>}
    BY <1>4, <2>2 DEF insert_verdict
  <2>5. Service!Record(e.req)
    BY <1>0, <1>1, <2>2, <2>3, <2>4 DEF Service!Record
  <2> QED BY <2>2, <2>5 DEF Service!ServiceNext
<1> QED BY <1>2, <1>3, <1>4

\* Every step of the pipeline is a step of the service or invisible to it.
LEMMA ServiceStep == IInv /\ [Next]_vars => [Service!ServiceNext]_Service!serviceVars
<1> SUFFICES ASSUME IInv, [Next]_vars
             PROVE  Service!ServiceNext \/ UNCHANGED Service!serviceVars
  BY DEF Service!serviceVars
<1>1. ASSUME UNCHANGED <<pc, outcome, attestation, verdict_log, poisoned>>
      PROVE  UNCHANGED Service!serviceVars
  BY <1>1, ServiceStutters DEF PhaseOf
<1>2. CASE Tick \/ record_update \/ UNCHANGED vars
  BY <1>1, <1>2 DEF Tick, record_update, vars, forkVars, replyVars, logVars
<1> QED BY <1>2, RequestStepIsServiceStep, LogStepIsServiceStep DEF Next

\* evaluate_raw_tx with its log tasks implements the abstract verdict service,
\* for every number of requests and checkers.
THEOREM PipelineRefinesService == Spec => ImplementsVerdictService
<1>1. Spec => []IInv /\ [][Next]_vars /\ Init
  BY Invariant DEF Spec
<1>2. Spec => Service!ServiceInit /\ [][Service!ServiceNext]_Service!serviceVars
  BY <1>1, ServiceInitHolds, ServiceStep, PTL
<1> QED BY <1>2 DEF ImplementsVerdictService, Service!ServiceSpec
----------------------------------------------------------------------------
(* The server around the pipeline.                                         *)

\* Every step of the server is a step of the pipeline, or leaves it alone: the front
\* ends and main add no way to act on it.
LEMMA ServerStepIsPipelineStep == [ServerNext]_serverVars => [Next]_vars
<1> SUFFICES ASSUME [ServerNext]_serverVars PROVE [Next]_vars
  OBVIOUS
<1>1. CASE Boot
  BY <1>1
  DEF Boot, ReadPorts, BuildFork, BuildTracker, LoadSigner, ConnectDatabase, Bind, pipelineVars, Next
<1>2. CASE ServerTick \/ ServerLog
  BY <1>2 DEF ServerTick, ServerLog, Next
<1>3. ASSUME NEW r \in Requests, NEW ch, NEW body, Dispatch(r, ch, body) PROVE [Next]_vars
  BY <1>3 DEF Dispatch, pipelineVars, Next
<1>4. ASSUME NEW r \in Requests, Handle(r, RequestStep(r)) PROVE [Next]_vars
  BY <1>4 DEF Handle, Next
<1>5. CASE UNCHANGED serverVars
  BY <1>5 DEF serverVars
<1> QED
  BY <1>1, <1>2, <1>3, <1>4, <1>5 DEF ServerNext

\* main and the front ends run the pipeline as it is specified: what holds of Spec
\* holds of the server.
THEOREM ServerRunsThePipeline == ServerSpec => Spec
<1>1. ServerInit => Init
  BY DEF ServerInit
<1> QED
  BY <1>1, ServerStepIsPipelineStep, PTL DEF ServerSpec, Spec

\* The metrics, for a finite log.
MetricsInv ==
    /\ IsFiniteSet(Entries)
    /\ verdict_total \in [Verdict -> Nat]
    /\ checker_result \in [Checkers -> [completed : Nat, timed_out : Nat]]
    /\ MetricsMatchTheLog

\* Steps that touch neither the metrics nor the set of entries.
LEMMA MetricsUntouched ==
    ASSUME MetricsInv, Entries' = Entries, UNCHANGED <<verdict_total, checker_result>>
    PROVE  MetricsInv'
BY DEF MetricsInv, MetricsMatchTheLog, EntriesOf, EntriesMissing

\* A verdict that is issued adds one entry to a finite log, and one to its counters.
LEMMA MetricsCountTheVerdict ==
    ASSUME IInv, MetricsInv, NEW r \in Requests, NEW att, NEW entry,
           att.verdict \in Verdict \ {"TIMEOUT"}, outcome[r] = "none",
           entry.req = r, entry.attestation = att,
           entry.timed_out = {c \in Checkers : att.hash[c] = "TimedOut"},
           Entries' = IF DbConfigured THEN Entries \cup {entry} ELSE Entries,
           record_verdict(att)
    PROVE  MetricsInv'
<1>1. entry \notin Entries
  BY DEF IInv, LoggedVerdictsWereIssued
<1>2. IsFiniteSet(Entries')
  BY FS_AddElement DEF MetricsInv
<1>3. verdict_total' = [verdict_total EXCEPT ![att.verdict] = @ + 1]
  BY DEF record_verdict
<1>4. verdict_total' \in [Verdict -> Nat]
  BY <1>3 DEF MetricsInv
<1>5. ASSUME NEW c \in Checkers
      PROVE  /\ checker_result'[c] \in [completed : Nat, timed_out : Nat]
             /\ checker_result'[c].timed_out = IF c \in entry.timed_out
                                              THEN checker_result[c].timed_out + 1
                                              ELSE checker_result[c].timed_out
  <2>1. checker_result'[c] = CountChecker(c, att)
    BY DEF record_verdict
  <2>2. checker_result[c] \in [completed : Nat, timed_out : Nat]
    BY DEF MetricsInv
  <2> QED
    BY <2>1, <2>2 DEF CountChecker
<1>6. checker_result' \in [Checkers -> [completed : Nat, timed_out : Nat]]
  <2>1. checker_result' = [c \in Checkers |-> CountChecker(c, att)]
    BY DEF record_verdict
  <2> QED
    BY <1>5, <2>1
<1>7. ASSUME DbConfigured, NEW v \in Verdict \ {"TIMEOUT"}
      PROVE  verdict_total'[v] = Cardinality(EntriesOf(v)')
  <2>1. verdict_total[v] = Cardinality(EntriesOf(v)) /\ verdict_total[v] \in Nat
    BY <1>7 DEF MetricsInv, MetricsMatchTheLog
  <2>2. IsFiniteSet(EntriesOf(v)) /\ entry \notin EntriesOf(v)
    BY <1>1, FS_Subset DEF MetricsInv, EntriesOf
  <2>3. CASE v = att.verdict
    <3>1. EntriesOf(v)' = EntriesOf(v) \cup {entry}
      BY <1>7, <2>3 DEF EntriesOf
    <3>2. Cardinality(EntriesOf(v) \cup {entry}) = Cardinality(EntriesOf(v)) + 1
      BY <2>2, FS_AddElement
    <3> QED
      BY <1>3, <2>1, <2>3, <3>1, <3>2 DEF MetricsInv
  <2>4. CASE v # att.verdict
    <3>1. EntriesOf(v)' = EntriesOf(v)
      BY <1>7, <2>4 DEF EntriesOf
    <3> QED
      BY <1>3, <2>1, <2>4, <3>1 DEF MetricsInv
  <2> QED
    BY <2>3, <2>4
<1>8. ASSUME DbConfigured, NEW c \in Checkers
      PROVE  checker_result'[c].timed_out = Cardinality(EntriesMissing(c)')
  <2>1. checker_result[c].timed_out = Cardinality(EntriesMissing(c))
    BY <1>8 DEF MetricsInv, MetricsMatchTheLog
  <2>2. IsFiniteSet(EntriesMissing(c)) /\ entry \notin EntriesMissing(c)
    BY <1>1, FS_Subset DEF MetricsInv, EntriesMissing
  <2>3. CASE c \in entry.timed_out
    <3>1. EntriesMissing(c)' = EntriesMissing(c) \cup {entry}
      BY <1>8, <2>3 DEF EntriesMissing
    <3>2. Cardinality(EntriesMissing(c) \cup {entry}) = Cardinality(EntriesMissing(c)) + 1
      BY <2>2, FS_AddElement
    <3> QED
      BY <1>5, <2>1, <2>3, <3>1, <3>2
  <2>4. CASE c \notin entry.timed_out
    <3>1. EntriesMissing(c)' = EntriesMissing(c)
      BY <1>8, <2>4 DEF EntriesMissing
    <3> QED
      BY <1>5, <2>1, <2>4, <3>1
  <2> QED
    BY <2>3, <2>4
<1> QED
  BY <1>2, <1>4, <1>6, <1>7, <1>8 DEF MetricsInv, MetricsMatchTheLog

\* A TIMEOUT has no entry and no checker results; its own counter is not in the log.
LEMMA MetricsSkipTheTimeout ==
    ASSUME MetricsInv, NEW att, att.verdict = "TIMEOUT", Entries' = Entries, record_verdict(att)
    PROVE  MetricsInv'
<1>1. checker_result' = checker_result
  BY DEF record_verdict, CountChecker, MetricsInv
<1>2. /\ verdict_total' \in [Verdict -> Nat]
      /\ \A v \in Verdict \ {"TIMEOUT"} : verdict_total'[v] = verdict_total[v]
  BY DEF record_verdict, MetricsInv, Verdict
<1> QED
  BY <1>1, <1>2 DEF MetricsInv, MetricsMatchTheLog, EntriesOf, EntriesMissing

\* A step of a request's task, with the answer it leads to.
LEMMA HandleMetrics ==
    ASSUME IInv, MetricsInv, NEW r \in Requests, Handle(r, RequestStep(r))
    PROVE  MetricsInv'
<1>1. /\ pc[r] # "done"
      /\ StaysOpen(r) \/ EndsUnattested(r) \/ TimesOut(r) \/ IssuesVerdict(r)
  BY RequestEffect DEF IInv, Handle
<1>2. outcome \in [Requests -> {"none", "attested", "error", "dropped"}] /\ outcome[r] = "none"
      /\ DOMAIN attestation = Requests
  BY <1>1 DEF IInv, TypeOK, AnsweredWhenDone
<1>3. CASE StaysOpen(r)
  <2>1. Entries' = Entries /\ UNCHANGED <<verdict_total, checker_result>>
    BY <1>3 DEF StaysOpen, Handle, Entries
  <2> QED
    BY <2>1, MetricsUntouched
<1>4. CASE EndsUnattested(r)
  <2>1. pc'[r] = "done" /\ outcome'[r] \in {"error", "dropped"} /\ Entries' = Entries
    BY <1>2, <1>4 DEF EndsUnattested, Entries
  <2>2. Respond(r)
    BY <2>1 DEF Handle
  <2>3. UNCHANGED <<verdict_total, checker_result>>
    BY <2>1, <2>2 DEF Respond
  <2> QED
    BY <2>1, <2>3, MetricsUntouched
<1>5. ASSUME NEW att, EndsAttested(r, att) PROVE record_verdict(att)
  <2>1. pc'[r] = "done" /\ outcome'[r] = "attested" /\ attestation'[r] = att
    BY <1>2, <1>5 DEF EndsAttested
  <2>2. Respond(r)
    BY <2>1 DEF Handle
  <2> QED
    BY <2>1, <2>2 DEF Respond
<1>6. CASE TimesOut(r)
  <2>1. PICK att : EndsAttested(r, att) /\ att.verdict = "TIMEOUT" /\ UNCHANGED spawned
    BY <1>6 DEF TimesOut
  <2>2. Entries' = Entries
    BY <2>1 DEF EndsAttested, Entries
  <2> QED
    BY <1>5, <2>1, <2>2, MetricsSkipTheTimeout
<1>7. CASE IssuesVerdict(r)
  <2>1. PICK att, entry :
           /\ EndsAttested(r, att)
           /\ att.verdict # "TIMEOUT"
           /\ entry.req = r /\ entry.attestation = att
           /\ entry.timed_out = {c \in Checkers : att.hash[c] = "TimedOut"}
           /\ spawned' = IF DbConfigured THEN spawned \cup {entry} ELSE spawned
    BY <1>7 DEF IssuesVerdict
  <2>2. Entries' = IF DbConfigured THEN Entries \cup {entry} ELSE Entries
    BY <2>1 DEF EndsAttested, Entries
  <2>3. att.verdict \in Verdict \ {"TIMEOUT"}
    BY <2>1 DEF EndsAttested, IsAttestation
  <2> QED
    BY <1>2, <1>5, <2>1, <2>2, <2>3, MetricsCountTheVerdict
<1> QED
  BY <1>1, <1>3, <1>4, <1>6, <1>7

\* The counters of record_verdict and the entries of log_verdict agree, for any number
\* of requests, checkers and interleaved handlers.
THEOREM MetricsAreTheLog == ServerSpec => []MetricsMatchTheLog
<1>1. ServerInit => MetricsInv
  <2> SUFFICES ASSUME ServerInit PROVE MetricsInv
    OBVIOUS
  <2>1. Entries = {}
    BY DEF ServerInit, Init, Entries
  <2>2. Cardinality({}) = 0 /\ IsFiniteSet({})
    BY FS_EmptySet
  <2>3. /\ \A v : EntriesOf(v) = {}
        /\ \A c : EntriesMissing(c) = {}
    BY <2>1 DEF EntriesOf, EntriesMissing
  <2> QED
    BY <2>1, <2>2, <2>3 DEF ServerInit, MetricsInv, MetricsMatchTheLog
<1>2. IInv /\ MetricsInv /\ [ServerNext]_serverVars => MetricsInv'
  <2> SUFFICES ASSUME IInv, MetricsInv, [ServerNext]_serverVars PROVE MetricsInv'
    OBVIOUS
  <2>1. CASE /\ Entries' = Entries
             /\ UNCHANGED <<verdict_total, checker_result>>
    BY <2>1, MetricsUntouched
  <2>2. CASE Boot
    BY <2>1, <2>2
    DEF Boot, ReadPorts, BuildFork, BuildTracker, LoadSigner, ConnectDatabase, Bind, record_update,
        pipelineVars, vars, logVars, frontVars, Entries
  <2>3. CASE ServerTick
    BY <2>1, <2>3 DEF ServerTick, Tick, logVars, frontVars, Entries
  <2>4. CASE ServerLog
    BY <2>1, <2>4, LogStepFacts DEF ServerLog, frontVars
  <2>5. ASSUME NEW r \in Requests, NEW ch, NEW body, Dispatch(r, ch, body) PROVE MetricsInv'
    BY <2>1, <2>5 DEF Dispatch, BeginEvaluate, pipelineVars, vars, logVars, Entries
  <2>6. ASSUME NEW r \in Requests, Handle(r, RequestStep(r)) PROVE MetricsInv'
    BY <2>6, HandleMetrics
  <2>7. CASE UNCHANGED serverVars
    BY <2>1, <2>7 DEF serverVars, vars, Entries
  <2> QED
    BY <2>2, <2>3, <2>4, <2>5, <2>6, <2>7 DEF ServerNext
<1>3. MetricsInv => MetricsMatchTheLog
  BY DEF MetricsInv
<1> QED
  BY <1>1, <1>2, <1>3, ServerRunsThePipeline, Invariant, PTL DEF ServerSpec
----------------------------------------------------------------------------
(* The front ends.                                                         *)

\* A request without a channel has not been dispatched.
FrontInv ==
    /\ DOMAIN channel = Requests /\ DOMAIN reply = Requests
    /\ \A r \in Requests : channel[r] = "none" => pc[r] = "idle" /\ reply[r] = NoReply

\* The request of a handler is past its start, the tracker is as it was and the other
\* requests keep their place and their reply.
LEMMA HandleEffect ==
    ASSUME IInv, FrontInv, NEW r \in Requests, Handle(r, RequestStep(r))
    PROVE  /\ pc[r] \notin {"idle", "done"} /\ UNCHANGED <<age, stage, channel>>
           /\ DOMAIN reply' = Requests
           /\ \A q \in Requests \ {r} : pc'[q] = pc[q] /\ reply'[q] = reply[q]
<1>1. RequestStep(r) /\ UNCHANGED <<stage, channel>>
  BY DEF Handle, bootVars
<1>2. pc[r] \notin {"idle", "done"} /\ age' = age
  BY <1>1
  DEF RequestStep, AcquireFork, Simulated, SimulationFailed, SimulationPanicked, CheckerTimesOut,
      CheckerCompletes, Finish, DeadlineExceeded, Abandoned, build_timeout_response, clockVars
<1>3. \A q \in Requests \ {r} : pc'[q] = pc[q]
  BY <1>1, RequestEffect DEF IInv
<1>4. reply' = reply \/ \E answer : reply' = [reply EXCEPT ![r] = answer]
  <2>1. CASE pc'[r] # "done"
    BY <2>1 DEF Handle
  <2>2. CASE pc'[r] = "done"
    <3>1. Respond(r)
      BY <2>2 DEF Handle
    <3>2. outcome'[r] \in {"attested", "error", "dropped"}
      <4>1. IInv'
        BY <1>1, InvStep DEF Next
      <4> QED
        BY <2>2, <4>1 DEF IInv, AnsweredWhenDone, TypeOK
    <3> QED
      BY <3>1, <3>2 DEF Respond
  <2> QED
    BY <2>1, <2>2
<1>5. /\ DOMAIN reply' = Requests
      /\ \A q \in Requests \ {r} : reply'[q] = reply[q]
  BY <1>4 DEF FrontInv
<1> QED
  BY <1>1, <1>2, <1>3, <1>5

\* Dispatch gives a request its channel.
LEMMA FrontStep == IInv /\ FrontInv /\ [ServerNext]_serverVars => FrontInv'
<1> SUFFICES ASSUME IInv, FrontInv, [ServerNext]_serverVars PROVE FrontInv'
  OBVIOUS
<1>1. CASE UNCHANGED <<pc, channel, reply>>
  BY <1>1 DEF FrontInv
<1>2. CASE Boot \/ ServerTick \/ ServerLog \/ UNCHANGED serverVars
  <2>1. UNCHANGED <<pc, channel, reply>>
    BY <1>2, LogStepFacts
    DEF Boot, ReadPorts, BuildFork, BuildTracker, LoadSigner, ConnectDatabase, Bind, record_update, Tick,
        ServerTick, ServerLog, pipelineVars, vars, frontVars, serverVars
  <2> QED
    BY <1>1, <2>1
<1>3. ASSUME NEW r \in Requests, NEW ch, NEW body, Dispatch(r, ch, body) PROVE FrontInv'
  <2>1. /\ ch # "none" /\ channel' = [channel EXCEPT ![r] = ch]
        /\ reply' = reply \/ \E answer : reply' = [reply EXCEPT ![r] = answer]
    BY <1>3 DEF Dispatch, Channels
  <2>2. \A q \in Requests \ {r} : pc'[q] = pc[q]
    BY <1>3 DEF Dispatch, BeginEvaluate, pipelineVars, vars, IInv, TypeOK
  <2> QED
    BY <2>1, <2>2 DEF FrontInv
<1>4. ASSUME NEW r \in Requests, Handle(r, RequestStep(r)) PROVE FrontInv'
  BY <1>4, HandleEffect DEF FrontInv
<1> QED
  BY <1>2, <1>3, <1>4 DEF ServerNext

----------------------------------------------------------------------------
(* The replies.                                                            *)

\* What a step does to the requests other than r, and to what is told of them.
OthersKeep(r) ==
    \A q \in Requests \ {r} : /\ pc'[q] = pc[q] /\ reply'[q] = reply[q]
                               /\ outcome'[q] = outcome[q] /\ attestation'[q] = attestation[q]
                               /\ (channel'[q] # "none" <=> channel[q] # "none")

\* If only r is concerned, the others are told what they were.
LEMMA OthersAreTold ==
    ASSUME RepliesTellTheOutcome, NEW r \in Requests, OthersKeep(r),
           reply'[r] # NoReply => channel'[r] # "none" /\ TellsTheOutcome(r)'
    PROVE  RepliesTellTheOutcome'
<1> SUFFICES ASSUME NEW q \in Requests \ {r}, reply'[q] # NoReply
             PROVE  channel'[q] # "none" /\ TellsTheOutcome(q)'
  BY DEF RepliesTellTheOutcome
<1>1. /\ pc'[q] = pc[q] /\ reply'[q] = reply[q] /\ outcome'[q] = outcome[q]
      /\ attestation'[q] = attestation[q] /\ (channel'[q] # "none" <=> channel[q] # "none")
  BY DEF OthersKeep
<1>2. channel[q] # "none" /\ TellsTheOutcome(q)
  BY <1>1 DEF RepliesTellTheOutcome
<1> QED
  BY <1>1, <1>2 DEF TellsTheOutcome

LEMMA JudgementCoversSuite ==
    ASSUME NEW att, Unmistakable(att), att.verdict # "TIMEOUT"
    PROVE  att.hash \in [Checkers -> CheckerStatus]
<1>1. CASE att = Attest("TIMEOUT", 65535, ZeroHash)
  BY <1>1 DEF Attest
<1> QED
  BY <1>1 DEF Unmistakable

\* What Respond says of a request that has just ended.
LEMMA RespondTells ==
    ASSUME NEW r \in Requests, DOMAIN reply = Requests, Respond(r),
           outcome'[r] \in {"attested", "error", "dropped"},
           outcome'[r] = "attested" => Unmistakable(attestation'[r])
    PROVE  TellsTheOutcome(r)'
<1>1. CASE outcome'[r] = "attested"
  <2> DEFINE att == attestation'[r]
  <2>1. reply'[r] = VerdictReply(channel[r], att)
    BY <1>1 DEF Respond
  <2>2. /\ reply'[r].status \in {"200", "ok"} /\ reply'[r].verdict = att.verdict
        /\ reply'[r].details = CheckerDetails(att)
    BY <2>1 DEF VerdictReply
  <2>3. /\ DOMAIN CheckerDetails(att) = IF att.verdict = "TIMEOUT" THEN {} ELSE Checkers
        /\ \A c \in DOMAIN CheckerDetails(att) :
              \/ CheckerDetails(att)[c] = att.hash[c] /\ att.hash[c] \in Severity
              \/ CheckerDetails(att)[c] = "Critical" /\ att.hash[c] = "TimedOut"
    <3>1. CASE att.verdict = "TIMEOUT"
      BY <3>1 DEF CheckerDetails, NoDetails
    <3>2. CASE att.verdict # "TIMEOUT"
      <4>1. att.hash \in [Checkers -> CheckerStatus]
        BY <1>1, <3>2, JudgementCoversSuite
      <4>2. CheckerDetails(att) =
               [c \in Checkers |-> IF att.hash[c] = "TimedOut" THEN "Critical" ELSE att.hash[c]]
        BY <3>2 DEF CheckerDetails
      <4> HIDE DEF att
      <4> QED
        BY <3>2, <4>1, <4>2 DEF CheckerStatus
    <3> QED
      BY <3>1, <3>2
  <2> QED
    BY <1>1, <2>2, <2>3 DEF TellsTheOutcome, Tells
<1>2. CASE outcome'[r] = "error"
  <2>1. reply'[r] = ErrorReply(channel[r], "Pipeline")
    BY <1>2 DEF Respond
  <2> QED
    BY <1>2, <2>1 DEF ErrorReply, Status, TellsTheOutcome, Tells
<1>3. CASE outcome'[r] = "dropped"
  <2>1. reply'[r] = Status("closed")
    BY <1>3 DEF Respond
  <2> QED
    BY <1>3, <2>1 DEF Status, TellsTheOutcome, Tells
<1> QED
  BY <1>1, <1>2, <1>3

\* Dispatch answers what never reaches the pipeline, and a handler answers when the
\* pipeline has returned.
LEMMA RepliesStep ==
    ASSUME IInv, FrontInv, RepliesTellTheOutcome, TimeoutsAreUnmistakable, [ServerNext]_serverVars
    PROVE  RepliesTellTheOutcome'
<1>0. /\ pc \in [Requests -> PC] /\ DOMAIN outcome = Requests /\ DOMAIN attestation = Requests
      /\ AnsweredWhenDone /\ DOMAIN reply = Requests /\ DOMAIN channel = Requests
  BY DEF IInv, TypeOK, FrontInv
<1>1. CASE UNCHANGED <<pc, channel, reply, outcome, attestation>>
  BY <1>1 DEF RepliesTellTheOutcome, TellsTheOutcome
<1>2. CASE Boot \/ ServerTick \/ ServerLog \/ UNCHANGED serverVars
  <2>1. UNCHANGED <<pc, channel, reply, outcome, attestation>>
    BY <1>2
    DEF Boot, ReadPorts, BuildFork, BuildTracker, LoadSigner, ConnectDatabase, Bind, record_update,
        Tick, ServerTick, ServerLog, LogStep, insert_verdict, InsertFails, replyVars, pipelineVars,
        vars, frontVars, serverVars
  <2> QED
    BY <1>1, <2>1
<1>3. ASSUME NEW r \in Requests, NEW ch, NEW body \in Bodies, Dispatch(r, ch, body)
      PROVE  RepliesTellTheOutcome'
  <2>1. /\ pc[r] = "idle" /\ reply[r] = NoReply /\ ch \in {"rest", "grpc"}
        /\ channel' = [channel EXCEPT ![r] = ch] /\ UNCHANGED <<outcome, attestation>>
        /\ \A q \in Requests \ {r} : pc'[q] = pc[q]
    BY <1>0, <1>3 DEF Dispatch, Channels, BeginEvaluate, replyVars, pipelineVars, vars
  <2>2. outcome'[r] = "none"
    BY <1>0, <2>1 DEF AnsweredWhenDone
  <2>3. CASE body = "tx"
    <3>1. reply' = reply
      BY <1>3, <2>3 DEF Dispatch
    <3>2. OthersKeep(r)
      BY <1>0, <2>1, <3>1 DEF OthersKeep
    <3> QED
      BY <2>1, <3>1, <3>2, OthersAreTold
  <2>4. CASE body # "tx"
    <3> DEFINE error == IF body = "intent" THEN "NotImplemented" ELSE "InvalidRequest"
    <3>1. reply' = [reply EXCEPT ![r] = ErrorReply(ch, error)] /\ pc' = pc
      BY <1>3, <2>4 DEF Dispatch, pipelineVars, vars
    <3>2. OthersKeep(r)
      BY <1>0, <2>1, <3>1 DEF OthersKeep
    <3>3. /\ ErrorReply(ch, error).verdict = "none"
          /\ ErrorReply(ch, error).status \in {"400", "501", "invalid_argument", "unimplemented"}
      BY <2>1 DEF ErrorReply, Status
    <3>4. reply'[r] = ErrorReply(ch, error) /\ channel'[r] # "none" /\ pc'[r] = "idle"
      BY <1>0, <2>1, <3>1
    <3>5. TellsTheOutcome(r)'
      BY <2>2, <3>3, <3>4 DEF TellsTheOutcome, Tells
    <3> QED
      BY <3>2, <3>4, <3>5, OthersAreTold
  <2> QED
    BY <2>3, <2>4
<1>4. ASSUME NEW r \in Requests, Handle(r, RequestStep(r)) PROVE RepliesTellTheOutcome'
  <2>1. /\ pc[r] \notin {"idle", "done"} /\ channel' = channel
        /\ \A q \in Requests \ {r} : pc'[q] = pc[q] /\ reply'[q] = reply[q]
    BY <1>4, HandleEffect
  <2>2. RequestStep(r)
    BY <1>4 DEF Handle
  <2>3. StaysOpen(r) \/ EndsUnattested(r) \/ TimesOut(r) \/ IssuesVerdict(r)
    BY <2>2, RequestEffect DEF IInv
  <2>4. \A q \in Requests \ {r} : outcome'[q] = outcome[q] /\ attestation'[q] = attestation[q]
    BY <1>0, <2>3 DEF StaysOpen, EndsUnattested, TimesOut, IssuesVerdict, EndsAttested
  <2>5. OthersKeep(r)
    BY <2>1, <2>4 DEF OthersKeep
  <2>6. channel[r] # "none" /\ reply[r] = NoReply
    <3>1. outcome[r] = "none"
      BY <1>0, <2>1 DEF AnsweredWhenDone
    <3>2. ~TellsTheOutcome(r)
      BY <2>1, <3>1 DEF TellsTheOutcome, Tells
    <3> QED
      BY <2>1, <3>2 DEF RepliesTellTheOutcome, FrontInv
  <2>7. CASE pc'[r] # "done"
    <3>1. reply'[r] = NoReply
      BY <1>4, <2>6, <2>7 DEF Handle
    <3> QED
      BY <2>5, <3>1, OthersAreTold
  <2>8. CASE pc'[r] = "done"
    <3>1. Respond(r)
      BY <1>4, <2>8 DEF Handle
    <3>2. Next
      BY <2>2 DEF Next
    <3>3. outcome'[r] \in {"attested", "error", "dropped"}
      <4>1. IInv'
        BY <3>2, InvStep
      <4> QED
        BY <2>8, <4>1 DEF IInv, AnsweredWhenDone, TypeOK
    <3>4. outcome'[r] = "attested" => Unmistakable(attestation'[r])
      BY <3>2, UnmistakableStep DEF TimeoutsAreUnmistakable
    <3>5. TellsTheOutcome(r)'
      BY <1>0, <3>1, <3>3, <3>4, RespondTells
    <3> QED
      BY <2>1, <2>5, <2>6, <3>5, OthersAreTold
  <2> QED
    BY <2>7, <2>8
<1> QED
  BY <1>2, <1>3, <1>4 DEF ServerNext

\* Every reply of either front end says what became of its own request, for any number
\* of requests and checkers.
THEOREM RepliesAreTrue == ServerSpec => []RepliesTellTheOutcome
<1>1. ServerInit => FrontInv /\ RepliesTellTheOutcome
  BY DEF ServerInit, Init, FrontInv, RepliesTellTheOutcome
<1>2. IInv /\ FrontInv /\ RepliesTellTheOutcome /\ TimeoutsAreUnmistakable /\ [ServerNext]_serverVars
         => RepliesTellTheOutcome'
  BY RepliesStep
<1> QED
  BY <1>1, <1>2, FrontStep, ServerRunsThePipeline, Invariant, TimeoutsStandOut, PTL DEF ServerSpec
----------------------------------------------------------------------------
(* The stale server.                                                       *)

\* The reply to r, if any, judges nothing, and r cannot get any further than a TIMEOUT.
JudgesNothing(r) ==
    /\ stage = "serving" /\ age > TimeoutThreshold
    /\ pc[r] \in {"idle", "timeoutLock", "done"}
    /\ reply[r] # NoReply => reply[r].verdict \in {"none", "TIMEOUT"}

\* Once the tracker is past its timeout, no step of the server makes r a judged request:
\* the gate sends it to build_timeout_response.
LEMMA StaleStep ==
    ASSUME NEW r \in Requests
    PROVE  IInv /\ FrontInv /\ JudgesNothing(r) /\ [ServerNext]_serverVars => JudgesNothing(r)'
<1> SUFFICES ASSUME IInv, FrontInv, JudgesNothing(r), [ServerNext]_serverVars
             PROVE  JudgesNothing(r)'
  OBVIOUS
<1>0. /\ stage = "serving" /\ age > TimeoutThreshold /\ age \in Nat /\ TimeoutThreshold \in Nat
      /\ pc \in [Requests -> PC] /\ DOMAIN reply = Requests
  BY PipelineAssumption DEF JudgesNothing, IInv, TypeOK, FrontInv
<1>1. CASE UNCHANGED <<stage, age, pc, reply>>
  BY <1>1 DEF JudgesNothing
<1>2. CASE Boot
  BY <1>0, <1>2 DEF Boot, ReadPorts, BuildFork, BuildTracker, LoadSigner, ConnectDatabase, Bind
<1>3. CASE ServerTick
  <2>1. UNCHANGED <<stage, pc, reply>> /\ age' = Saturate(age, TimeoutThreshold + 1)
    BY <1>3 DEF ServerTick, Tick, bootVars, frontVars
  <2>2. age' > TimeoutThreshold
    BY <1>0, <2>1 DEF Saturate
  <2> QED
    BY <1>0, <2>1, <2>2 DEF JudgesNothing
<1>4. CASE ServerLog \/ UNCHANGED serverVars
  <2>1. UNCHANGED <<stage, age, pc, reply>>
    BY <1>4
    DEF ServerLog, LogStep, insert_verdict, InsertFails, clockVars, bootVars, frontVars, serverVars, vars
  <2> QED
    BY <1>1, <2>1
<1>5. ASSUME NEW q \in Requests, NEW ch, NEW body, Dispatch(q, ch, body) PROVE JudgesNothing(r)'
  <2>1. CASE body = "tx"
    <3>1. /\ UNCHANGED <<stage, age, reply>>
          /\ pc' = [pc EXCEPT ![q] = IF Staleness = "Timeout" THEN "timeoutLock" ELSE "lock"]
      BY <1>5, <2>1 DEF Dispatch, BeginEvaluate, bootVars, clockVars
    <3>2. Staleness = "Timeout"
      BY <1>0 DEF Staleness
    <3> QED
      BY <1>0, <3>1, <3>2 DEF JudgesNothing
  <2>2. CASE body # "tx"
    <3>1. UNCHANGED <<stage, age, pc>> /\ \E s : reply' = [reply EXCEPT ![q] = Status(s)]
      BY <1>5, <2>2 DEF Dispatch, bootVars, pipelineVars, vars, ErrorReply
    <3>2. reply'[r] = reply[r] \/ reply'[r].verdict = "none"
      BY <1>0, <3>1 DEF Status
    <3> QED
      BY <3>1, <3>2 DEF JudgesNothing
  <2> QED
    BY <2>1, <2>2
<1>6. ASSUME NEW q \in Requests, Handle(q, RequestStep(q)) PROVE JudgesNothing(r)'
  <2>1. CASE q # r
    BY <1>6, <2>1, HandleEffect DEF JudgesNothing
  <2>2. CASE q = r
    <3>1. /\ UNCHANGED <<age, stage>> /\ pc[r] = "timeoutLock" /\ RequestStep(r)
      BY <1>6, <2>2, HandleEffect DEF JudgesNothing, Handle
    <3>2. build_timeout_response(r)
      BY <3>1
      DEF RequestStep, AcquireFork, Simulated, SimulationFailed, SimulationPanicked,
          CheckerTimesOut, CheckerCompletes, Finish, DeadlineExceeded, Abandoned
    <3>3. /\ pc'[r] = "done"
          /\ \/ outcome'[r] = "attested" /\ attestation'[r].verdict = "TIMEOUT"
             \/ outcome'[r] = "error"
      BY <1>0, <3>2
      DEF build_timeout_response, LeaveWith, LeaveWithout, Leave, TimeoutAttestation, Attest,
          IInv, TypeOK
    <3>4. Respond(r)
      BY <1>6, <2>2, <3>3 DEF Handle
    <3>5. reply'[r].verdict \in {"none", "TIMEOUT"}
      <4>1. CASE outcome'[r] = "attested"
        <5>1. reply' = [reply EXCEPT ![r] = VerdictReply(channel[r], attestation'[r])]
          BY <3>4, <4>1 DEF Respond
        <5>2. reply'[r].verdict = attestation'[r].verdict
          BY <1>0, <5>1 DEF VerdictReply
        <5> QED
          BY <3>3, <4>1, <5>2
      <4>2. CASE outcome'[r] = "error"
        <5>1. reply' = [reply EXCEPT ![r] = ErrorReply(channel[r], "Pipeline")]
          BY <3>4, <4>2 DEF Respond
        <5> QED
          BY <1>0, <5>1 DEF ErrorReply, Status
      <4> QED
        BY <3>3, <4>1, <4>2
    <3> QED
      BY <1>0, <3>1, <3>3, <3>5 DEF JudgesNothing
  <2> QED
    BY <2>1, <2>2
<1> QED
  BY <1>2, <1>3, <1>4, <1>5, <1>6 DEF ServerNext

\* main calls record_update once and nothing calls it again: once the timeout threshold
\* has passed, the server judges no new transaction, for ever.
StaleServerJudgesNothing ==
    \A r \in Requests :
        [](stage = "serving" /\ Staleness = "Timeout" /\ channel[r] = "none"
              => [](reply[r] # NoReply => reply[r].verdict \in {"none", "TIMEOUT"}))

\* The gate at the start of evaluate_raw_tx fails closed: with no caller of
\* record_update, a server past its timeout threshold answers no new request with a
\* judgement.
THEOREM StaleServerNeverJudges == ServerSpec => StaleServerJudgesNothing
<1>1. ServerInit => FrontInv
  BY DEF ServerInit, Init, FrontInv
<1>2. ASSUME NEW r \in Requests
      PROVE  ServerSpec => [](stage = "serving" /\ Staleness = "Timeout" /\ channel[r] = "none"
                  => [](reply[r] # NoReply => reply[r].verdict \in {"none", "TIMEOUT"}))
  <2>1. IInv /\ FrontInv /\ JudgesNothing(r) /\ [ServerNext]_serverVars => JudgesNothing(r)'
    BY StaleStep
  <2>2. FrontInv /\ stage = "serving" /\ Staleness = "Timeout" /\ channel[r] = "none"
           => JudgesNothing(r)
    BY DEF FrontInv, JudgesNothing, Staleness
  <2>3. JudgesNothing(r) => (reply[r] # NoReply => reply[r].verdict \in {"none", "TIMEOUT"})
    BY DEF JudgesNothing
  <2> QED
    BY <1>1, <2>1, <2>2, <2>3, FrontStep, ServerRunsThePipeline, Invariant, PTL DEF ServerSpec
<1> QED
  BY <1>2 DEF StaleServerJudgesNothing
==============================================================================
