------------------------------- MODULE Server -------------------------------
(***************************************************************************)
(* The API server (crates/ciel-server): the start-up of main.rs, the REST  *)
(* and gRPC front ends of one shared pipeline, and the metrics.  Nothing   *)
(* calls record_update once the server runs: main starts no Geyser         *)
(* subscriber and no keep-alive task.                                      *)
(***************************************************************************)
EXTENDS VerdictPipeline

CONSTANTS
    Environments,       \* what main finds: see Environment
    DefaultThresholds,  \* StalenessConfig::default, as <<warn, timeout>>
    RelaxedThresholds,  \* the ones main uses in dev mode
    NoReply             \* a request that has not been answered

\* rpc: the RPC keys and the nodes behind them; key: CIEL_SIGNING_KEY_PATH and its
\* file; db: DATABASE_URL and the database; rest, grpc: CIEL_REST_PORT, CIEL_GRPC_PORT
\* and the ports they name, or the default ones.
Environment ==
    [rpc : {"unset", "down", "up"}, key : {"unset", "invalid", "valid"},
     db : {"unset", "down", "unmigrated", "up"},
     rest : {"unparseable", "taken", "free"}, grpc : {"unparseable", "taken", "free"}]

\* init_database: Some(pool) only after a connection and the migrations.
init_database(e) == e.db = "up"

\* Dev mode is decided by the environment variable alone, not by what the fork is.
staleness_config(e) == IF e.rpc = "unset" THEN RelaxedThresholds ELSE DefaultThresholds

\* The pipeline is the one that main builds from the environment.
ASSUME ServerAssumption ==
    /\ Environments \subseteq Environment
    /\ \A e \in Environments : /\ init_database(e) = DbConfigured
                               /\ staleness_config(e) = <<WarnThreshold, TimeoutThreshold>>

VARIABLES
    env,            \* the environment of the process
    stage,          \* how far main is
    fork,           \* how ForkSimulator was built
    channel,        \* the front end each request came through
    reply,          \* what the client got
    verdict_total,  \* the counter ciel_verdict_total, by verdict
    checker_result  \* the counter ciel_checker_result, by checker and timed_out

pipelineVars == vars
frontVars == <<channel, reply, verdict_total, checker_result>>
bootVars  == <<env, stage, fork>>
serverVars == <<vars, env, stage, fork, channel, reply, verdict_total, checker_result>>

ServerInit ==
    /\ Init
    /\ env \in Environments
    /\ stage = "ports" /\ fork = "none"
    /\ channel = [r \in Requests |-> "none"]
    /\ reply = [r \in Requests |-> NoReply]
    /\ verdict_total = [v \in Verdict |-> 0]
    /\ checker_result = [c \in Checkers |-> [completed |-> 0, timed_out |-> 0]]
----------------------------------------------------------------------------
(* main.                                                                   *)

\* 3. A port variable that is no number ends the process before anything is built.
ReadPorts ==
    /\ stage = "ports"
    /\ stage' = IF "unparseable" \in {env.rest, env.grpc} THEN "panicked" ELSE "fork"
    /\ UNCHANGED <<env, fork, pipelineVars, frontVars>>

\* 4. Any error of ForkSimulator::new, not only a missing key, gives an offline fork.
BuildFork ==
    /\ stage = "fork"
    /\ stage' = "tracker"
    /\ fork' = IF env.rpc = "up" THEN "online" ELSE "offline"
    /\ UNCHANGED <<env, pipelineVars, frontVars>>

\* 5. The first and last record_update, while the signer and the database are still
\* to come.
BuildTracker ==
    /\ stage = "tracker"
    /\ stage' = "signer"
    /\ record_update
    /\ UNCHANGED <<env, fork, frontVars>>

\* 6. A key file that cannot be used ends the process, a missing one does not.
LoadSigner ==
    /\ stage = "signer"
    /\ stage' = IF env.key = "invalid" THEN "panicked" ELSE "database"
    /\ UNCHANGED <<env, fork, pipelineVars, frontVars>>

\* 7. to 10. The pipeline gets the pool or none; connecting may take 10 s.
ConnectDatabase ==
    /\ stage = "database"
    /\ stage' = "bind"
    /\ UNCHANGED <<env, fork, pipelineVars, frontVars>>

\* 11. serve_rest panics without its port; serve_grpc only logs the error.
Bind ==
    /\ stage = "bind"
    /\ stage' = IF env.rest = "free" THEN "serving" ELSE "panicked"
    /\ UNCHANGED <<env, fork, pipelineVars, frontVars>>

Boot == ReadPorts \/ BuildFork \/ BuildTracker \/ LoadSigner \/ ConnectDatabase \/ Bind
----------------------------------------------------------------------------
(* The front ends.  A reply is [status, verdict, details].                 *)

Channels == {"rest"} \cup (IF env.grpc = "free" THEN {"grpc"} ELSE {})

\* What a client may send: a transaction, bytes that are none, an intent or nothing.
Bodies == {"tx", "malformed", "intent", "empty"}

NoDetails == [c \in {} |-> "None"]

Status(s) == [status |-> s, verdict |-> "none", details |-> NoDetails]

\* ServerError::into_response, and the Status values of evaluate_inner.
ErrorReply(ch, error) ==
    Status(CASE error = "InvalidRequest"  -> IF ch = "rest" THEN "400" ELSE "invalid_argument"
             [] error = "NotImplemented" -> IF ch = "rest" THEN "501" ELSE "unimplemented"
             [] error = "Pipeline"       -> IF ch = "rest" THEN "500" ELSE "internal")

\* pipeline_response_to_json and pipeline_to_proto: a checker that timed out is shown
\* as a Critical one, and a TIMEOUT verdict has no details.
CheckerDetails(att) ==
    IF att.verdict = "TIMEOUT" THEN NoDetails
    ELSE [c \in Checkers |-> IF att.hash[c] = "TimedOut" THEN "Critical" ELSE att.hash[c]]

VerdictReply(ch, att) ==
    [status  |-> IF ch = "rest" THEN "200" ELSE "ok",
     verdict |-> att.verdict, details |-> CheckerDetails(att)]

\* handle_verdict and evaluate_inner, up to the call of the pipeline.
Dispatch(r, ch, body) ==
    /\ stage = "serving"
    /\ pc[r] = "idle" /\ reply[r] = NoReply
    /\ ch \in Channels
    /\ channel' = [channel EXCEPT ![r] = ch]
    /\ IF body = "tx"
       THEN BeginEvaluate(r) /\ UNCHANGED reply
       ELSE /\ reply' = [reply EXCEPT ![r] =
                  ErrorReply(ch, IF body = "intent" THEN "NotImplemented" ELSE "InvalidRequest")]
            /\ UNCHANGED pipelineVars
    /\ UNCHANGED <<bootVars, verdict_total, checker_result>>

\* record_verdict; the outputs of a TIMEOUT response are empty.
CountChecker(c, att) ==
    IF att.verdict = "TIMEOUT" THEN checker_result[c]
    ELSE IF att.hash[c] = "TimedOut" THEN [checker_result[c] EXCEPT !.timed_out = @ + 1]
    ELSE [checker_result[c] EXCEPT !.completed = @ + 1]

record_verdict(att) ==
    /\ verdict_total' = [verdict_total EXCEPT ![att.verdict] = @ + 1]
    /\ checker_result' = [c \in Checkers |-> CountChecker(c, att)]

\* Mutant: the gRPC handler forgets to record its verdicts.
RespondUnrecorded(r) ==
    /\ reply' = [reply EXCEPT ![r] =
          CASE outcome'[r] = "attested" -> VerdictReply(channel[r], attestation'[r])
            [] outcome'[r] = "error"    -> ErrorReply(channel[r], "Pipeline")
            [] outcome'[r] = "dropped"  -> Status("closed")]
    /\ IF outcome'[r] = "attested" /\ channel[r] = "rest"
       THEN record_verdict(attestation'[r])
       ELSE UNCHANGED <<verdict_total, checker_result>>

\* Mutant: a TIMEOUT is reported as a failure of the server.
RespondTimeoutAsError(r) ==
    IF outcome'[r] = "attested" /\ attestation'[r].verdict # "TIMEOUT"
    THEN /\ reply' = [reply EXCEPT ![r] = VerdictReply(channel[r], attestation'[r])]
         /\ record_verdict(attestation'[r])
    ELSE /\ reply' = [reply EXCEPT ![r] =
                IF outcome'[r] = "dropped" THEN Status("closed") ELSE ErrorReply(channel[r], "Pipeline")]
         /\ UNCHANGED <<verdict_total, checker_result>>

\* The rest of the handler runs as soon as the pipeline returns; if its task died,
\* the connection is closed.
Respond(r) ==
    CASE outcome'[r] = "attested" ->
           /\ reply' = [reply EXCEPT ![r] = VerdictReply(channel[r], attestation'[r])]
           /\ record_verdict(attestation'[r])
      [] outcome'[r] = "error" ->
           /\ reply' = [reply EXCEPT ![r] = ErrorReply(channel[r], "Pipeline")]
           /\ UNCHANGED <<verdict_total, checker_result>>
      [] outcome'[r] = "dropped" ->
           /\ reply' = [reply EXCEPT ![r] = Status("closed")]
           /\ UNCHANGED <<verdict_total, checker_result>>

\* A step of the request's task, and the answer if it was the last one.
Handle(r, step) ==
    /\ step
    /\ IF pc'[r] = "done" THEN Respond(r) ELSE UNCHANGED <<reply, verdict_total, checker_result>>
    /\ UNCHANGED <<bootVars, channel>>

ServerTick == Tick /\ UNCHANGED <<bootVars, frontVars>>
ServerLog  == LogStep /\ UNCHANGED <<bootVars, frontVars>>

ServerNext ==
    \/ Boot
    \/ ServerTick
    \/ ServerLog
    \/ \E r \in Requests :
          \/ \E ch \in {"rest", "grpc"}, body \in Bodies : Dispatch(r, ch, body)
          \/ Handle(r, RequestStep(r))

\* As in the pipeline: time passes, main, the tasks and the requests get to run.
ServerFairness ==
    /\ WF_serverVars(Boot)
    /\ WF_serverVars(ServerTick)
    /\ WF_serverVars(ServerLog)
    /\ \A r \in Requests : WF_serverVars(Handle(r, Progress(r)))

ServerSpec == ServerInit /\ [][ServerNext]_serverVars /\ ServerFairness
----------------------------------------------------------------------------
(* Properties.                                                             *)

\* What a client is told of a request that ended with this result, at this point of the
\* pipeline: the verdict that was signed, with the severity of every checker as attested
\* or Critical for one that timed out, and none for a TIMEOUT; a server error for a
\* PipelineError; a closed connection for a task that died; a client error for what
\* never reached the pipeline.
Tells(told, result, att, at) ==
    CASE result = "attested" ->
           /\ told.status \in {"200", "ok"} /\ told.verdict = att.verdict
           /\ DOMAIN told.details = IF att.verdict = "TIMEOUT" THEN {} ELSE Checkers
           /\ \A c \in DOMAIN told.details :
                 \/ told.details[c] = att.hash[c] /\ att.hash[c] \in Severity
                 \/ told.details[c] = "Critical" /\ att.hash[c] = "TimedOut"
      [] result = "error" -> told.status \in {"500", "internal"} /\ told.verdict = "none"
      [] result = "dropped" -> told.status = "closed" /\ told.verdict = "none"
      [] OTHER ->
           /\ told.status \in {"400", "501", "invalid_argument", "unimplemented"}
           /\ told.verdict = "none" /\ at = "idle"

TellsTheOutcome(r) == Tells(reply[r], outcome[r], attestation[r], pc[r])

\* A reply is sent in the same step as the pipeline returns, over another channel
\* and in other words than the attestation it is about; no reply, on either front
\* end, ever says anything but what became of its own request.
RepliesTellTheOutcome ==
    \A r \in Requests : reply[r] # NoReply => channel[r] # "none" /\ TellsTheOutcome(r)

Told == {r \in Requests : reply[r] # NoReply /\ TellsTheOutcome(r)}

\* Every request that a front end takes is told, in the end, what became of it,
\* whatever other requests do with the fork: one that waits for a mutex which a
\* panic poisons, or is cut by a deadline, too.  And main ends its start-up one way
\* or the other.
EveryRequestIsAnswered ==
    /\ \A r \in Requests : channel[r] # "none" ~> r \in Told
    /\ <>(stage \in {"serving", "panicked"})

\* The log entries of a verdict, and those that name a checker as timed out.
EntriesOf(v) == {e \in Entries : e.attestation.verdict = v}
EntriesMissing(c) == {e \in Entries : c \in e.timed_out}

\* The counters on /metrics and the verdict log are kept by different code in
\* different tasks.  They agree: every verdict but TIMEOUT is counted as often as it
\* has an entry, its insert pending, done or failed, and so is every checker that
\* timed out.
MetricsMatchTheLog ==
    DbConfigured =>
        /\ \A v \in Verdict \ {"TIMEOUT"} : verdict_total[v] = Cardinality(EntriesOf(v))
        /\ \A c \in Checkers : checker_result[c].timed_out = Cardinality(EntriesMissing(c))

\* main.rs: "spawn a background keepalive task since there's no Geyser subscriber to
\* call record_update(). In production the Geyser subscriber (Unit 08) does this":
\* as long as the server runs, its tracker is fresh again and again.
TrackerIsKeptAlive == []<>(stage = "panicked" \/ Staleness = "Fresh")
=============================================================================
