SPECIFICATION ServerSpec
CONSTANTS
    r1 = r1
    r2 = r2
    oracle = oracle
    NoRequest = NoRequest
    NoReply = NoReply
    Requests <- MCRequests
    Checkers <- MCCheckers
    Findings <- MCFindings
    WarnThreshold = 1
    TimeoutThreshold = 2
    CheckerDeadline = 1
    PipelineDeadline = 1
    DbConfigured = TRUE
    Environments <- MCEnvironments
    DefaultThresholds <- MCDefault
    RelaxedThresholds <- MCRelaxed
INVARIANTS
    RepliesTellTheOutcome
    MetricsMatchTheLog
PROPERTY
    EveryRequestIsAnswered
CHECK_DEADLOCK FALSE
