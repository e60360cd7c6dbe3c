SPECIFICATION ServerSpec
CONSTANTS
    r1 = r1
    r2 = r2
    oracle = oracle
    NoRequest = NoRequest
    NoReply = NoReply
    Requests <- MCDevRequests
    Checkers <- MCCheckers
    Findings <- MCFindings
    WarnThreshold = 4
    TimeoutThreshold = 8
    CheckerDeadline = 1
    PipelineDeadline = 1
    DbConfigured = TRUE
    Environments <- MCDevEnvironments
    DefaultThresholds <- MCDefault
    RelaxedThresholds <- MCRelaxed
PROPERTY
    TrackerIsKeptAlive
CHECK_DEADLOCK FALSE
