SPECIFICATION Spec
CONSTANTS
    r1 = r1
    r2 = r2
    oracle = oracle
    authority = authority
    NoRequest = NoRequest
    Requests <- MCRequests
    Checkers <- MCCheckers
    Findings <- MCFindings
    WarnThreshold = 1
    TimeoutThreshold = 2
    CheckerDeadline = 1
    PipelineDeadline = 1
    DbConfigured = TRUE
SYMMETRY Symmetry
INVARIANTS
    TimeoutsAreUnmistakable
    LoggedVerdictsWereIssued
    EveryVerdictIsAccountedFor
    ApproveRestsOnEvidence
    ForkHeldOnlyToSimulate
PROPERTIES
    ImplementsVerdictService
    PoisonedForkNeverAttests
CHECK_DEADLOCK FALSE
