SPECIFICATION RpcFairSpec
CONSTANTS
    c1 = c1
    c2 = c2
    c3 = c3
    Callers <- MCCallers
    FailureThreshold = 2
    FailureWindow = 1
    OpenDuration = 2
INVARIANTS
    RpcTypeOK
    BreakerConsistent
    OldestFirst
PROPERTIES
    OpensOnRecentFailures
    OpenAdmitsNobody
    ProbeBecomesDue
    EveryCallReturns
CHECK_DEADLOCK FALSE
