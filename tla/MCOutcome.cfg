SPECIFICATION OutcomeFairSpec
CONSTANTS
    v1 = v1
    v2 = v2
    Rows <- MCRows
    Ttl = 0
    BatchSize = 1
    Retention = 1
INVARIANTS
    OutcomesAreEarned
    ExpiredOnlyIfForgotten
PROPERTIES
    OutcomeIsFinal
    EveryApproveIsResolved
CHECK_DEADLOCK FALSE
