SPECIFICATION Spec
CONSTANTS
    Instructions <- MCInstructions
    Keys <- MCKeys
    KeyOrder <- MCKeyOrder
    Sources <- MCSources
    PreState <- MCPreState
    FeePayer = "payer"
    Fee = 1
    TransferAmount = 2000
    TOKEN_REGISTRY <- MCRegistry
    ParsedAmounts <- MCParsedAmounts
    I128_MAX <- MCI128_MAX
    MaxTopLevel = 2
    MaxInner = 2
    MaxHeight = 3
    Intents <- MCIntents
    FeedStates <- MCFeedStates
INVARIANTS
    KnownAuthorityChangeNeverApproved
    SignedChangeAlwaysReported
    StandingApprovalFlaggedInLayer
    DeltasConserveLamports
    FailedSimulationConfirmsNothing
    OracleCallsAreRead
    AnomaliesReportedOnce
    ContradictedFeedIsBlocked
PROPERTY
    ExecutionNeverSoftens
CHECK_DEADLOCK FALSE
