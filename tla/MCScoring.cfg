SPECIFICATION LoopSpec
CONSTANT MaxCheckers = 7
INVARIANTS EncodedScoreIsExact RoundingNeverLenient ApproveNeedsEvidence
PROPERTY MoreResultsNeverSoften
CHECK_DEADLOCK FALSE
