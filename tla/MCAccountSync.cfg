SPECIFICATION SyncSpec
CONSTANTS
    Keys = {"pool", "user"}
    InitialAccounts = {"pool"}
    Blocks <- MCBlocks
    Touched = {"pool"}
    Sysvars = {"user"}
    Ttl = 0
    MonitoredTtl = 0
    ChunkSize = 1
    MaxSlot = 4
    NoKey = "none"
INVARIANTS
    SyncTypeOK
    StreamedEntriesAreCurrent
    FilledEntriesMissOnlyTheGap
CHECK_DEADLOCK FALSE
