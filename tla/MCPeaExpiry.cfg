SPECIFICATION FairSpec
CONSTANTS
    Signers = {"prod", "dev"}
    TrustedSigners = {"prod"}
    TxHashes = {"t1"}
    Judged <- MCJudged
    NoEnvelope = NoEnvelope
    MaxSlot = 3
    MaxSigned = 1
    MaxReplaced = 0
PROPERTY
    IssuedVerdictIsFresh
CHECK_DEADLOCK FALSE
