SPECIFICATION Spec
CONSTANTS
    Signers = {"prod", "dev"}
    TrustedSigners = {"prod"}
    TxHashes = {"t1"}
    Judged <- MCOneJudged
    NoEnvelope = NoEnvelope
    MaxSlot = 3
    MaxSigned = 2
    MaxReplaced = 2
INVARIANTS
    AcceptedIsIssuedAndFresh
    ReaderGetsIssuedVerdict
    VerifiersAgree
CHECK_DEADLOCK FALSE
