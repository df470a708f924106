SPECIFICATION HistorySpec
SYMMETRY Symmetry
VIEW View
CONSTANTS
    input = input
    TxHash = {t1, t2}
    NoTx = NoTx
    Block = {b1, b2}
    NoBlock = NoBlock
    Policy <- MCPolicy
    BlockNumber <- MCBlockNumber
    InputsOf <- MCInputsOf
    Tips <- MCTips
    Required = TRUE
    Monitoring = TRUE
INVARIANTS
    TypeOK
    CommitEvidence
    SettledIsEvidenced
    AssertionsMatchBlock
    PollingKept
    ConfirmedIsWinning
    ReadyAnnounced
    SpentIsInspected
PROPERTIES
    CommitLeavesOnlyByProof
    ConflictedIsFinal
