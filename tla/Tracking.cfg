SPECIFICATION MCSpec
SYMMETRY Symmetry
CONSTANTS
    input = input
    TxHash = {t1, t2}
    Worker = {w1, w2}
    NoTx = NoTx
    Block = {b1}
    NoBlock = NoBlock
    Policy <- MCPolicy
    BlockNumber <- MCBlockNumber
    InputsOf <- MCInputsOf
    Tips <- MCTips
    Required = FALSE
    Monitoring = FALSE
    MaxTries = 2
    MaxVersion = 4
INVARIANTS
    TypeOK
    ReadsCurrent
    WinnerIsExclusive
PROPERTIES
    SettlementKept
    AtomicProjection
