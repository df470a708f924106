SPECIFICATION HistorySpec
SYMMETRY Symmetry
CONSTANTS
    input = input
    TxHash = {t1, t2}
    NoTx = NoTx
    Block = {b1, b2}
    NoBlock = NoBlock
    Policy <- MCPolicy
    BlockNumber <- MCBlockNumber
    InputsOf <- MCInputsOf
    Tips <- MCTips
    Required = FALSE
    Monitoring = FALSE
INVARIANTS
    MismatchIsRecorded
