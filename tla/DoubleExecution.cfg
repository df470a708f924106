SPECIFICATION Spec
CONSTANTS
    t1 = t1
    t2 = t2
    t3 = t3
    TxHash = {t1, t2, t3}
    NoTx = NoTx
    Block = {b1}
    NoBlock = NoBlock
    Policy <- MCPolicy
    BlockNumber <- MCBlockNumber
    InputsOf <- MCOverlapping
    Tips <- MCTips
    Required = FALSE
    Monitoring = FALSE
    Wallet = {w1}
    MaxSends = 1
    MaxFaults = 0
INVARIANTS
    AlwaysExecutedOnce
CHECK_DEADLOCK FALSE
