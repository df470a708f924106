SPECIFICATION Spec
SYMMETRY Alike
CONSTANTS
    t1 = t1
    t2 = t2
    t3 = t3
    TxHash = {t1, t2}
    NoTx = NoTx
    Block = {b1}
    NoBlock = NoBlock
    Policy <- MCPolicy
    BlockNumber <- MCBlockNumber
    InputsOf <- MCInputsOf
    Tips <- MCTips
    Required = FALSE
    Monitoring = FALSE
    Wallet = {w1}
    MaxSends = 2
    MaxFaults = 1
INVARIANTS
    TypeOK
    KnownBeforeSent
    ExecutedOnce
    LiveIsScheduled
    LiveIsTracked
PROPERTIES
    AmbiguousIsNotResent
CHECK_DEADLOCK FALSE
