SPECIFICATION FairSpec
CONSTANTS
    Worker = {w1, w2}
    NoOwner = NoOwner
    MaxAttempts = 2
    MaxRetries = 1
    MaxFaults = 2
INVARIANTS
    TypeOK
    HolderIsCurrent
    AttemptsWithinBudget
    DuplicatesNeedFaults
PROPERTIES
    DeliveredIsFinal
    DeliveryEnds
