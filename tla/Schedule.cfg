SPECIFICATION FairSpec
CONSTANTS
    Request = {c1, c2}
    NoRequest = NoRequest
    Sweep = {w1, w2}
    NoSweep = NoSweep
    Horizon = 2
    MaxFaults = 2
INVARIANTS
    TypeOK
    RunsNeedFaults
    OpenClaimIsHeld
    SweepsNeedFaults
PROPERTIES
    DueIsServed
