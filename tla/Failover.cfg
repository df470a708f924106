SPECIFICATION FairSpec
CONSTANTS
    c1 = c1
    c2 = c2
    e1 = e1
    e2 = e2
    e3 = e3
    Caller = {c1, c2}
    Endpoint = {e1, e2, e3}
    NoEndpoint = NoEndpoint
    Urls <- MCUrls
    Chain = {"ckb", "ckb_testnet"}
    NoChain = NoChain
    ChainOf <- MCChainOf
    Expected <- MCExpected
    Threshold = 2
    Cooldown = 2
    MaxFaults = 1
INVARIANTS
    TypeOK
    FailsOnlyIfAsked
    EvidenceIsIndependent
PROPERTIES
    FailoverRecovers
