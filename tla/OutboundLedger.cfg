SPECIFICATION FairSpec
CONSTANTS
    eth = eth
    bsc = bsc
    Chains = {eth}
    Reqs = {1, 2}
    ChainOf <- OneChain
    Workers = {g1, g2}
    GroupSign = 2
    GroupBlockGap = 1
    StartGap = 2
    RoundBlock = 2
    MaxFailed = 1
    MaxBacklog = 2
    FaultKinds = {"query", "dial", "sign", "drop", "evict", "revert", "submit", "missed", "keygen", "late"}
    MaxFaults = 2
INVARIANTS TypeOK NoReqLost PaidAtMostOnce
PROPERTY LedgerSpec
