SPECIFICATION Spec
CONSTANTS
    eth = eth
    bsc = bsc
    Chains = {eth, bsc}
    Reqs = {1, 2}
    ChainOf <- TwoChains
    Workers = {g1, g2}
    GroupSign = 2
    GroupBlockGap = 1
    StartGap = 2
    RoundBlock = 2
    MaxFailed = 1
    MaxBacklog = 1
    FaultKinds = {"late"}
    MaxFaults = 1
INVARIANT PaidAtMostOnce
