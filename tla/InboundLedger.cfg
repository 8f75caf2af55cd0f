SPECIFICATION FairSpec
CONSTANTS
    Reqs = {1, 2, 3}
    Workers = {g1, g2}
    GroupSign = 2
    GroupBlockGap = 1
    RollbackGap = 1
    RoundBlock = 2
    MaxFailed = 1
    MaxBacklog = 1
    FaultKinds = {"query", "height", "sign", "drop", "late", "status", "missed", "dup", "keygen"}
    MaxFaults = 2
INVARIANTS TypeOK NoReqLost BusyMeansInFlight FailedBounded
PROPERTY LedgerSpec
