SPECIFICATION LifeSpec
CONSTANTS
    Reqs = {1, 2, 3}
    Workers = {g1, g2}
    GroupSign = 2
    GroupBlockGap = 1
    RollbackGap = 1
    RoundBlock = 2
    MaxFailed = 1
    MaxBacklog = 2
    FaultKinds = {"query", "feed", "dial", "height", "sign", "drop", "missed", "dup", "keygen"}
    MaxFaults = 1
    MaxStops = 1
    MaxCrashes = 1
INVARIANTS OneBatch RestartMintsOnce
PROPERTY StopLosesOneBatch
