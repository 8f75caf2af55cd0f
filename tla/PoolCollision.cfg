SPECIFICATION Spec
CONSTANTS
    Chains = {eth}
    MinCheckBlockGap = 30
    RetryGap = 3
    FirstDelay = 5
    SecondDelay = 10
    StartHeight = 40
    MaxHeight = 60
    MaxPools = 4
    MaxRestarts = 0
    MaxDeposits = 2
    MissChurn = FALSE
    ChurnWhileMoving = TRUE
INVARIANT NoFundsStranded
CHECK_DEADLOCK FALSE
