SPECIFICATION Spec
CONSTANTS
    Chains = {eth}
    MinCheckBlockGap = 30
    RetryGap = 3
    FirstDelay = 5
    SecondDelay = 10
    StartHeight = 40
    MaxHeight = 70
    MaxPools = 4
    MaxRestarts = 1
    MaxDeposits = 2
    MissChurn = FALSE
    ChurnWhileMoving = FALSE
INVARIANTS TypeOK NoFundsStranded
PROPERTIES FundsMoveForward ItemDroppedWhenEmpty
CHECK_DEADLOCK FALSE
