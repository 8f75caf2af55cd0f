SPECIFICATION Spec
CONSTANTS
    PubChains = {"ETH", "BSC"}
    Denoms = {"usd", "coin", "ujolt"}
    Native <- MCNative
    Decimals <- MCDecimals
    Listings <- MCListings
    UpdateGap = 2
    Precision = 1
    JoltDecimals = 0
    DecUnit = 10
    FeeRatio = 1
    Ceil <- MCCeil
    Floor <- MCFloor
    Prices = {10, 7}
    Amounts = {0, 1, 5, 6, 14, 45, 200, 215}
    MsgAmounts = {14, 215}
    Receivers = {r1}
    Bad = Bad
    BlockHeight = 1
    MaxHeight = 2
    MaxHandled = 2
INVARIANT OneRequestPerDeposit
CHECK_DEADLOCK FALSE
