SPECIFICATION FairSpec
CONSTANTS
    PubChains = {"ETH", "BSC"}
    Renewers = {g1}
    Tries = 2
    QueueCap = 3
    MaxOut = 1
    Gens = {1, 2}
    MaxRetry = 2
    Budget = 3
    CutCost = 2
INVARIANTS TypeOK EachEventOnce NobodyWaitsForRoom NothingUnsubmitted KeygenFlag
PROPERTIES HeadsHandled BlocksHandled FeedRecovers KeySubmitted
