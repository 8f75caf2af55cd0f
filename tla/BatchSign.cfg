SPECIFICATION FairSpec
CONSTANT Items = {1, 2, 3, 4}
INVARIANTS TypeOK SendNeverBlocks NobodyLeftOut
PROPERTY Terminates
CHECK_DEADLOCK FALSE
