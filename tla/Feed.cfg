SPECIFICATION FairSpec
CONSTANTS
    Capacity = 2
    LastSnapshot = 5
    MaxDrops = 2
INVARIANTS TypeOK LastIsLatest
PROPERTY EndIsShown
CHECK_DEADLOCK FALSE
