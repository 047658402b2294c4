SPECIFICATION FairSpec
CONSTANTS
    RingSize = 3
    PreAllocNum = 6
    Thres = 1
    SuperId = 1
    PoolSize = 4
    MaxId = 4
    MaxBoots = 2
    MaxCrashes = 1
    MaxSplits = 1
CHECK_DEADLOCK FALSE
INVARIANTS
    SingleOwner
    StagedIsBlank
PROPERTIES
    FreshIsFirst
    SavedIsKept
    RingIsRefilled
