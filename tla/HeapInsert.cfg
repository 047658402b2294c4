SPECIFICATION FairSpec
CONSTANTS
    NExecs = 2
    Pks = {1, 2}
    PageCap = 1
    LogCap = 2
    MaxInserts = 3
    MaxCrashes = 1
INVARIANTS
    AckedIsVisible
    
    PkUnique
PROPERTIES
    InsertEnds
    DirtyIsFlushed
