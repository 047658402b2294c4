SPECIFICATION Spec
CONSTANTS
    NExecs = 2
    Pks = {1, 2, 3, 4}
    MaxKeys = 2
    PageCap = 3
    MaxInserts = 4
    MaxMissed = 1
    MaxFails = 1
CHECK_DEADLOCK FALSE
INVARIANTS
    CursorIsPinned
    LeafWellFormed
    RowsAreLogged
    
