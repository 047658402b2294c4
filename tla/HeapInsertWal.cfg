SPECIFICATION Spec
CONSTANTS
    NExecs = 1
    Pks = {1, 2}
    PageCap = 1
    LogCap = 2
    MaxInserts = 2
    MaxCrashes = 0
INVARIANTS
    WalBeforeData
