SPECIFICATION FairSpec
CONSTANTS
    BufSize = 4
    Payload = 3
    MaxLen = 2
    CkptLen = 1
    MaxRecs = 3
    MaxFails = 2
CHECK_DEADLOCK FALSE
INVARIANTS
    BufferedIsIntact
PROPERTIES
    LsnsAdvance
    
    
