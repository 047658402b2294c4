SPECIFICATION FairSpec
CONSTANTS
    Clients = {c1, c2}
    NoClient = none
    MaxCmds = 2
    MaxTimeouts = 1
    MaxClients = 3
CHECK_DEADLOCK FALSE
INVARIANTS
    
    ExecIsBacked
PROPERTIES
    InsertReturns
