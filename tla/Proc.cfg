SPECIFICATION ProcSpec
CONSTANTS
    NCpus = 2
    Procs = {dshell, prealloc, ckpt}
    NoProc = none
    PrioMax = 4
    Prio0 = 0
    MaxWait = 4
CHECK_DEADLOCK FALSE
INVARIANTS
    RunsAtHome
    QueuesAccounted
    WaitIsBounded
