SPECIFICATION Spec
CONSTANTS
    Threads = {1, 2}
    Lens = {0, 2, 3, 15}
    Word = 16
    PageSize = 12
    AreaOff = 1
    NextOff = 11
    SlotSize = 1
    HdrSize = 1
    UndoSize = 2
    MaxOld = 2
    MaxVers = 4
CHECK_DEADLOCK FALSE
INVARIANTS
    TuplesDisjoint
    HistoryReachable
    RowsSurvive
PROPERTIES
    TidsStayValid
