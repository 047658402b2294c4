SPECIFICATION Spec
CONSTANTS
    a = a
    b = b
    Clients = {a, b}
    Names <- MCNames
    SysNames <- MCSysNames
    PageRows <- MCPageRows
    ObjectRows = 4
    TableRows = 3
    ColumnRows = 3
    MaxCols = 2
    MaxCreates = 2
    MaxOpens = 1
    MaxPasses = 1
    MaxRestarts = 1
SYMMETRY Symmetry
CHECK_DEADLOCK FALSE
INVARIANTS
    OpenIsOwn
    CreatedSurvives
