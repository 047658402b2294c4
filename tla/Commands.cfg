CONSTANTS
  TypeNames <- MCTypeNames
  MaxCols = 2
  MaxVals = 2
  MaxConds = 2
  LongBits = 20
  IntBits <- MCIntBits
  RowMax = 256
  NameLen = 2
  TableNames = {"WHERE"}
  ColNames = {"c"}
  LineLits <- MCLineLits
  Keys <- MCKeys
  Lits <- MCLits
  OutSize = 512
  PrefixLen = 29
  TrailerLen = 27
  MaxRows = 3
SPECIFICATION Spec
INVARIANTS
  
  
  OffsetInBounds
