CONSTANTS
  k1 = k1
  k2 = k2
  none = none
  Keys <- TwoKeys
  Vals <- ThreeVals
  Length <- Lengths
  Align = 2
  Absent = none
  StopsIn = {"upsert", "open"}
  MaxOps = 4
  MaxStops = 2
SYMMETRY Symmetric
SPECIFICATION Spec
INVARIANTS
  TypeOK
  ReadsOwnRecord
  UniqueIndexExact
  NoDoubleAllocation
  MemoryMatchesFiles
PROPERTIES
  SlotsKeepTheirSize
  ImplementsDrawerMap
CHECK_DEADLOCK FALSE
