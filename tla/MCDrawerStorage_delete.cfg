CONSTANTS
  k1 = k1
  k2 = k2
  none = none
  Keys <- TwoKeys
  Vals <- ThreeVals
  Length <- Lengths
  Align = 2
  Absent = none
  StopsIn = {"delete"}
  MaxOps = 4
  MaxStops = 1
SPECIFICATION Spec
INVARIANTS
  ReadsNoOtherRecord
CHECK_DEADLOCK FALSE
