CONSTANTS
  k1 = k1
  k2 = k2
  k3 = k3
  one = one
  two = two
  name = name
  pointer = pointer
  list = list
  Keys = {k1, k2}
  Offsets = {1, 2, 3}
  Values = {one, two, name, pointer, list}
  KindOf <- MCKindOf
  RankOf <- MCRankOf
  IdOf <- MCIdOf
  Filters <- MCFilters
  None = None
  MaxOps = 5
CHECK_DEADLOCK FALSE
SPECIFICATION Spec
INVARIANTS TypeOK  
