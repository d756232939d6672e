CONSTANTS
  a1 = a1
  a2 = a2
  b1 = b1
  c1 = c1
  A = A
  B = B
  C = C
  owner = owner
  ally = ally
  t1 = t1
  t2 = t2
  Threads = {t1, t2}
  Drawers <- MCDrawers
  Pointers <- MCPointers
  DrawerOf <- MCDrawerOf
  Fields <- MCFields
  Rules <- MCRules
  CascadeFields <- MCCascadeFields
  Untracked <- MCUntracked
  Required <- MCRequired
  Maps <- MCNone
  Payloads <- MCPayloads
  Populations <- MCPopulations
  Absent = Absent
  MaxOps = 2
  MaxRestarts = 1
CHECK_DEADLOCK FALSE
SPECIFICATION Spec
INVARIANTS TypeOK IndexExact NoReentry NoDanglingAfterDelete DeletesClosure
PROPERTY EveryOperationEnds
