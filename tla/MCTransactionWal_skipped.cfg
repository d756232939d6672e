CONSTANTS
  t1 = t1
  t2 = t2
  a = a
  b = b
  Tx <- MCTx
  Keys <- MCKeys
  Writes <- MCWrites
  Deletes <- MCDeletes
  Generated = Generated
  Absent = Absent
  Unknown = Unknown
  Recovery = Recovery
  MaxStops = 2
  MaxFails = 0
  MaxDue = 1
CHECK_DEADLOCK FALSE
SPECIFICATION Spec
INVARIANT CommittedIsReplayed
