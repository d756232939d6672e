CONSTANTS
  c1 = c1
  c2 = c2
  c3 = c3
  Calls <- MCCalls
  Policies <- MCPolicies
  MaxFaults = 2
SPECIFICATION FairSpec
INVARIANTS
  TypeOK
  AckedInFile
  FileOrdered
  WaiterNotOrphaned
  OnlyFailuresLeak
PROPERTIES
  ImplementsDurableLog
  
