CONSTANTS
  a = a
  b = b
  l = l
  t = t
  w = w
  wx = wx
  t1 = t1
  t2 = t2
  Databases <- MCDatabases
  Schemas = {b}
  Drawers = {w}
  Tenants = {t}
  Locations <- MCLocations
  Wal = Wal
  Dotted <- MCDotted
  Threads = {t1, t2}
  Records = {1, 2}
  Kinds = {"schema", "tenant", "database", "namespace", "qualified"}
  Ddl = {"database", "schema", "drawer", "route", "restore"}
  StartCatalogs <- MCStart
  CacheLimit = 1
  Inodes = {1,2,3,4,5,6,7,8,9}
  MaxDdl = 2
  MaxStops = 1
  MaxEmpty = 1
  FlatOf <- MCFlatOf
  TenantOf <- MCTenantOf
SYMMETRY MCThreads
CHECK_DEADLOCK FALSE
SPECIFICATION Spec
INVARIANTS TypeOK  AckedListed
