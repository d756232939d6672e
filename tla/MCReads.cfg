SPECIFICATION Spec
CONSTANTS
  w = w
  v = v
  base = base
  NoDrawer = NoDrawer
  Unset = Unset
  DefaultSize = 3
  MaxUsize = 6
  Ids = {1, 2, 3, 4}
  Drawer = w
  CatalogPaths = {base}
  Files <- MCFiles
  Requests <- MCRequests
  Upserts <- MCUpserts
  Deletes <- MCDeletes
  MaxWrites = 2
INVARIANT EachRecordOnce
CHECK_DEADLOCK FALSE
