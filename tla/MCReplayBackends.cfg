SPECIFICATION PartSpec
CONSTANTS
  Keys = {k1, k2}
  NoKey = NoKey
  Tokens = {t1, t2}
  NoToken = NoToken
  Ttls = {1, 2}
  MaxTime = 3
  MaxEntries = 1
  Lag = 1
  RowKey = k1
  Workers = {w1, w2}
SYMMETRY Perms
INVARIANTS
  TypeOK
  ExclusiveWindows
  HolderCanSettle
  CapacityHonoured
PROPERTIES
  SettledStays
  PythonStoreSpec
  MemoryStoreSpec
  SqlStoreSpec
CHECK_DEADLOCK FALSE
