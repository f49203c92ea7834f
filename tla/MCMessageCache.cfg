SPECIFICATION CacheSpec
CHECK_DEADLOCK FALSE
CONSTANTS
  a1 = a1
  a2 = a2
  b1 = b1
  s1 = s1
  Items = {a1, a2, b1}
  ExtOf <- MCExtOf
  AliasItems = {b1}
  Poor = {a2}
  Nobody = Nobody
  Syncers = {s1}
  OneProcess = TRUE
  Offered <- MCOffered
  PageSize = 1
  MaxPages = 2
  Limit = 2
  MaxLeaves = 1
  MaxEvents = 2
  m1 = m1
  m2 = m2
  m3 = m3
  Messages = {m1, m2, m3}
  Date <- Spread
  Id <- Places
  Adapters = {"graph"}
  RangeLimit = 2
  GmailLimit = 2
  ScanLimit = 4
  Second = 2
  Day = 8
  MaxTime = 8
  MaxDepth = 20
  ExportPage = 1
  MaxErrors = 1
  MaxDeletes = 1
  MaxRestores = 1
  MaxExports = 1
INVARIANTS
  NothingSkipped
  TombstonesApplied
  ExportMissesNothing
PROPERTIES
  MirrorSpec
  RestoreIsComplete
