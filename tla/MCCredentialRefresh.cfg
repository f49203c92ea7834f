SPECIFICATION LiveSpec
CHECK_DEADLOCK FALSE
CONSTANTS
  c1 = c1
  c2 = c2
  i1 = i1
  i2 = i2
  k1 = k1
  k2 = k2
  graph = graph
  imap = imap
  Other = "single"
  Callers = {c1, c2}
  Keys = {k1, k2}
  Instances = {i1, i2}
  Methods = {graph}
  AdapterOf <- MCAdapterOf
  PoolSize = 2
  MaxJobs = 2
  MaxEvents = 1
INVARIANTS
  OneRefreshAtATime
PROPERTIES
  StoredTokenAdvances
  RotationKept
  RefreshEnds
