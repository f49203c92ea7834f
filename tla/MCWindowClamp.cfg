SPECIFICATION Spec
CONSTANTS
  m1 = m1
  m2 = m2
  m3 = m3
  m4 = m4
  m5 = m5
  c1 = c1
  c2 = c2
  c3 = c3
  i1 = i1
  i2 = i2
  NoCaller = NoCaller
  Messages = {m1, m2, m3, m4}
  AliasMail = {}
  Callers = {c1, c2}
  Instances = {i1}
  InstanceOf <- MCInstanceOf
  QueryLimit = 2
  AdapterLimit = 1
  Overlap = 1
  Lateness = 1
  MaxTime = 5
  MaxPurges = 0
  MaxAliasSyncs = 0
  MaxFetchErrors = 0
  MaxErrors = 0
  MaxCrashes = 0
  MaxFaults = 0
INVARIANTS
  CompleteImportIsFull
