SPECIFICATION RetrievalSpec
CHECK_DEADLOCK FALSE
CONSTANTS
  m1 = m1
  m2 = m2
  m3 = m3
  m4 = m4
  m5 = m5
  c1 = c1
  c2 = c2
  c3 = c3
  i1 = i1
  i2 = i2
  NoCaller = NoCaller
  Messages = {m1, m2, m3}
  AliasMail = {m1}
  Callers = {c1, c2}
  Instances = {i1}
  InstanceOf <- MCInstanceOf
  QueryLimit = 3
  AdapterLimit = 2
  Overlap = 1
  Lateness = 1
  MaxTime = 3
  MaxPurges = 1
  MaxAliasSyncs = 1
  MaxFetchErrors = 1
  MaxErrors = 1
  MaxCrashes = 1
  MaxFaults = 1
  Seeded = FALSE
  MaxRequests = 1
  MaxChanges = 1
INVARIANTS
  NothingSkipped
PROPERTIES
  MailIsCached
  FailurePreservesAvailable
  
