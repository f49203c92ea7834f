SPECIFICATION FairSpec
CONSTANTS
  i1 = i1
  i2 = i2
  t1 = t1
  t2 = t2
  t1a = t1a
  t1b = t1b
  t2a = t2a
  NoRun = NoRun
  NoTarget = NoTarget
  NoThread = NoThread
  Instances = {i1, i2}
  Targets = {t1}
  Runs = {t1a, t1b}
  TargetOf <- MCTargetOf
  MaxDumps = 2
  MaxFaults = 1
INVARIANTS
  AtMostOneActiveRun
  OperationsExclude
  RunningRunHasWorker
  SucceededRunIsRestorable
PROPERTIES
  SettledRunsStay
  RestoreReopensItsRun
  PendingRunSettles
