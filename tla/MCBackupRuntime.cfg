SPECIFICATION RuntimeSpec
CHECK_DEADLOCK FALSE
CONSTANTS
  i1 = i1
  i2 = i2
  t1 = t1
  often = often
  rare = rare
  off = off
  Instances = {i1, i2}
  Targets = {t1}
  Schedules = {often, rare}
  Due <- MCDue
  Horizon = 4
  MaxEvents = 2
  Requests = {r1, r2, r3}
  Capacity = 2
  Nobody = Nobody
  Other = Other
INVARIANTS
  WindowsRunOnce
  NoneIsCutOff
PROPERTIES
  DueIsServed
  ForgottenInOrder
