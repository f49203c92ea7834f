SPECIFICATION LiveSpec
CHECK_DEADLOCK FALSE
CONSTANTS
  c1 = c1
  c2 = c2
  s1 = s1
  s2 = s2
  g1 = g1
  k1 = k1
  k2 = k2
  k3 = k3
  Mailboxes = {m1}
  Keys = {g1, k1}
  GivenKeys = {g1}
  Servers = {s1}
  Callers = {c1}
  ServerOf <- MCServerOf
  ListBound = 3
  MayExpire = {"automatic"}
  MaxEvents = 1
PROPERTIES
  ServerComesUp
