SPECIFICATION AdministrationSpec
CHECK_DEADLOCK FALSE
CONSTANTS
  None = None
  r1 = r1
  r2 = r2
  m1 = m1
  m2 = m2
  Sources = {r1, r2}
  Mailboxes = {m1, m2}
  Requests = {c1, c2}
  FirstRules <- Zones
  PageSize = 2
  MaxAsks = 2
  MaxEvents = 2
  Unset = Unset
  kind1 = kind1
  kind2 = kind2
  n1 = n1
  n2 = n2
  n3 = n3
  w1 = w1
  w2 = w2
  s1 = s1
  s2 = s2
  Connections = {cloudflare}
  Targets = {target}
  Settings = {setting}
  Accounts = {account}
  Kinds = {kind1, kind2}
  Secrets = {s1, s2}
  Fits <- MCFits
  Clients = {e1, e2}
  MaxVersion = 2
  MaxLosses = 1
INVARIANTS
  OneRulePerAddress
PROPERTIES
  
  SavedOverWhatWasSeen
  FoldersAreProbed
