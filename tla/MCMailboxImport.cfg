SPECIFICATION ImportSpec
CHECK_DEADLOCK FALSE
CONSTANTS
  None = None
  a1 = a1
  a2 = a2
  l1 = l1
  p1 = p1
  k1 = k1
  Addresses = {a1, a2}
  Aliases = {l1}
  Accounts = {p1}
  Keys = {k1}
  Files <- MCFiles
  Aliased <- MCAliased
  Entries <- MCEntries
  Defaults <- MCDefaults
  Ports <- MCPorts
  Times <- MCTimes
  Namespaces <- MCNamespaces
  Templates <- MCTemplates
  TemplateRecords <- MCTemplateRecords
  Strategies = {"skip", "update", "error"}
  MaxVersion = 9
  Clients = {c1, c2}
  Workers = {w1}
  QueueBound = 1
  MaxRequests = 2
  MaxEvents = 1
INVARIANTS
  PreviewAgrees
  RoutesStayInside
  ValidRowsSeal
  ExportComesBack
PROPERTIES
  StoreSpec
  ImportedIsFetched
