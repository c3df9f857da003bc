SPECIFICATION Spec
CONSTANTS
  Requests = {r1, r2}
  Paths = {"p"}
  Versions = {1, 2}
  MaxTransfers = 1
  MaxFaults = 1
  Services = {s1}
  Admins = {r1, r2}
  MaxRev = 3
  MaxStoreFaults = 1
  Exchanges = {r1, r2}
  ServiceKinds <- UpstreamKinds
  ClientCalls <- UpstreamCalls
  Modules <- UpstreamModules
  Builtin <- EmptyScript
  Increments <- UpstreamIncrements
  MaxValues = 2
  MaxEdits = 0
  MaxPieces = 0
  MaxFails = 1
  Askers = {r1, r2}
  Wanted <- EndpointsWanted
  MaxIds = 2
  MaxTasks = 4
  MaxTrouble = 1
  Clients = {r1, r2}
  Groups = {"g1"}
  Secrets = {"s1"}
  Leased = TRUE
  Member = FALSE
  MaxOrders = 2
SYMMETRY Symmetry
INVARIANTS FilesHold StoreHolds UpstreamHolds NoPortLost EndpointsHold ApiHolds
CHECK_DEADLOCK FALSE
