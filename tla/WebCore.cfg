SPECIFICATION Spec
CONSTANTS
  Handlers = {h1, h2}
  Servers = {"hub", "s1"}
  Hub = "hub"
  MaxNodes = 2
  MaxFailures = 2
  Plugins = {"ai", "sync"}
  Callers = {c1, c2}
  Activities = {a1}
  MaxRestarts = 1
  Peers = {"p"}
  Users = {u1, u2}
  MaxFabrics = 2
  MaxSessions = 2
INVARIANTS NodesHold EnabledIsDurable FabricHolds
PROPERTIES DrainedBeforeDispose CoreSettles
CHECK_DEADLOCK FALSE
