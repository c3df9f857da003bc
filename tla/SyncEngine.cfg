SPECIFICATION SyncFairSpec
CONSTANTS
  Devices = {A, B}
  Seed = A
  Paths = {p, q}
  Contents = {0, 1, 2}
  SeedPaths = {p}
  Writers = {A, B}
  MaxSyncFaults = 1
  MaxCommits = 5
INVARIANT SyncHolds
PROPERTIES DeviceForward Converges
CHECK_DEADLOCK FALSE
