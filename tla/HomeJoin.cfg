SPECIFICATION Spec
CONSTANTS
  j1 = j1
  j2 = j2
  f1 = f1
  f2 = f2
  s1 = s1
  s2 = s2
  Joiners = {j1, j2}
  Sidecar = side
  Fabrics = {f1, f2}
  Servers = {s1, s2}
  NoFabric = none
  Args <- MCArgs
  Legacies <- MCLegacies
  Rosters <- MCRosters
  MaxStarts = 2
  LockRetries = 1
CONSTRAINT Small
INVARIANT JoinHolds
CHECK_DEADLOCK FALSE
