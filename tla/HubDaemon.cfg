SPECIFICATION FairSpec
CONSTANTS
  Pids = {1, 2}
  MaxProcs = 3
  MaxCmds = 3
INVARIANT HubHolds
PROPERTY ShutdownEnds
CHECK_DEADLOCK FALSE
