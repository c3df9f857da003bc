SPECIFICATION FairSpec
CONSTANTS
  Requests = {r1, r2}
  Streams = {r1}
  MaxChunks = 2
  Ring = 1
  GroupLimit = 1
  RelayLimit = 2
  MaxFaults = 1
INVARIANT RelayHolds
PROPERTIES FirstVerdictStands RelayEnds
CHECK_DEADLOCK FALSE
