\* Four parts of the continuity core, one at a time.
SPECIFICATION ContinuitySpec
CONSTANTS
  Focuses = {"resume", "window", "chunks", "frames"}
  MaxAttempts = 4
  MaxEpoch = 3
  MaxTries = 2
  Acceptors = 2
  MayClose = FALSE
  MayGiveUp = FALSE
  GapCap = 2
  GapByteCap = 4
  HistoryCap = 2
  OffsetMax = 5
  PeerLen = 3
  PeerFeeds = 5
  MaxWrites = 5
  MaxResumes = 2
  Tasks = {"engine", "pump"}
  MaxFrames = 3
  MaxChunk = 4
  MaxStalls = 1
INVARIANTS OnePump BytesHold
PROPERTIES NewestDecisionOwns TokensAgree StepsHold
CHECK_DEADLOCK FALSE
