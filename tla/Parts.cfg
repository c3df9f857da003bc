\* Nine parts that share nothing, one at a time.
SPECIFICATION Spec
CONSTANTS
  Focuses = {"server", "plugins", "codec", "qr", "hash", "markdown", "llms", "writer", "admin"}
  Declared <- TwoDeclared
  Sources <- ServerSources
  EntryKinds <- ServerEntries
  Overrides <- ServerOverrides
  MaxSignals = 2
  MaxServerFaults = 1
  Clis = {c1, c2}
  Aliases = {"a"}
  Projects = {"p1"}
  Globs = {"g1", "g2"}
  DefaultGlobs <- TwoGlobs
  ByName <- NamedPackages
  MaxVersion = 2
  MaxRuns = 3
  MaxTokens = 4
  LlmsRuns = 2
  LlmsFaults = 1
  Trials <- CodecTrials
  MaxAlias = 6
  InviteLimits <- CodecLimits
  Texts <- QrTexts
  Settings <- WriterSettings
  EndpointPorts = {1, 2}
  MaxWrites = 1
  MaxPreviews = 1
  Ids = {1, 2}
  Stamps = {0, 1}
  Characters = {0, 4, 5, 16, 19, 20, 63}
  MaxCalls = 3
SYMMETRY Symmetry
INVARIANTS ServerHolds CliHolds WrittenHolds AdminHolds
CHECK_DEADLOCK FALSE
