\* The ports plugin, the Cloudflare plugin and the tray.  Nothing need go on.
SPECIFICATION Spec
CONSTANTS
  Orders = {o1}
  MaxServers = 3
  Calls = {c1, c2}
  MaxCount = 1
  Blocks = 1
  Starts = {s1, s2}
  MaxKids = 3
  Runs = {r1, r2}
  Plans <- SomePlans
  MaxCfFaults = 1
  MaxForeign = 0
  MaxTokens = 2
  Ticks = {t1, t2}
  Polls = {p1}
  Frames = {f1, f2}
  MaxKnocks = 1
  MaxHub = 2
  MaxTrayFaults = 1
INVARIANT PortsHold
PROPERTIES CancelConverges CfHolds TrayHolds
CHECK_DEADLOCK FALSE
