\* The console with two methods at a time.  A behaviour looks at one set of
\* operations that meet on a flag, on a credential, on what is shown, or on
\* what the user does meanwhile.
SPECIFICATION ConsoleSpec
CONSTANTS
  Nodes = {"n1", "n2"}
  Tasks = {t1, t2}
  Ends = {e1, e2}
  Offers = {{"confirmSwitchNode", "tickStatus"},
            {"createPortMapping", "revokePortAccess", "savePluginConfig"},
            {"submitConnect", "submitAddNode"},
            {"confirmUnregister", "submitAliasEdit"},
            {"confirmDisconnect"},
            {"reload", "boot"}}
  MaxMoves = 3
  Watched = {"status", "owners", "ports", "sidecar"}
  MaxFails = 1
  MaxPolls = 2
INVARIANT ConsoleHolds
PROPERTY ConsoleSettles
CHECK_DEADLOCK FALSE
