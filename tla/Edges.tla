------------------------------- MODULE Edges -------------------------------
(***************************************************************************)
(* What runs beside the core, each on its own: the ports plugin, listening *)
(* and forwarding; the Cloudflare plugin, its process and its setups; the  *)
(* tray, its status file and its commands.  A behaviour looks at one of    *)
(* them, the others stay as they are at first.                             *)
(***************************************************************************)
EXTENDS PortsExt, CfTunnel, Tray

VARIABLE focus

Plan(kind, mode, dry, id) == [kind |-> kind, mode |-> mode, dry |-> dry, id |-> id]
SomePlans == {Plan("flags", "dual", FALSE, "ours"), Plan("wizard", "single", FALSE, "old")}

Init ==
  /\ focus \in {"listen", "call", "connector", "setup", "beat", "ipc"}
  /\ PortsInit /\ CfInit /\ TrayInit
  /\ focus = "call" => running
  /\ dns["relay"] = "none" /\ (focus # "setup" => dns["gateway"] = "none")
  /\ focus # "beat" => hub = "up"

PortsOnly == UNCHANGED <<cfVars, trayVars>>
CfOnly == UNCHANGED <<portsVars, trayVars>>
TrayOnly == UNCHANGED <<portsVars, cfVars>>
Next ==
  /\ UNCHANGED focus
  /\ \/ focus = "listen" /\ ListenNext /\ PortsOnly
     \/ focus = "call" /\ CallNext /\ PortsOnly
     \/ focus = "connector" /\ ConnectorNext /\ CfOnly
     \/ focus = "setup" /\ SetupNext /\ CfOnly
     \/ focus = "beat" /\ BeatNext /\ TrayOnly
     \/ focus = "ipc" /\ IpcNext /\ TrayOnly

vars == <<portsVars, cfVars, trayVars, focus>>
Timers ==
  /\ \A t \in Ticks : WF_vars(focus = "beat" /\ TickStarts(t) /\ TrayOnly /\ UNCHANGED focus)
  /\ \A p \in Polls : WF_vars(focus = "beat" /\ PollStarts(p) /\ TrayOnly /\ UNCHANGED focus)
Spec == Init /\ [][Next]_vars /\ PortsFairness /\ TrayFairness /\ Timers
=============================================================================
