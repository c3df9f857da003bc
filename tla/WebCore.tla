------------------------------ MODULE WebCore -------------------------------
(***************************************************************************)
(* The three stateful parts of the web console's core side by side: the    *)
(* sidecar's handlers, the plugin host, the fabric host.  They share no    *)
(* state (the sidecar calls the other two and passes on what they answer), *)
(* so a behaviour is one of theirs and focus says whose.                   *)
(***************************************************************************)
EXTENDS Sidecar, PluginHost, FabricHost

VARIABLE focus
webVars == <<focus, sidecarVars, pluginVars, fabricVars>>

Init ==
  /\ SidecarInit /\ PluginInit /\ FabricInit
  /\ focus \in {"sidecar", "plugins", "fabric"}
  /\ focus # "sidecar" => target = None

SidecarActs == focus = "sidecar" /\ SidecarNext /\ UNCHANGED <<focus, pluginVars, fabricVars>>
PluginActs == focus = "plugins" /\ PluginNext /\ UNCHANGED <<focus, sidecarVars, fabricVars>>
FabricActs == focus = "fabric" /\ FabricNext /\ UNCHANGED <<focus, sidecarVars, pluginVars>>
Next == SidecarActs \/ PluginActs \/ FabricActs

Spec == Init /\ [][Next]_webVars /\ PluginFairness /\ FabricFairness

\* Orders of the plugin host and callers of the fabric host are served
\* (host.mjs, fabric.mjs).
CoreSettles == OrdersSettle /\ Resolves
=============================================================================
