----------------------------- MODULE Extensions -----------------------------
(***************************************************************************)
(* What the plugins do, each on its own: the files plugin with uploads,    *)
(* the same with a download, the AI provider's store, its exchanges with   *)
(* an upstream, the AI consumer's endpoints, the sidecar's API with the    *)
(* sync plugin behind it.  They share nothing: a behaviour looks at one of *)
(* them, the others stay as they are at first.                             *)
(***************************************************************************)
EXTENDS FilesExt, AiControl, AiUpstream, AiEndpoints, SidecarApi, TLC

VARIABLE focus

\* Services of the AI provider, requests for them, hook scripts.
LOCAL Slots(a, h, q, p) == [auth |-> a, headers |-> h, request |-> q, response |-> p]
LOCAL Service ==
  [preset |-> FALSE, slots |-> Slots("none", FALSE, FALSE, FALSE), routes |-> <<>>, strip |-> <<>>,
   append |-> <<>>, base |-> <<"b">>, set |-> {}, remove |-> {}, needsSecret |-> FALSE]
UpstreamKinds ==
  {[Service EXCEPT !.slots = Slots("secret", FALSE, FALSE, TRUE), !.set = {"x", "host"}, !.remove = {"x", "y"}],
   [Service EXCEPT !.slots = Slots("script", TRUE, FALSE, FALSE), !.needsSecret = TRUE, !.strip = <<"v2">>,
      !.routes = <<[mode |-> "prefix", local |-> <<"v1">>, up |-> <<"v2">>],
                   [mode |-> "pattern", local |-> <<"m", "*">>, up |-> <<"v2", "*">>]>>],
   [Service EXCEPT !.preset = TRUE]}
UpstreamCalls ==
  {[path |-> <<"v1", "c">>, headers |-> {"x", "y", "authorization"}, ws |-> FALSE, allowed |-> TRUE],
   [path |-> <<"m", "c">>, headers |-> {"host"}, ws |-> FALSE, allowed |-> FALSE],
   [path |-> <<"o">>, headers |-> {}, ws |-> TRUE, allowed |-> TRUE]}
UpstreamModules == {[stages |-> {"auth", "request"}, form |-> "stream"],
                    [stages |-> {"auth", "headers", "response"}, form |-> "value"]}
EmptyScript == [stages |-> {}, form |-> "absent"]
EndpointsWanted == {[service |-> "s1", port |-> 1], [service |-> "s2", port |-> 2]}
UpstreamIncrements == {[set |-> {"x", "content-length"}, remove |-> {"authorization"}]}

-----------------------------------------------------------------------------
Init ==
  /\ focus \in {"upload", "download", "store", "upstream", "endpoints", "api"}
  /\ FilesInit(focus = "download")
  /\ StoreInit
  /\ AiUpstreamInit
  /\ focus # "upstream" => service.preset /\ user = NoScript /\ ~secretSet
  /\ AiEndInit
  /\ ApiInit

\* The sidecar's API; a capability runs out while nothing else goes on.
ApiStep ==
  \/ ApiNext
  \/ CapNext /\ (\A r \in Clients : page[r] = Unsent) /\ orders = 0

Next ==
  /\ UNCHANGED focus
  /\ \/ focus = "upload" /\ UploadNext /\ UNCHANGED <<storeVars, aiUpVars, aiEndVars, apiVars>>
     \/ focus = "download" /\ DownloadNext /\ UNCHANGED <<storeVars, aiUpVars, aiEndVars, apiVars>>
     \/ focus = "store" /\ StoreNext /\ UNCHANGED <<filesVars, aiUpVars, aiEndVars, apiVars>>
     \/ focus = "upstream" /\ AiUpstreamNext /\ UNCHANGED <<filesVars, storeVars, aiEndVars, apiVars>>
     \/ focus = "endpoints" /\ AiEndNext /\ UNCHANGED <<filesVars, storeVars, aiUpVars, apiVars>>
     \/ focus = "api" /\ ApiStep /\ UNCHANGED <<filesVars, storeVars, aiUpVars, aiEndVars>>

vars == <<filesVars, storeVars, aiUpVars, aiEndVars, apiVars, focus>>
Spec == Init /\ [][Next]_vars

\* The configuration gives the requests, admins, exchanges and clients the
\* same values: one permutation for the part that is looked at.
Symmetry == Permutations(Requests)
=============================================================================
