------------------------------ MODULE Sidecar ------------------------------
(***************************************************************************)
(* The local management sidecar: which server the admin proxy points at    *)
(* (pairing, the node book, the local hub) and the proxied requests that   *)
(* run meanwhile.  packages/webui/src/core/sidecar.mjs, nodes.mjs.         *)
(*                                                                         *)
(* Handlers are processes that interleave at their awaits.  The requests   *)
(* are those that pass the Host and Origin guards and parse; the others    *)
(* are answered without touching any of this state.                        *)
(***************************************************************************)
EXTENDS Naturals, FiniteSets

CONSTANTS Handlers,    \* requests in progress, each runs one operation
          Servers,     \* admin servers one can connect to
          Hub,         \* the one among them that is this device's own hub
          MaxNodes,    \* bound: nodes ever written to the book
          MaxFailures  \* LIMITS.pairingMaxFailures

None == "none"

VARIABLES
  target,    \* state.target and state.token: set together, one per server
  mode,      \* state.mode
  hubLocal,  \* "the target is this device's hub"
  pairing,   \* state.pairing: [alive, failures, inFlight]
  book,      \* NodeStore.nodes: node id -> server
  disk,      \* the nodes file
  current,   \* state.currentNodeId (0: none)
  nodeCode,  \* generation of the node-add code
  codeFails, \* wrong codes since it was printed
  adding,    \* nodePairingInFlight
  mutating,  \* nodeMutationInFlight
  at,        \* what each handler awaits: [op, step, server, id, old]
  nextId,    \* ids handed out to nodes
  spent      \* history: node id -> the code generation it was added with

targetVars == <<target, mode, hubLocal>>
bookVars == <<book, disk, current, nextId, spent>>
codeVars == <<nodeCode, codeFails, adding>>
sidecarVars == <<targetVars, pairing, bookVars, codeVars, mutating, at>>

Idle == [op |-> "idle", step |-> "idle", server |-> None, id |-> 0, old |-> None]
NoPairing == [alive |-> FALSE, failures |-> 0, inFlight |-> FALSE]
Ids == 1..MaxNodes
Empty == [i \in {} |-> None]
With(f, i, v) == [j \in DOMAIN f \cup {i} |-> IF j = i THEN v ELSE f[j]]
Without(f, i) == [j \in DOMAIN f \ {i} |-> f[j]]

\* createSidecar: setup with a pairing code, or ready with a target.
SidecarInit ==
  /\ \E t \in Servers \cup {None} :
       /\ target = t
       /\ mode = IF t = None THEN "setup" ELSE "ready"
       /\ hubLocal = (t = Hub)
       /\ pairing = [NoPairing EXCEPT !.alive = (t = None)]
  /\ book = Empty /\ disk = Empty /\ current = 0 /\ nextId = 1 /\ spent = Empty
  /\ nodeCode = 1 /\ codeFails = 0 /\ adding = FALSE /\ mutating = FALSE
  /\ at = [r \in Handlers |-> Idle]

Await(r, op, step, server, id) ==
  at' = [at EXCEPT ![r] = [op |-> op, step |-> step, server |-> server, id |-> id, old |-> None]]
Reply(r) == at' = [at EXCEPT ![r] = Idle]
In(r, op, step) == at[r].op = op /\ at[r].step = step

Point(s) == target' = s /\ mode' = "ready"

(***************************************************************************)
(* POST /sidecar/connect: pair a server with the code of the terminal.     *)
(***************************************************************************)
ConnectBadCode(r) ==
  /\ at[r] = Idle /\ mode = "setup" /\ pairing.failures < MaxFailures
  /\ LET n == pairing.failures + 1 IN
     pairing' = [pairing EXCEPT !.failures = n, !.alive = pairing.alive /\ n < MaxFailures]
  /\ UNCHANGED <<targetVars, bookVars, codeVars, mutating, at>>

Connect(r, s) ==
  /\ at[r] = Idle /\ mode = "setup" /\ pairing.alive /\ ~pairing.inFlight
  /\ pairing' = [pairing EXCEPT !.inFlight = TRUE]
  /\ Await(r, "connect", "validate", s, 0)
  /\ UNCHANGED <<targetVars, bookVars, codeVars, mutating>>

\* validateTarget returned: refused, overtaken, or the target is set.
StillSetup == mode = "setup" /\ pairing # NoPairing
Connected(r) ==
  /\ In(r, "connect", "validate")
  /\ \/ pairing' = [pairing EXCEPT !.inFlight = FALSE] /\ UNCHANGED <<targetVars>>
     \/ /\ StillSetup
        /\ Point(at[r].server)
        /\ pairing' = NoPairing
        /\ UNCHANGED hubLocal
  /\ Reply(r)
  /\ UNCHANGED <<bookVars, codeVars, mutating>>

(***************************************************************************)
(* POST /sidecar/hub/start: bring the local hub up and, in setup, connect. *)
(***************************************************************************)
HubStart(r) ==
  /\ at[r] = Idle
  /\ Await(r, "hub", "ensure", Hub, 0)
  /\ UNCHANGED <<targetVars, pairing, bookVars, codeVars, mutating>>

\* ensureHubRunning failed, or there is a target already, or go on.
HubEnsured(r) ==
  /\ In(r, "hub", "ensure")
  /\ \/ Reply(r)
     \/ mode = "setup" /\ target = None /\ Await(r, "hub", "token", Hub, 0)
  /\ UNCHANGED <<targetVars, pairing, bookVars, codeVars, mutating>>

\* After readLocalHubToken and validateTarget the target is written.
HubConnected(r) ==
  /\ In(r, "hub", "token")
  /\ \/ UNCHANGED <<targetVars, pairing>>
     \/ Point(Hub) /\ pairing' = NoPairing /\ hubLocal' = TRUE
  /\ Reply(r)
  /\ UNCHANGED <<bookVars, codeVars, mutating>>

(***************************************************************************)
(* The node book: add, switch, delete.                                     *)
(***************************************************************************)
rotateNodePairing == nodeCode' = nodeCode + 1 /\ codeFails' = 0

AddBadCode(r) ==
  /\ at[r] = Idle /\ nodeCode <= MaxNodes
  /\ IF codeFails + 1 >= MaxFailures THEN rotateNodePairing
     ELSE codeFails' = codeFails + 1 /\ UNCHANGED nodeCode
  /\ UNCHANGED <<targetVars, pairing, bookVars, adding, mutating, at>>

MutNoAddInFlight == TRUE
\* Two adds at once would be admitted by one code.
NoAddInFlight == ~adding
\* The code is right; the id of at[r] keeps which code it was.
NodeAdd(r, s) ==
  /\ at[r] = Idle /\ nextId <= MaxNodes /\ NoAddInFlight
  /\ adding' = TRUE
  /\ Await(r, "add", "validate", s, nodeCode)
  /\ UNCHANGED <<targetVars, pairing, bookVars, nodeCode, codeFails, mutating>>

\* The target was refused, or nodes.add wrote the file (or failed to).
NodeAdded(r) ==
  /\ In(r, "add", "validate")
  /\ adding' = FALSE
  /\ Reply(r)
  /\ \/ UNCHANGED <<bookVars, nodeCode, codeFails>>
     \/ /\ nextId <= MaxNodes
        /\ book' = With(book, nextId, at[r].server) /\ disk' = With(disk, nextId, at[r].server)
        /\ spent' = With(spent, nextId, at[r].id)
        /\ nextId' = nextId + 1
        /\ rotateNodePairing
        /\ UNCHANGED current
  /\ UNCHANGED <<targetVars, pairing, mutating>>

MutNoMutation == TRUE
NoMutation == ~mutating
Switch(r, i) ==
  /\ at[r] = Idle /\ NoMutation /\ i \in DOMAIN book
  /\ mutating' = TRUE
  /\ Await(r, "switch", "validate", book[i], i)
  /\ UNCHANGED <<targetVars, pairing, bookVars, codeVars>>

\* The target becomes the node of the handler's switch.
SwitchTo(r) ==
  /\ current' = at[r].id
  /\ Point(at[r].server)
  /\ mutating' = FALSE
  /\ Reply(r)
  /\ UNCHANGED hubLocal

\* validateTarget returned: refused, or the node is gone, or the switch is
\* made; a target that is in no book yet is first saved as a node.
SwitchChecked(r) ==
  /\ In(r, "switch", "validate")
  /\ \/ Reply(r) /\ mutating' = FALSE /\ UNCHANGED <<targetVars, current>>
     \/ /\ at[r].id \in DOMAIN book /\ current = 0 /\ target # None
        /\ at' = [at EXCEPT ![r].step = "save", ![r].old = target]
        /\ UNCHANGED <<targetVars, current, mutating>>
     \/ /\ at[r].id \in DOMAIN book /\ ~(current = 0 /\ target # None)
        /\ SwitchTo(r)
  /\ UNCHANGED <<pairing, book, disk, nextId, spent, codeVars>>

\* nodes.add wrote the node of the old target, or failed.
Switched(r) ==
  /\ In(r, "switch", "save")
  /\ \/ Reply(r) /\ mutating' = FALSE /\ UNCHANGED <<bookVars, targetVars>>
     \/ /\ nextId <= MaxNodes
        /\ book' = With(book, nextId, at[r].old) /\ disk' = With(disk, nextId, at[r].old)
        /\ spent' = With(spent, nextId, 0)
        /\ nextId' = nextId + 1
        /\ SwitchTo(r)
  /\ UNCHANGED <<pairing, codeVars>>

Removable(i) == i \in DOMAIN book /\ i # current
Delete(r, i) ==
  /\ at[r] = Idle /\ NoMutation /\ Removable(i)
  /\ mutating' = TRUE
  /\ Await(r, "delete", "save", None, i)
  /\ UNCHANGED <<targetVars, pairing, bookVars, codeVars>>

Deleted(r) ==
  /\ In(r, "delete", "save")
  /\ mutating' = FALSE
  /\ Reply(r)
  /\ \/ UNCHANGED bookVars
     \/ /\ book' = Without(book, at[r].id) /\ disk' = Without(disk, at[r].id)
        /\ UNCHANGED <<current, nextId, spent>>
  /\ UNCHANGED <<targetVars, pairing, codeVars>>

(***************************************************************************)
(* /api/*: the snapshot of target and token, the body, the upstream.       *)
(***************************************************************************)
Api(r) ==
  /\ at[r] = Idle /\ mode = "ready"
  /\ Await(r, "api", "body", target, 0)
  /\ UNCHANGED <<targetVars, pairing, bookVars, codeVars, mutating>>

\* The server and its token are those of the snapshot, whatever was switched.
proxyAdmin(r) ==
  /\ In(r, "api", "body")
  /\ \/ Reply(r)
     \/ Await(r, "api", "upstream", at[r].server, 0)
  /\ UNCHANGED <<targetVars, pairing, bookVars, codeVars, mutating>>

\* The first of the response, its size limit, an error and the timeout settles
\* the request; the others find it settled.
Settle(r) ==
  /\ In(r, "api", "upstream")
  /\ Reply(r)
  /\ UNCHANGED <<targetVars, pairing, bookVars, codeVars, mutating>>

\* The sidecar is restarted with the same nodes file; handlers are gone.
Restart ==
  /\ \E r \in Handlers : at[r] # Idle
  /\ at' = [r \in Handlers |-> Idle]
  /\ book' = disk /\ current' = 0 /\ nodeCode' = nodeCode + 1 /\ codeFails' = 0
  /\ nodeCode <= MaxNodes
  /\ adding' = FALSE /\ mutating' = FALSE
  /\ target' = None /\ mode' = "setup" /\ hubLocal' = FALSE
  /\ pairing' = [NoPairing EXCEPT !.alive = TRUE]
  /\ UNCHANGED <<disk, nextId, spent>>

Handle(r) ==
  \/ ConnectBadCode(r) \/ (\E s \in Servers : Connect(r, s)) \/ Connected(r)
  \/ HubStart(r) \/ HubEnsured(r) \/ HubConnected(r)
  \/ AddBadCode(r) \/ (\E s \in Servers : NodeAdd(r, s)) \/ NodeAdded(r)
  \/ (\E i \in Ids : Switch(r, i)) \/ SwitchChecked(r) \/ Switched(r)
  \/ (\E i \in Ids : Delete(r, i)) \/ Deleted(r)
  \/ Api(r) \/ proxyAdmin(r) \/ Settle(r)
SidecarNext == Restart \/ \E r \in Handlers : Handle(r)

-----------------------------------------------------------------------------
\* A code of the terminal adds at most one node, be the adds concurrent.
OneNodePerCode == \A i, j \in DOMAIN spent : spent[i] = spent[j] /\ spent[i] # 0 => i = j

\* The current node is in the book and in the nodes file: a delete that waits
\* for the file cannot overtake a switch to the node it deletes.
CurrentIsStored == current # 0 => current \in DOMAIN book /\ current \in DOMAIN disk

\* The node book is kept straight (sidecar.mjs).
NodesHold == OneNodePerCode /\ CurrentIsStored

\* A connected target moves only when the user switches nodes.
TargetFrozen ==
  [][mode = "ready" /\ target' \notin {target, None}
       => \E r \in Handlers : at[r].op = "switch" /\ at'[r] = Idle]_sidecarVars

\* hub_local says the target is this device's hub.
HubLocalTrue == hubLocal => target = Hub
=============================================================================
