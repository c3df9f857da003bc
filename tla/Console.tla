------------------------------ MODULE Console ------------------------------
(***************************************************************************)
(* The web console in the browser: one store that holds what is shown,     *)
(* filled by polls and by the refreshes that follow every action, all of   *)
(* them awaits that answer in any order.  packages/webui/ui/src: App,      *)
(* lib/console.svelte.ts, lib/plugins-ai-controller.svelte.ts, lib/api.ts, *)
(* lib/route.ts and the pages under components/.                           *)
(*                                                                         *)
(* Data is which server it came from and in which version.  The local side *)
(* (leases, visits, plugins, nodes) is a server of its own.  A task is one *)
(* run of a method of the store; `left' are the requests it awaits.        *)
(***************************************************************************)
EXTENDS Naturals, FiniteSets, Sequences

CONSTANTS Nodes,    \* servers the sidecar may point to
          Tasks,    \* methods running at a time
          Ends,     \* endpoints that are online at first
          Offers,   \* sets of operations; a behaviour looks at one of them
          Watched,  \* the resources followed; what is shown of the rest is left out
          MaxMoves, \* bound: things the user does
          MaxFails, \* bound: requests that fail
          MaxPolls  \* CONVERGE_MAX_POLLS

None == <<"none", 0>>
Local == "local"

(***************************************************************************)
(* The operations: the busy flag they raise (free: none), whether a raised *)
(* flag refuses them, where the call goes, what they refresh, in order.    *)
(***************************************************************************)
Row(flag, guarded, place, after) == [flag |-> flag, guarded |-> guarded, place |-> place, after |-> after]

\* api.ts: paths under /sidecar are answered on this side, /api by the node.
PortsOps == [o \in {"createPortMapping", "togglePortMapping", "removePortMapping", "grantPortAccess", "revokePortAccess"} |->
             Row("ports", TRUE, Local, <<{"ports"}>>)]
FilesOps == [o \in {"createFileShare", "removeFileShare", "setFileShareMode", "setFileSharePeers"} |->
             Row("files", TRUE, Local, <<{"files"}>>)]
SyncOps == [o \in {"createSyncGroup", "deleteSyncGroup", "syncNow", "resolveSyncConflicts", "resolveSyncSeedBlock"} |->
            Row("sync", TRUE, Local, <<{"sync"}, {"conflicts"}, {"seed"}>>)]
PluginOps == [o \in {"enablePlugin", "disablePlugin", "savePluginConfig"} |->
              Row(IF o = "savePluginConfig" THEN "config" ELSE "plugin", TRUE, Local, <<{"plugins"}>>)]
ProviderOps == [o \in {"aiService", "aiGroup", "aiKey", "aiSecret", "aiLink", "aiImport"} |->
                Row("provider", TRUE, Local, <<{"provider"}>>)]
ConsumerOps == [o \in {"importLink", "addKey", "refreshCatalog", "startEndpoint", "stopEndpoint"} |->
                Row("consumer", TRUE, Local, IF o = "addKey" THEN <<>> ELSE <<{"consumer"}>>)]
OwnerOps == [o \in {"submitRegister", "confirmUnregister", "confirmRenew"} |->
             Row(IF o = "confirmRenew" THEN "renew" ELSE "owner", o = "submitRegister", "node",
                 <<{"owners", "status"} \cup IF o = "confirmUnregister" THEN {"conn"} ELSE {}>>)]
AliasOps == [o \in {"submitAliasEdit"} |-> Row("alias", FALSE, "node", <<{"owners"}>>)]
KnockOps == [o \in {"locate", "import", "block", "ignoreKnock", "undoDismiss"} |->
             Row(IF o \in {"ignoreKnock", "undoDismiss"} THEN "free" ELSE "knock", FALSE, "node",
                 <<{"knocks"} \cup (CASE o = "locate" -> {"visitors", "status"} [] o = "import" -> {"owners", "status"}
                                      [] o = "block" -> {"blocklist", "status"} [] o = "undoDismiss" -> {"status"} [] OTHER -> {})>>)]
VisitorOps == [o \in {"submitAddVisitor", "confirmRemoveVisitor", "confirmRemoveBlock"} |->
               IF o = "confirmRemoveBlock" THEN Row("free", FALSE, "node", <<{"blocklist"}>>)
               ELSE Row("visitor", o = "submitAddVisitor", "node", <<{"visitors", "status"}>>)]
CodeOps == [o \in {"submitIssueCode", "confirmRevokeCode"} |->
            Row("code", o = "submitIssueCode", "node", <<{"codes", "status"}>>)]
LocalOps == [o \in {"submitLeaseLabelEdit", "probeServerTarget", "confirmDeleteNode"} |->
             CASE o = "submitLeaseLabelEdit" -> Row("label", TRUE, Local, <<{"leases"}>>)
               [] o = "probeServerTarget" -> Row("probe", TRUE, Local, <<{"visits"}>>)
               [] OTHER -> Row("free", FALSE, Local, <<{"nodes"}>>)]
\* Both carry a credential.
CredentialOps == [o \in {"submitConnect", "submitAddNode"} |->
                  Row(o, TRUE, Local, <<IF o = "submitConnect" THEN {"sidecar"} ELSE {"nodes"}>>)]
\* The sidecar points to another node; everything is fetched again.
Business == {"owners", "knocks", "visitors", "blocklist", "codes"}
SwitchOps == [o \in {"confirmSwitchNode", "connectNodeFromSetup", "startLocalHub"} |->
              CASE o = "confirmSwitchNode" -> Row("switching", FALSE, Local, <<{"sidecar", "nodes", "status", "conn"}, Business>>)
                [] o = "connectNodeFromSetup" -> Row("switching", TRUE, Local, <<{"sidecar"}, {"nodes", "status", "conn"}, Business>>)
                [] OTHER -> Row("hubStart", TRUE, Local, <<{"sidecar"}, {"hub", "status", "conn"}, Business \cup {"nodes"}>>)]
\* Timers and visits of pages: no call, only refreshes.
Polls == [o \in {"tickStatus", "tickConn", "tickLists"} |->
          Row("free", FALSE, "none", <<CASE o = "tickStatus" -> {"status"} [] o = "tickConn" -> {"conn"} [] OTHER -> {"leases", "visits"}>>)]
Pages == [o \in {"overview", "tenants", "visitors"} |->
          Row("free", FALSE, "none", <<CASE o = "overview" -> {"owners", "hub"} [] o = "tenants" -> {"owners", "codes"}
                                         [] OTHER -> {"knocks", "visitors", "blocklist"}>>)]
\* Their answers are handled one by one, below.
FlowOps == [o \in {"confirmDisconnect", "reload", "boot"} |-> Row(IF o = "reload" THEN "loading" ELSE "free", FALSE, "flow", <<>>)]

Families == {PortsOps, FilesOps, SyncOps, PluginOps, ProviderOps, ConsumerOps, OwnerOps, AliasOps, KnockOps, VisitorOps,
             CodeOps, LocalOps, CredentialOps, SwitchOps, Polls, Pages, FlowOps}
Rows == [o \in UNION {DOMAIN f : f \in Families} |->
         LET row == (CHOOSE f \in Families : o \in DOMAIN f)[o]
             after == [i \in DOMAIN row.after |-> row.after[i] \cap Watched] IN
         [row EXCEPT !.after = SelectSeq(after, LAMBDA S : S # {})]]
Info(o) == Rows[o]

\* What the functions of api.ts get: under /sidecar, from this side.
StateApi == {"sidecar"}
NodesApi == {"nodes"}
DataApi == {"leases", "visits", "hub"}
PluginsApi == {"plugins"}
PortsApi == {"ports"}
FilesApi == {"files"}
SyncApi == {"sync", "conflicts", "seed"}
ProviderApi == {"provider"}
ConsumerApi == {"consumer"}
LocalData == UNION {StateApi, NodesApi, DataApi, PluginsApi, PortsApi, FilesApi, SyncApi, ProviderApi, ConsumerApi}
\* And under /api, from the node the sidecar points to.
StatusApi == {"status", "owners", "conn"}
RolesApi == {"knocks", "visitors", "codes", "blocklist"}
Shown == {"status"} \cup ((LocalData \cup StatusApi \cup RolesApi) \cap UNION {UNION {Rows[o].after[i] : i \in DOMAIN Rows[o].after} : o \in UNION Offers})

VARIABLES
  offer,
  target,   \* the node the sidecar points to
  ver,      \* place -> version of its data
  shown,    \* resource -> the data in the store
  task,     \* task -> [op, step, left, arg]; step counts the refreshes
  busy,     \* the raised flags
  visible,
  form, typed, spent, \* the credential in the form, typed so far, submitted and settled
  edit,     \* the row whose alias is edited ("none")
  online,   \* the endpoints online at the server
  disc,     \* the disconnection on screen: [id, phase]
  missed,   \* endpoints a disconnection's own poll did not find
  cwd, listed, \* the file browser: the directory, and whose entries are shown
  place, memory, picked, \* the perspective, the remembered one, the user's last choice
  settled,  \* the first landing is under way or done
  moves, fails

dataVars == <<target, ver, shown>>
flowVars == <<edit, online, disc, missed, cwd, listed, place, memory, picked, settled>>
credVars == <<form, typed, spent>>
consoleVars == <<offer, dataVars, task, busy, visible, credVars, flowVars, moves, fails>>

Idle == [op |-> "idle", step |-> 0, left |-> {}, arg |-> "none"]
NoDisc == [id |-> "none", phase |-> "none"]

ConsoleInit ==
  /\ offer \in Offers
  /\ target \in Nodes /\ ver = [n \in Nodes \cup {Local} |-> 0]
  /\ shown = [r \in Shown |-> None]
  /\ task = [t \in Tasks |-> Idle]
  /\ busy = {} /\ visible = TRUE
  /\ form = 0 /\ typed = 0 /\ spent = {}
  /\ edit = "none" /\ online = Ends /\ disc = NoDisc /\ missed = {}
  /\ cwd = 1 /\ listed = 1
  /\ place = "hub" /\ memory \in {"none", "visits"} /\ picked = "none" /\ settled = FALSE
  /\ moves = 0 /\ fails = 0

Moves == moves < MaxMoves /\ moves' = moves + 1
Fails == fails < MaxFails /\ fails' = fails + 1
Source(r) == IF r \in LocalData THEN Local ELSE target
Now(r) == <<Source(r), ver[Source(r)]>>

\* A request is out ("sent"), or the server has answered with what it had.
Ask(S) == {<<r, None>> : r \in S}

\* Mutant: a raised flag refuses nothing.
MutRefused(o) == FALSE
\* The method returns at once, or the page's button is disabled.
Refused(o) == Info(o).guarded /\ Info(o).flag \in busy
Raise(o) == busy' = busy \cup ({Info(o).flag} \ {"free"})

\* A method starts: its call, when it has one.  Several rows may be asked for.
Start(t, o, arg) ==
  /\ task[t] = Idle /\ o \in offer /\ ~Refused(o)
  /\ Raise(o)
  /\ task' = [task EXCEPT ![t] = [op |-> o, step |-> 0, left |-> {}, arg |-> arg]]

\* Buttons and forms of the pages.
TenantsView == DOMAIN OwnerOps \cup DOMAIN CodeOps
VisitorsView == DOMAIN KnockOps \cup DOMAIN VisitorOps
ProviderPage == DOMAIN ProviderOps
ConsumerPage == DOMAIN ConsumerOps
MappingsPage == DOMAIN PortsOps
GroupsPage == {"createSyncGroup", "deleteSyncGroup", "syncNow", "resolveSyncSeedBlock"}
ConflictPage == {"resolveSyncConflicts"}
PluginPanel == DOMAIN PluginOps
LeaseView == {"submitLeaseLabelEdit"}
VisitsView == {"probeServerTarget"}
NodeBook == {"confirmSwitchNode", "confirmDeleteNode"}
SetupWizard == {"connectNodeFromSetup", "startLocalHub"}
UserOps == (UNION {TenantsView, VisitorsView, ProviderPage, ConsumerPage, MappingsPage, GroupsPage, ConflictPage,
                   PluginPanel, LeaseView, VisitsView, NodeBook, SetupWizard, DOMAIN Pages})
           \cup DOMAIN FilesOps \* the store has them, no page does yet
Use(t) ==
  /\ Moves
  /\ \E o \in offer \cap UserOps : Start(t, o, "none")
  /\ UNCHANGED <<offer, dataVars, visible, credVars, flowVars, fails>>

\* Mutant: a tick waits for the data it is to fetch.
MutTicks == visible /\ shown["status"] # None
\* $poll: the timers, as long as the page is visible.
Ticks == visible
Poll(t) ==
  /\ Ticks /\ \E o \in offer \cap DOMAIN Polls : Start(t, o, "none")
  /\ UNCHANGED <<offer, dataVars, visible, credVars, flowVars, moves, fails>>
Visibility ==
  /\ Moves /\ visible' = ~visible
  /\ UNCHANGED <<offer, dataVars, task, busy, credVars, flowVars, fails>>

\* Mutant: a call that fails leaves the flag.
MutFalls(t) == IF task[t].step = 0 THEN busy ELSE busy \ {Info(task[t].op).flag}
\* The finally of a method: its flag falls, whoever else has raised it.
Falls(t) == busy \ {Info(task[t].op).flag}
Ends1(t) == task' = [task EXCEPT ![t] = Idle] /\ busy' = Falls(t)
\* The next refreshes, or the end.
Next1(t) ==
  LET o == task[t].op  n == task[t].step + 1 IN
  IF n > Len(Info(o).after) THEN Ends1(t)
  ELSE task' = [task EXCEPT ![t].step = n, ![t].left = Ask(Info(o).after[n])] /\ UNCHANGED busy

\* A request reaches the server.
Called(t) == task[t].op # "idle" /\ task[t].step = 0 /\ task[t].op \notin DOMAIN FlowOps
Call(t) ==
  /\ Called(t) /\ task[t].op \notin DOMAIN CredentialOps \cup DOMAIN SwitchOps
  /\ LET p == Info(task[t].op).place IN
     ver' = CASE p = "none" -> ver [] p = Local -> [ver EXCEPT ![Local] = @ + 1] [] OTHER -> [ver EXCEPT ![target] = @ + 1]
  /\ Next1(t)
  /\ UNCHANGED <<offer, target, shown, visible, credVars, edit, online, disc, missed, cwd, listed, place, memory, picked, settled, moves, fails>>

\* A call that fails ends the method; an error is shown.
CallFails(t) ==
  /\ Called(t) /\ Fails /\ task[t].op \notin DOMAIN Polls \cup DOMAIN Pages \cup DOMAIN CredentialOps
  /\ Ends1(t)
  /\ UNCHANGED <<offer, dataVars, visible, credVars, flowVars, moves>>

\* clearAllBusinessData, after the sidecar has switched.
Cleared == [r \in Shown |-> IF r \in LocalData THEN shown[r] ELSE None]
Switch(t) ==
  /\ Called(t) /\ task[t].op \in DOMAIN SwitchOps
  /\ target' \in Nodes
  /\ shown' = Cleared /\ edit' = "none" /\ disc' = NoDisc
  /\ Next1(t)
  /\ UNCHANGED <<offer, ver, visible, credVars, online, missed, cwd, listed, place, memory, picked, settled, moves, fails>>

\* refreshStatus and its like: the answer is what the server has when it is
\* asked; it is shown when it arrives, whatever came in between.
Serve(t) ==
  /\ \E x \in task[t].left :
       /\ x[2] = None
       /\ task' = [task EXCEPT ![t].left = (@ \ {x}) \cup {<<x[1], Now(x[1])>>}]
  /\ UNCHANGED <<offer, dataVars, busy, visible, credVars, flowVars, moves, fails>>
Settled(t, x) ==
  IF task[t].left = {x} THEN Next1(t)
  ELSE task' = [task EXCEPT ![t].left = @ \ {x}] /\ UNCHANGED busy
\* An alias that was submitted is refreshed, well or not, and then the row in
\* edit is dropped: whichever row that is by now.
EditEnds(t, x) ==
  edit' = IF task[t].op = "submitAliasEdit" /\ task[t].left = {x} THEN "none" ELSE edit
Deliver(t) ==
  /\ \E x \in task[t].left :
       /\ x[2] # None
       /\ shown' = [shown EXCEPT ![x[1]] = x[2]]
       /\ Settled(t, x) /\ EditEnds(t, x)
  /\ UNCHANGED <<offer, target, ver, visible, credVars, online, disc, missed, cwd, listed, place, memory, picked, settled, moves, fails>>
RefreshFails(t) ==
  /\ Fails
  /\ \E x \in task[t].left : Settled(t, x) /\ EditEnds(t, x)
  /\ UNCHANGED <<offer, dataVars, visible, credVars, online, disc, missed, cwd, listed, place, memory, picked, settled, moves>>

(***************************************************************************)
(* Pairing: the credential goes with one request and leaves the form.      *)
(***************************************************************************)
Type ==
  /\ Moves /\ offer \cap DOMAIN CredentialOps # {}
  /\ typed' = typed + 1 /\ form' = typed + 1
  /\ UNCHANGED <<offer, dataVars, task, busy, visible, spent, flowVars, fails>>
Submit(t) ==
  /\ form # 0 /\ Moves
  /\ \E o \in offer \cap DOMAIN CredentialOps : Start(t, o, form)
  /\ UNCHANGED <<offer, dataVars, visible, credVars, flowVars, fails>>
\* Mutant: a form that failed keeps what was filled in.
MutForgets(ok) == IF ok THEN 0 ELSE form
Forgets(ok) == 0
Paired(t) ==
  /\ Called(t) /\ task[t].op \in DOMAIN CredentialOps
  /\ spent' = spent \cup {task[t].arg}
  /\ \/ form' = Forgets(TRUE) /\ Next1(t) /\ UNCHANGED fails
     \/ form' = Forgets(FALSE) /\ Ends1(t) /\ Fails
  /\ UNCHANGED <<offer, dataVars, visible, typed, flowVars, moves>>

\* Alias: the row in edit is submitted; another may be begun meanwhile.
BeginEdit(row) ==
  /\ Moves /\ "submitAliasEdit" \in offer /\ edit' = row
  /\ UNCHANGED <<offer, dataVars, task, busy, visible, credVars, online, disc, missed, cwd, listed, place, memory, picked, settled, fails>>
SubmitEdit(t) ==
  /\ edit # "none" /\ Moves /\ Start(t, "submitAliasEdit", edit)
  /\ UNCHANGED <<offer, dataVars, visible, credVars, flowVars, fails>>

(***************************************************************************)
(* Disconnection: dispatched, converging, then what the polls saw.         *)
(***************************************************************************)
On(t, o) == task[t].op = o
flowRest == <<offer, dataVars, visible, credVars, edit, cwd, listed, place, memory, picked, settled>>
Disconnect(t, e) ==
  /\ Moves /\ Start(t, "confirmDisconnect", e)
  /\ disc' = [id |-> e, phase |-> "dispatched"] /\ missed' = missed \ {e}
  /\ UNCHANGED <<flowRest, online, fails>>
Dispatched(t) ==
  /\ On(t, "confirmDisconnect") /\ task[t].step = 0
  /\ disc' = [id |-> task[t].arg, phase |-> "converging"]
  /\ task' = [task EXCEPT ![t].step = 1]
  /\ UNCHANGED <<flowRest, busy, online, missed, moves, fails>>
\* The error is noted beside the phase.
Noted == IF disc = NoDisc THEN disc ELSE [disc EXCEPT !.phase = "error"]
DispatchFails(t) ==
  /\ On(t, "confirmDisconnect") /\ task[t].step = 0 /\ Fails
  /\ disc' = Noted /\ Ends1(t)
  /\ UNCHANGED <<flowRest, online, missed, moves>>
Verdict(phase) == IF disc = NoDisc THEN disc ELSE [disc EXCEPT !.phase = phase]
Unseen(t) ==
  IF task[t].step = MaxPolls THEN disc' = Verdict("unconfirmed") /\ Ends1(t)
  ELSE task' = [task EXCEPT ![t].step = @ + 1] /\ UNCHANGED <<disc, busy>>
Observe(t) ==
  /\ On(t, "confirmDisconnect") /\ task[t].step > 0
  /\ IF task[t].arg \notin online
     THEN missed' = missed \cup {task[t].arg} /\ disc' = Verdict("converged") /\ Ends1(t)
     ELSE Unseen(t) /\ UNCHANGED missed
  /\ UNCHANGED <<flowRest, online, moves, fails>>
\* A snapshot that cannot be fetched counts as a poll.
ObserveFails(t) ==
  /\ On(t, "confirmDisconnect") /\ task[t].step > 0 /\ Fails
  /\ Unseen(t)
  /\ UNCHANGED <<flowRest, online, missed, moves>>
Dismiss ==
  /\ disc # NoDisc /\ Moves /\ disc' = NoDisc
  /\ UNCHANGED <<flowRest, task, busy, online, missed, fails>>
\* The server has dropped the endpoint's connections.
Vanish(e) ==
  /\ "confirmDisconnect" \in offer /\ e \in online /\ online' = online \ {e}
  /\ UNCHANGED <<flowRest, task, busy, disc, missed, moves, fails>>

(***************************************************************************)
(* The file browser: reload lists the directory that is open when it is    *)
(* called and shows what it gets.                                          *)
(***************************************************************************)
OpenDir(t, d) ==
  /\ Moves /\ Start(t, "reload", d) /\ cwd' = d
  /\ UNCHANGED <<offer, dataVars, visible, credVars, edit, online, disc, missed, listed, place, memory, picked, settled, fails>>
Listed(t) ==
  /\ On(t, "reload")
  /\ listed' = task[t].arg /\ Ends1(t)
  /\ UNCHANGED <<offer, dataVars, visible, credVars, edit, online, disc, missed, cwd, place, memory, picked, settled, moves, fails>>

(***************************************************************************)
(* The first perspective: the remembered one, or the one the local data    *)
(* suggests: one await before it is settled, three after.                  *)
(***************************************************************************)
start(t) ==
  /\ Moves /\ ~settled /\ Start(t, "boot", "none") /\ \A u \in Tasks : task[u].op # "boot"
  /\ UNCHANGED <<offer, dataVars, visible, credVars, flowVars, fails>>
settleInitialRoute(t) ==
  /\ On(t, "boot") /\ task[t].step = 0
  /\ settled' = TRUE /\ task' = [task EXCEPT ![t].step = 1]
  /\ UNCHANGED <<offer, dataVars, busy, visible, credVars, edit, online, disc, missed, cwd, listed, place, memory, picked, moves, fails>>
defaultPerspective(hub, leases, visits) == IF hub THEN "hub" ELSE IF leases THEN "lease" ELSE IF visits THEN "visits" ELSE "hub"
Land(t) ==
  /\ On(t, "boot") /\ task[t].step = 1
  /\ \E hub, leases, visits \in BOOLEAN :
       place' = IF memory # "none" THEN memory ELSE defaultPerspective(hub, leases, visits)
  /\ Ends1(t)
  /\ UNCHANGED <<offer, dataVars, visible, credVars, edit, online, disc, missed, cwd, listed, memory, picked, settled, moves, fails>>
\* A choice of the user is remembered only once the first landing has begun.
switchPerspective(p) ==
  /\ Moves /\ "boot" \in offer
  /\ place' = p /\ picked' = p /\ memory' = IF settled THEN p ELSE memory
  /\ UNCHANGED <<offer, dataVars, task, busy, visible, credVars, edit, online, disc, missed, cwd, listed, settled, fails>>

TaskSteps(t) ==
  \/ Call(t) \/ Switch(t) \/ Paired(t) \/ Serve(t) \/ Deliver(t)
  \/ Dispatched(t) \/ Observe(t) \/ Listed(t) \/ settleInitialRoute(t) \/ Land(t)
ConsoleNext ==
  \/ \E t \in Tasks :
       \/ TaskSteps(t) \/ Use(t) \/ Poll(t) \/ CallFails(t) \/ RefreshFails(t) \/ DispatchFails(t) \/ ObserveFails(t)
       \/ Submit(t) \/ SubmitEdit(t) \/ start(t)
       \/ \E e \in Ends : Disconnect(t, e)
       \/ \E d \in {1, 2} : OpenDir(t, d)
  \/ Visibility \/ Type \/ Dismiss
  \/ BeginEdit("a") \/ BeginEdit("b")
  \/ \E e \in Ends : Vanish(e)
  \/ \E p \in {"hub", "lease", "visits"} : switchPerspective(p)

\* Requests are answered or time out; the timers go on.
ConsoleFairness == \A t \in Tasks : WF_consoleVars(TaskSteps(t)) /\ SF_consoleVars(Poll(t))

ConsoleSpec == ConsoleInit /\ [][ConsoleNext]_consoleVars /\ ConsoleFairness

-----------------------------------------------------------------------------
\* Whoever raises the flag of this operation asks first: mappings, shares,
\* groups, plugins, provider, consumer, pairing, labels, probes.
Exclusive(o) ==
  /\ Info(o).guarded /\ Info(o).flag # "free" /\ o \in DOMAIN Rows
  /\ \A p \in DOMAIN Rows : Info(p).flag = Info(o).flag => Info(p).guarded

\* Of the operations that share such a flag one runs at a time.
OneAtATime ==
  \A t, s \in Tasks :
    /\ t # s /\ task[t].op # "idle" /\ task[s].op # "idle"
    /\ Info(task[t].op).flag = Info(task[s].op).flag
    => ~Exclusive(task[t].op)

\* A credential that was submitted and settled is not in the form, whether
\* the pairing succeeded, failed, or was typed over meanwhile.
CredentialsGone == form \notin spent

\* Guarded operations and credentials (console.svelte.ts).
ConsoleHolds == OneAtATime /\ CredentialsGone

\* What a page shows as going on ends once the user is done, whatever fails:
\* every flag has fallen, and a disconnection has its verdict, its error, or
\* was dismissed.
Settles == <>[](busy = {} /\ disc.phase \notin {"dispatched", "converging"})

\* Once the user is done and the page is visible, what it polls is what the
\* node has: old answers that arrive late are overtaken.
StatusConverges == <>[](visible /\ "tickStatus" \in offer) => <>[](shown["status"] = Now("status"))

\* What is going on ends, and what is shown becomes true (console.svelte.ts).
ConsoleSettles == Settles /\ StatusConverges

\* After a switch nothing of the node before is shown, once all is answered.
NoOldNode ==
  (\A t \in Tasks : task[t] = Idle) => \A r \in Shown : shown[r] # None => shown[r][1] = Source(r)

\* "Converged" is said of an endpoint that its own polls did not find.
ConvergedSeen == disc.phase = "converged" => disc.id \in missed

\* An edit that was begun ends by its own submission or the user's will.
EditKept == [][edit # "none" /\ edit' = "none" => \E t \in Tasks : task[t].arg = edit /\ task'[t] # task[t]]_consoleVars

\* The entries shown are those of the directory shown.
ListIsOfCwd == "loading" \notin busy => listed = cwd

\* The first landing does not undo what the user has chosen meanwhile.
NavigationKept == [][picked # "none" => place' = picked']_consoleVars
=============================================================================
