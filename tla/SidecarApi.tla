----------------------------- MODULE SidecarApi -----------------------------
(***************************************************************************)
(* The sidecar's local HTTP faces: sessions, the home's data, the plugins  *)
(* and the management of the plugins' runtimes.  Each handler is a record  *)
(* of its guards and of the statuses it gives; what a runtime does behind  *)
(* it is in that runtime's module, except that the sync groups and their   *)
(* schedulers, which requests, orders and restarts share, are here.        *)
(* packages/webui/src/core/sidecar.mjs, capability.mjs, home.mjs,          *)
(* plugins/data-plane.mjs; opendweb-ext-sync/src/runtime.mjs, ledger.mjs.  *)
(***************************************************************************)
EXTENDS Naturals, Sequences

CONSTANTS Clients,    \* requests the pages send
          Groups,     \* sync groups
          Secrets,    \* console capabilities
          Leased,     \* whether the device had a lease when the sidecar began
          Member,     \* whether the sidecar runs in the member stance
          MaxOrders   \* bound: enable and disable orders for the sync plugin

VARIABLES
  page,      \* what each request is at: [route, step, group]
  sent,      \* the statuses written for each request
  caps,      \* capability -> fresh, issued, used, expired, lapsed, swept
  opened,    \* capability -> sessions it opened
  sync,      \* the sync plugin: off, enabling, on
  ordering,  \* its mutationInFlight, by what it does now
  toStart,   \* the groups SyncEnables has read
  groups,    \* groups.json
  scheduled, \* groups the scheduler holds a timer for
  orders

apiVars == <<page, sent, caps, opened, sync, ordering, toStart, groups, scheduled, orders>>
syncVars == <<sync, ordering, toStart, scheduled, orders>>
capVars == <<caps, opened>>

(***************************************************************************)
(* The handlers.  guarded: asks for the origin; body: the request has one, *)
(* and the reader answers when it is too large; shaped: the parsed body or *)
(* query is checked; home: member stance only; lease: 503 without a sync   *)
(* runtime; gated: 409 while the plugin is off; codes: what the runtime    *)
(* may refuse with; throws: the status of an exception (500 is the         *)
(* server's own last resort); does: the effect.                            *)
(***************************************************************************)
PageRead == [guarded |-> TRUE, body |-> FALSE, shaped |-> FALSE, home |-> FALSE, lease |-> FALSE, gated |-> FALSE,
         codes |-> {}, throws |-> 500, does |-> "reads"]
Order == [PageRead EXCEPT !.does = "orders"]
Post == [Order EXCEPT !.body = TRUE]
Form == [Post EXCEPT !.shaped = TRUE]

State == [PageRead EXCEPT !.guarded = FALSE]
StaticFiles == [State EXCEPT !.codes = {400, 404, 405}]
LeasesRead == PageRead
VisitsRead == PageRead
HubRead == [PageRead EXCEPT !.codes = {404}]
VisitProbe == [Form EXCEPT !.home = TRUE]
LeaseLabel == [Form EXCEPT !.codes = {400, 404, 503}]
PluginList == PageRead
PluginOrder == [Order EXCEPT !.codes = {404, 409, 503}]
PluginConfig == [PageRead EXCEPT !.codes = {404}]
PluginConfigSet == [Post EXCEPT !.codes = {400, 404, 503}]
Mappings == PageRead
MappingAdd == [Post EXCEPT !.codes = {400, 503}]
MappingEnabled == [Form EXCEPT !.codes = {400, 404, 503}]
MappingRemove == [Order EXCEPT !.codes = {404, 503}]
Allowlist == PageRead
AllowGrant == [Form EXCEPT !.codes = {400, 503}]
AllowRevoke == [Form EXCEPT !.codes = {503}]
Shares == PageRead
\* runtimeError: a runtime's own status, or 400 for any plain Error.
ShareAdd == [Post EXCEPT !.codes = {400}, !.throws = 400]
ShareRemove == [Order EXCEPT !.codes = {404}, !.throws = 400]
ShareMode == [Form EXCEPT !.codes = {404}, !.throws = 400]
SharePeers == [Form EXCEPT !.codes = {404}, !.throws = 400]
Bridge == [Form EXCEPT !.throws = 502]
GroupList == [PageRead EXCEPT !.lease = TRUE]
GroupCreate == [Post EXCEPT !.lease = TRUE, !.codes = {400, 503}, !.does = "creates"]
GroupDelete == [Order EXCEPT !.lease = TRUE, !.codes = {503}, !.does = "deletes"]
SyncNow == [Order EXCEPT !.lease = TRUE, !.gated = TRUE, !.does = "syncs"]
SyncStatus == [PageRead EXCEPT !.lease = TRUE]
SyncAsk == [PageRead EXCEPT !.lease = TRUE, !.shaped = TRUE]
ConflictResolve == [Form EXCEPT !.lease = TRUE, !.gated = TRUE, !.codes = {400, 404, 500}, !.does = "syncs"]
SeedResolve == [Order EXCEPT !.lease = TRUE, !.gated = TRUE, !.codes = {400, 404, 500}, !.does = "syncs"]
AiRead == [PageRead EXCEPT !.codes = {400, 404}]
AiOrder == [Post EXCEPT !.codes = {400, 404, 409}]
Invite == [Post EXCEPT !.throws = 503]
Routes == {State, StaticFiles, LeasesRead, VisitsRead, HubRead, VisitProbe, LeaseLabel, PluginList, PluginOrder, PluginConfig,
  PluginConfigSet, Mappings, MappingAdd, MappingEnabled, MappingRemove, Allowlist, AllowGrant, AllowRevoke,
  Shares, ShareAdd, ShareRemove, ShareMode, SharePeers, Bridge, GroupList, GroupCreate, GroupDelete, SyncNow,
  SyncStatus, SyncAsk, ConflictResolve, SeedResolve, AiRead, AiOrder, Invite}

Unsent == [route |-> PageRead, step |-> "unsent", group |-> CHOOSE g \in Groups : TRUE]
ApiInit ==
  /\ page = [r \in Clients |-> Unsent]
  /\ sent = [r \in Clients |-> <<>>]
  /\ caps = [c \in Secrets |-> "fresh"]
  /\ opened = [c \in Secrets |-> 0]
  /\ sync = "off" /\ ordering = "none" /\ toStart = {}
  /\ groups = {} /\ scheduled = {}
  /\ orders = 0

\* sendJson: a second answer destroys the response that is being read.
sendJson(r, status) == sent' = [sent EXCEPT ![r] = Append(@, status)]
Answer(r, status) == sendJson(r, status) /\ page' = [page EXCEPT ![r] = [Unsent EXCEPT !.step = "done"]]
To(r, step) == page' = [page EXCEPT ![r].step = step] /\ UNCHANGED sent
isAccepting == sync = "on"
SyncGate(rt) == ~rt.gated \/ isAccepting

(***************************************************************************)
(* A request: the origin, the body, the shape, the lease, the gate, then   *)
(* the runtime.  All but the body and the runtime's work is one step.      *)
(***************************************************************************)
\* The plugin's refusal, or the call of the runtime, in one step.
Admit(r, rt) ==
  IF rt.lease /\ ~Leased THEN Answer(r, 503)
  ELSE IF ~SyncGate(rt) THEN Answer(r, 409)
  ELSE To(r, "work")

Arrive(r, rt, g) ==
  /\ page[r].step = "unsent"
  /\ rt.does \notin {"creates", "deletes"} => g = Unsent.group
  /\ page' = [page EXCEPT ![r] = [route |-> rt, step |-> "arrived", group |-> g]]
  /\ UNCHANGED <<sent, groups, capVars, syncVars>>

\* guardLocalOrigin, guardWriteOrigin and the member stance.
MutRefusal(r, status) == sendJson(r, status) /\ page' = [page EXCEPT ![r].step = "body"]
Refusal(r, status) == Answer(r, status)
GuardOrigin(r) ==
  LET rt == page[r].route IN
  /\ page[r].step = "arrived"
  /\ \/ rt.home /\ ~Member /\ Refusal(r, 403)
     \/ rt.guarded /\ Refusal(r, IF rt.does = "reads" THEN 400 ELSE 403)
     \/ /\ ~(rt.home /\ ~Member)
        /\ \/ rt.body /\ To(r, "body")
           \/ ~rt.body /\ ~rt.shaped /\ Admit(r, rt)
           \/ ~rt.body /\ rt.shaped /\ Leased /\ Answer(r, 400)
           \/ ~rt.body /\ rt.shaped /\ Admit(r, rt)
  /\ UNCHANGED <<groups, capVars, syncVars>>

\* readBodyWithLimit answers 413 itself; a client that goes is not answered.
ReadBody(r) ==
  LET rt == page[r].route IN
  /\ page[r].step = "body"
  /\ \/ Answer(r, 413)
     \/ To(r, "gone")
     \/ Answer(r, 400)
     \/ Admit(r, rt)
  /\ UNCHANGED <<groups, capVars, syncVars>>

\* The gate of a resolve is asked before the shape of its decisions.
Work(r) ==
  LET rt == page[r].route IN
  /\ page[r].step = "work"
  /\ rt.does \notin {"creates", "deletes"}
  /\ \E status \in {200, rt.throws} \cup rt.codes : Answer(r, status)
  /\ UNCHANGED <<groups, capVars, syncVars>>

\* createGroup writes the ledger, makes the directories, and the handler
\* starts the group's scheduler if the plugin is on by then.
createGroup(r) ==
  LET rt == page[r].route IN
  /\ page[r].step = "work" /\ rt.does = "creates"
  /\ \/ \E status \in {rt.throws} \cup rt.codes : Answer(r, status) /\ UNCHANGED groups
     \/ To(r, "created") /\ groups' = groups \cup {page[r].group}
  /\ UNCHANGED <<capVars, syncVars>>
MutStartGroup(g) == scheduled' = scheduled \cup {g}
StartGroup(g) == scheduled' = IF isAccepting THEN scheduled \cup {g} ELSE scheduled
GroupCreated(r) ==
  /\ page[r].step = "created"
  /\ StartGroup(page[r].group)
  /\ Answer(r, 200)
  /\ UNCHANGED <<groups, capVars, sync, ordering, toStart, orders>>

\* deleteGroup takes the group from the ledger and leaves its scheduler; an
\* unknown group is no error.
deleteGroup(r) ==
  LET rt == page[r].route IN
  /\ page[r].step = "work" /\ rt.does = "deletes"
  /\ \/ \E status \in {rt.throws} \cup rt.codes : Answer(r, status) /\ UNCHANGED groups
     \/ Answer(r, 200) /\ groups' = groups \ {page[r].group}
  /\ UNCHANGED <<capVars, syncVars>>

(***************************************************************************)
(* The sync plugin's own orders (the host's enable and disable).           *)
(***************************************************************************)
Enable ==
  /\ sync = "off" /\ ordering = "none" /\ orders < MaxOrders /\ Leased
  /\ ordering' = "listing" /\ sync' = "enabling" /\ orders' = orders + 1
  /\ UNCHANGED <<page, sent, groups, capVars, toStart, scheduled>>
\* SyncEnables: recover, read the ledger, then a scheduler for every group.
SyncEnables ==
  /\ ordering = "listing"
  /\ \/ ordering' = "starting" /\ toStart' = groups /\ UNCHANGED sync
     \/ ordering' = "none" /\ sync' = "off" /\ UNCHANGED toStart
  /\ UNCHANGED <<page, sent, groups, capVars, scheduled, orders>>
StartAll ==
  /\ ordering = "starting"
  /\ scheduled' = scheduled \cup toStart /\ toStart' = {} /\ ordering' = "started"
  /\ UNCHANGED <<page, sent, groups, capVars, sync, orders>>
Enabled ==
  /\ ordering = "started"
  /\ sync' = "on" /\ ordering' = "none"
  /\ UNCHANGED <<page, sent, groups, capVars, scheduled, toStart, orders>>
Disable ==
  /\ sync = "on" /\ ordering = "none" /\ orders < MaxOrders
  /\ sync' = "off" /\ ordering' = "draining" /\ orders' = orders + 1
  /\ UNCHANGED <<page, sent, groups, capVars, scheduled, toStart>>
\* SyncDisposes: scheduler.dispose stops every group.
SyncDisposes ==
  /\ ordering = "draining"
  /\ scheduled' = {} /\ ordering' = "none"
  /\ UNCHANGED <<page, sent, groups, capVars, sync, toStart, orders>>

(***************************************************************************)
(* Console capabilities.                                                   *)
(***************************************************************************)
issue(c) ==
  /\ caps[c] = "fresh"
  /\ caps' = [d \in Secrets |-> IF d = c THEN "issued" ELSE IF caps[d] = "lapsed" THEN "swept" ELSE caps[d]]
  /\ UNCHANGED <<page, sent, groups, opened, syncVars>>
\* The time to live passes: an unused one still stands, a used one is swept
\* by the next issue.
TtlPasses(c) ==
  /\ caps[c] \in {"issued", "used"}
  /\ caps' = [caps EXCEPT ![c] = IF @ = "issued" THEN "expired" ELSE "lapsed"]
  /\ UNCHANGED <<page, sent, groups, opened, syncVars>>
Consumed(c) == IF caps[c] = "issued" THEN "used" ELSE IF caps[c] \in {"expired", "lapsed"} THEN "swept" ELSE caps[c]
consume(c) ==
  /\ caps[c] # "fresh" /\ opened[c] < 2
  /\ opened' = [opened EXCEPT ![c] = IF caps[c] = "issued" THEN @ + 1 ELSE @]
  /\ caps' = [caps EXCEPT ![c] = Consumed(c)]
  /\ UNCHANGED <<page, sent, groups, syncVars>>
\* close empties the registry.
CapsClosed ==
  /\ \E c \in Secrets : caps[c] # "swept"
  /\ caps' = [c \in Secrets |-> "swept"]
  /\ UNCHANGED <<page, sent, groups, opened, syncVars>>

Handle(r) == GuardOrigin(r) \/ ReadBody(r) \/ Work(r) \/ createGroup(r) \/ GroupCreated(r) \/ deleteGroup(r)
SyncOrders == Enable \/ SyncEnables \/ StartAll \/ Enabled \/ Disable \/ SyncDisposes
ApiNext ==
  \/ \E r \in Clients, rt \in Routes, g \in Groups : Arrive(r, rt, g)
  \/ \E r \in Clients : Handle(r)
  \/ SyncOrders
CapNext == CapsClosed \/ \E c \in Secrets : issue(c) \/ TtlPasses(c) \/ consume(c)
ApiSpec == ApiInit /\ [][ApiNext \/ CapNext]_apiVars

(***************************************************************************)
(* Properties.                                                             *)
(***************************************************************************)
\* Every request is answered exactly once, unless its client left: a refusal
\* by a guard, by the body reader or by the gate is the end of the handler.
AnsweredOnce ==
  \A r \in Clients :
    /\ page[r].step = "done" => Len(sent[r]) = 1
    /\ page[r].step # "done" => sent[r] = <<>>

\* No group is scheduled once the sync plugin is off and its order is over,
\* whatever requests to create groups were under way when it was given.
NoTimerWhenOff == sync = "off" /\ ordering = "none" => scheduled = {}

\* A capability opens one session.
OneSession == \A c \in Secrets : opened[c] <= 1

\* What the sidecar's answers, schedules and capabilities keep.
ApiHolds == AnsweredOnce /\ NoTimerWhenOff /\ OneSession

\* Refuted by TLC (README): once the plugin is off, no manual sync and no
\* resolution is at work (sidecar.mjs:1470 says they happen only while it is
\* enabled; they are no activity of the host's drain).
NothingWhileOff ==
  sync = "off" /\ ordering = "none" => \A r \in Clients : ~(page[r].step = "work" /\ page[r].route.gated)

\* Refuted by TLC (README): deleting a group stops its scheduler.
DeletedStops == ordering = "none" => scheduled \subseteq groups

\* Refuted by TLC (README): while the plugin is on and nobody is at work,
\* every group of the ledger is scheduled.
EveryGroupRuns ==
  (sync = "on" /\ ordering = "none" /\ \A r \in Clients : page[r].step \in {"unsent", "done"}) => groups \subseteq scheduled
=============================================================================
