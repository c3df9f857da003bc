----------------------------- MODULE FabricHost -----------------------------
(***************************************************************************)
(* The fabric of the web console's sidecar: the lazy start that callers    *)
(* share, the cache of sessions, the served peers, pairing by token and    *)
(* the close.  packages/webui/src/core/fabric.mjs.                         *)
(*                                                                         *)
(* The SDK is external: instances of Fabric, sessions and serveHttp        *)
(* bindings are ids, they come and end by themselves, and a call on an     *)
(* instance that is shut down fails.                                       *)
(***************************************************************************)
EXTENDS Naturals, FiniteSets, Sequences

CONSTANTS Peers,
          Users,      \* callers of sessionResolver, joinWithToken, close
          MaxFabrics, \* bound: Fabric instances ever opened
          MaxSessions \* bound: sessions ever opened

VARIABLES
  phase,      \* status
  fabric,     \* the instance in use (0: null)
  up,         \* instances not shut down
  byStart,    \* those of them that startSequence opened
  fabrics,    \* instances opened so far
  start,      \* startSequence: [step, fab]; step "none" when none runs
  wired,      \* the instance whose events are subscribed (0: none)
  peers,      \* connectedPeers
  binding,    \* serveHttp calls that have not returned: <<peer, instance>>
  servers,    \* peer -> the instance it is served on (0: not bound)
  sessions,   \* peer -> cached session (0: none)
  opened,     \* session -> its peer, for every session ever opened
  ended,      \* sessions in a terminal phase by themselves
  shut,       \* sessions the host closed
  user        \* what each caller awaits: [op, step, peer, id]

startVars == <<phase, fabric, up, byStart, fabrics, start, wired>>
serveVars == <<peers, binding, servers>>
sessionVars == <<sessions, opened, ended, shut>>
fabricVars == <<startVars, serveVars, sessionVars, user>>

NoUser == [op |-> "idle", step |-> "idle", peer |-> "none", id |-> 0]
NotStarting == [step |-> "none", fab |-> 0]
Next1(u, step, id) == user' = [user EXCEPT ![u].step = step, ![u].id = id]
InUse(u, op, step) == user[u].op = op /\ user[u].step = step
Done(u) == user' = [user EXCEPT ![u] = NoUser]

FabricInit ==
  /\ phase = "idle" /\ fabric = 0 /\ up = {} /\ byStart = {} /\ fabrics = 0
  /\ start = NotStarting /\ wired = 0
  /\ peers = {} /\ binding = {} /\ servers = [p \in Peers |-> 0]
  /\ sessions = [p \in Peers |-> 0] /\ opened = <<>> /\ ended = {} /\ shut = {}
  /\ user = [u \in Users |-> NoUser]

\* A session is live when nobody closed it; those of a dead instance are not
\* told apart from the others, they end by themselves.
Live(s) == s # 0 /\ s \notin ended /\ s \notin shut
evicted(ps) == {sessions[p] : p \in ps} \ {0}
evictSession(p) == sessions' = [sessions EXCEPT ![p] = 0] /\ shut' = shut \cup evicted({p})

(***************************************************************************)
(* ensureStarted and startSequence: one start for all who wait for it.     *)
(***************************************************************************)
MutStarting == FALSE
Starting == start.step # "none"
ensureStarted(u) ==
  /\ InUse(u, "resolve", "start")
  /\ \/ phase = "started" /\ Next1(u, "look", 0) /\ UNCHANGED startVars
     \/ phase = "closed" /\ Done(u) /\ UNCHANGED startVars
     \/ /\ phase \notin {"started", "closed"}
        /\ Next1(u, "wait", 0)
        /\ IF Starting THEN UNCHANGED startVars
           ELSE /\ start' = [step |-> "open", fab |-> 0] /\ phase' = "starting"
                /\ UNCHANGED <<fabric, up, byStart, fabrics, wired>>
  /\ UNCHANGED <<serveVars, sessionVars>>

MutAnswer(ok) ==
  user' = [u \in Users |-> IF InUse(u, "resolve", "wait") /\ ok THEN [user[u] EXCEPT !.step = "look"] ELSE user[u]]
\* All who await startPromise are answered.
Answer(ok) ==
  user' = [u \in Users |-> IF ~InUse(u, "resolve", "wait") THEN user[u]
                           ELSE IF ok THEN [user[u] EXCEPT !.step = "look"] ELSE NoUser]

\* The .catch of ensureStarted.
StartFails == start' = NotStarting /\ phase' = "failed" /\ Answer(FALSE)

\* readIdentity and Fabric.open (or createRoot): no lease, an error, closed
\* meanwhile, or the instance is up.
StartOpen ==
  /\ start.step = "open"
  /\ \/ StartFails /\ UNCHANGED <<fabric, up, byStart, fabrics>>
     \/ /\ fabrics < MaxFabrics /\ fabrics' = fabrics + 1
        /\ IF phase = "closed" THEN StartFails /\ UNCHANGED <<fabric, up, byStart>>
           ELSE /\ fabric' = fabrics' /\ up' = up \cup {fabrics'} /\ byStart' = byStart \cup {fabrics'}
                /\ start' = [step |-> "check", fab |-> fabrics']
                /\ UNCHANGED <<phase, user>>
  /\ UNCHANGED <<wired, serveVars, sessionVars>>

\* The identity checks and fabric.start(): a failure shuts the instance down.
StartCheck ==
  /\ start.step = "check"
  /\ \/ /\ StartFails
        /\ up' = up \ {start.fab} /\ fabric' = 0
        /\ UNCHANGED wired
     \/ /\ start.fab \in up
        /\ wired' = start.fab /\ start' = [start EXCEPT !.step = "members"]
        /\ UNCHANGED <<phase, user, up, fabric>>
  /\ UNCHANGED <<byStart, fabrics, serveVars, sessionVars>>

\* bindPeer up to its await.
Unbound(p) == servers[p] = 0
Bind(ps) == binding' = binding \cup {<<p, fabric>> : p \in {q \in ps : phase # "closed" /\ Unbound(q)}}

\* The members (or none, when the read failed) are bound ahead.
StartMembers ==
  /\ start.step = "members"
  /\ \E ps \in SUBSET Peers : peers' = peers \cup ps /\ Bind(ps)
  /\ phase' = "started" /\ start' = NotStarting
  /\ Answer(TRUE)
  /\ UNCHANGED <<fabric, up, byStart, fabrics, wired, servers, sessionVars>>

(***************************************************************************)
(* Events: peers come and go, serveHttp returns, sessions end.             *)
(***************************************************************************)
PeerConnected(p) ==
  /\ wired # 0 /\ p \notin peers
  /\ peers' = peers \cup {p} /\ Bind({p})
  /\ UNCHANGED <<startVars, servers, sessionVars, user>>

PeerDisconnected(p) ==
  /\ wired # 0 /\ p \in peers
  /\ peers' = peers \ {p}
  /\ UNCHANGED <<startVars, binding, servers, sessionVars, user>>

MutStillOpen == TRUE
StillOpen == phase # "closed"
Bound(b) ==
  /\ b \in binding
  /\ binding' = binding \ {b}
  /\ \/ UNCHANGED servers
     \/ StillOpen /\ b[2] \in up /\ servers' = [servers EXCEPT ![b[1]] = b[2]]
  /\ UNCHANGED <<startVars, peers, sessionVars, user>>

\* Its onState callback evicts what is cached for its peer.
SessionEnds(s) ==
  /\ s \in DOMAIN opened /\ Live(s)
  /\ ended' = ended \cup {s}
  /\ evictSession(opened[s])
  /\ UNCHANGED <<startVars, serveVars, opened, user>>

(***************************************************************************)
(* sessionResolver.                                                        *)
(***************************************************************************)
sessionResolver(u, p) ==
  /\ user[u] = NoUser
  /\ user' = [user EXCEPT ![u] = [op |-> "resolve", step |-> "start", peer |-> p, id |-> 0]]
  /\ UNCHANGED <<startVars, serveVars, sessionVars>>

\* A cached session is asked for its phase, otherwise the peer is dialled.
Look(u) ==
  /\ InUse(u, "resolve", "look")
  /\ LET s == sessions[user[u].peer] IN Next1(u, IF s = 0 THEN "dial" ELSE "state", s)
  /\ UNCHANGED <<startVars, serveVars, sessionVars>>

\* Active, recovering or unknown: the cached session is the answer. A session
\* in another phase is evicted, one that is still negotiating too: what was
\* read of it before the await is not looked at again.
StateKnown(u) ==
  /\ InUse(u, "resolve", "state")
  /\ \/ Done(u) /\ UNCHANGED <<sessions, shut>>
     \/ /\ evictSession(user[u].peer)
        /\ Next1(u, "dial", 0)
  /\ UNCHANGED <<startVars, serveVars, opened, ended>>

\* connect and openSession: failed, or a session that replaces the cached one
\* unless the host was closed meanwhile.
Dialled(u) ==
  /\ InUse(u, "resolve", "dial")
  /\ Done(u)
  /\ \/ UNCHANGED <<sessions, opened, shut>>
     \/ /\ up # {} /\ Len(opened) < MaxSessions
        /\ opened' = Append(opened, user[u].peer)
        /\ IF phase = "closed" THEN shut' = shut \cup {Len(opened')} /\ UNCHANGED sessions
           ELSE sessions' = [sessions EXCEPT ![user[u].peer] = Len(opened')] /\ UNCHANGED shut
  /\ UNCHANGED <<startVars, serveVars, ended>>

(***************************************************************************)
(* teardownFabric, joinWithToken and close.                                *)
(***************************************************************************)
\* The part of teardownFabric before it awaits the shutdown.
Teardown ==
  /\ servers' = [p \in Peers |-> 0] /\ peers' = {}
  /\ sessions' = [p \in Peers |-> 0] /\ shut' = shut \cup evicted(Peers)
  /\ wired' = 0 /\ fabric' = 0
  /\ UNCHANGED <<binding, opened, ended>>

joinWithToken(u) ==
  /\ user[u] = NoUser
  /\ user' = [user EXCEPT ![u] = [NoUser EXCEPT !.op = "join", !.step = "redeem"]]
  /\ UNCHANGED <<startVars, serveVars, sessionVars>>

\* Fabric.joinWithToken and the check of the root: refused, or the instance
\* is up and what was there is torn down.
Joined(u) ==
  /\ InUse(u, "join", "redeem")
  /\ \/ Done(u) /\ UNCHANGED <<startVars, serveVars, sessionVars>>
     \/ /\ fabrics < MaxFabrics /\ fabrics' = fabrics + 1
        /\ up' = (up \cup {fabrics'}) \ {fabric}
        /\ Teardown
        /\ Next1(u, "takeover", fabrics')
        /\ UNCHANGED <<phase, byStart, start>>

TakenOver(u) ==
  /\ InUse(u, "join", "takeover")
  /\ fabric' = user[u].id
  /\ Next1(u, "starting", user[u].id)
  /\ UNCHANGED <<phase, up, byStart, fabrics, start, wired, serveVars, sessionVars>>

\* joined.start() failed, or the host is started on the new instance.
JoinStarted(u) ==
  /\ InUse(u, "join", "starting")
  /\ Done(u)
  /\ \/ UNCHANGED <<phase, wired>>
     \/ user[u].id \in up /\ phase' = "started" /\ wired' = user[u].id
  /\ UNCHANGED <<fabric, up, byStart, fabrics, start, serveVars, sessionVars>>

Close(u) ==
  /\ user[u] = NoUser
  /\ user' = [user EXCEPT ![u] = [NoUser EXCEPT !.op = "close", !.step = "teardown"]]
  /\ Teardown
  /\ up' = up \ {fabric}
  /\ UNCHANGED <<phase, byStart, fabrics, start>>

Closed(u) ==
  /\ InUse(u, "close", "teardown")
  /\ Done(u)
  /\ phase' = "closed"
  /\ servers' = [p \in Peers |-> 0] /\ peers' = {}
  /\ sessions' = [p \in Peers |-> 0] /\ shut' = shut \cup evicted(Peers)
  /\ wired' = 0
  /\ UNCHANGED <<fabric, up, byStart, fabrics, start, binding, opened, ended>>

UserSteps(u) ==
  \/ ensureStarted(u) \/ Look(u) \/ StateKnown(u) \/ Dialled(u)
  \/ Joined(u) \/ TakenOver(u) \/ JoinStarted(u) \/ Closed(u)
StartSteps == StartOpen \/ StartCheck \/ StartMembers
FabricNext ==
  \/ StartSteps
  \/ \E p \in Peers : PeerConnected(p) \/ PeerDisconnected(p)
  \/ \E b \in binding : Bound(b)
  \/ \E s \in 1..MaxSessions : SessionEnds(s)
  \/ \E u \in Users : UserSteps(u) \/ joinWithToken(u) \/ Close(u)
  \/ \E u \in Users, p \in Peers : sessionResolver(u, p)

\* Every SDK call returns some day, with an answer or with an error.
FabricFairness == WF_fabricVars(StartSteps) /\ \A u \in Users : WF_fabricVars(UserSteps(u))

-----------------------------------------------------------------------------
\* Callers of ensureStarted share one start: of the instances that starts
\* opened on the data directory at most one is up.
OneStart == Cardinality(up \cap byStart) <= 1

\* Nothing that completes after the close comes back into the tables: no
\* served peer, no cached session (bindPeer, sessionResolver recheck it).
NothingAfterClose == phase = "closed" => \A p \in Peers : servers[p] = 0 /\ sessions[p] = 0

\* Starts are single and a close is final (fabric.mjs).
FabricHolds == OneStart /\ NothingAfterClose

\* Whoever asks for a session gets one or an error, also when the host closes
\* or is paired anew while the start it waits for is under way.
Resolves == \A u \in Users : user[u].op = "resolve" ~> user[u].op # "resolve"

\* Once close has returned and nothing else is under way, no instance that a
\* start opened is up.
Quiet == \A u \in Users : user[u] = NoUser
ClosedIsClosed == phase = "closed" /\ Quiet /\ ~Starting => up \cap byStart = {}

\* A session the host closes has ended, or everything is torn down: an
\* eviction never cuts a session that a caller may be using.
EvictOnlyTerminal ==
  [][\/ shut' \ shut \subseteq ended'
     \/ phase' = "closed"
     \/ \E u \in Users : user'[u] # user[u] /\ user'[u].op \in {"join", "close"}]_fabricVars

\* Once the host is closed it stays closed.
StaysClosed == [][phase = "closed" => phase' = "closed"]_fabricVars
=============================================================================
