------------------------------ MODULE PortsExt ------------------------------
(***************************************************************************)
(* The ports plugin: local listeners that forward HTTP requests to a port  *)
(* of a peer.  packages/opendweb-ext-ports/src: runtime.mjs (listeners and *)
(* the mapping ledger), proxy.mjs (a request, this side), provider.mjs     *)
(* (the request, the peer's side), ledger.mjs, headers.mjs.                *)
(*                                                                         *)
(* One mapping.  Its listeners are numbered in the order they are made.    *)
(* Body sizes count in units of the mapping's limit: 0, 1 (fits), 2 (too   *)
(* large); a response body is of at most Blocks blocks.                    *)
(***************************************************************************)
EXTENDS Naturals, FiniteSets, Sequences

CONSTANTS Orders,      \* management calls in progress
          MaxServers,  \* bound: listeners ever made
          Calls,       \* proxied requests in progress
          MaxCount,    \* MAX_CONCURRENT_PROXIES
          Blocks       \* bound: blocks of a response body

ASSUME PortsAssumption == IsFiniteSet(Calls) /\ MaxCount \in Nat /\ MaxServers \in Nat \ {0}

Servers == 1..MaxServers
Limit == 1
MaxBytes == MaxCount * Limit

VARIABLES
  entry,    \* the mapping in the ledger: "none", "on" (enabled) or "off"
  running,
  server,   \* the listener in the servers map, 0 when there is none
  state,    \* listener -> its state
  socket,   \* listener -> it holds the port
  made,     \* listeners made
  order,    \* management call -> [op, step, srv]
  count, bytes, \* the budget
  allowed,  \* the peer's allowlist has the port
  call,     \* request, this side: [step, phase, gone, size, ticket, out, seen]
  peer      \* request, the peer's side: [step, up, fin, blocks, taken]

listenVars == <<entry, running, server, state, socket, made, order>>
callVars == <<count, bytes, allowed, call, peer>>
portsVars == <<listenVars, callVars>>

NoOrder == [op |-> "idle", step |-> "idle", srv |-> 0]
NoCall == [step |-> "idle", phase |-> "init", gone |-> "no", size |-> 0, ticket |-> 0, out |-> "none", seen |-> 0]
NoPeer == [step |-> "idle", up |-> "none", fin |-> "none", blocks |-> 0, taken |-> 0]

PortsInit ==
  /\ entry \in {"none", "on"} /\ running = (entry = "on")
  /\ server = IF running THEN 1 ELSE 0
  /\ state = [s \in Servers |-> IF s = server THEN "listening" ELSE "stopped"]
  /\ socket = [s \in Servers |-> s = server]
  /\ made = server
  /\ order = [o \in Orders |-> NoOrder]
  /\ count = 0 /\ bytes = 0 /\ allowed = TRUE
  /\ call = [r \in Calls |-> NoCall]
  /\ peer = [r \in Calls |-> NoPeer]

(***************************************************************************)
(* runtime.mjs: a management call is a chain of awaits; nothing orders two.*)
(***************************************************************************)
Awaits(o, op, step) == order[o].op = op /\ order[o].step = step
Await(o, op, step, s) == order' = [order EXCEPT ![o] = [op |-> op, step |-> step, srv |-> s]]
Replies(o) == order' = [order EXCEPT ![o] = NoOrder]
InFlight == {r \in Calls : call[r].step # "idle"}

\* Mutant: a listener that listens is not found.
MutListening == FALSE
\* startMapping: unless one listens, make a listener, put it in the map, start it.
Listening == server # 0 /\ state[server] = "listening"
startMapping(o) ==
  IF Listening THEN Replies(o) /\ UNCHANGED <<server, made>>
  ELSE /\ made < MaxServers
       /\ made' = made + 1 /\ server' = made + 1
       /\ Await(o, "start", "listen", made + 1)

\* server.start: the port is another listener's, or another program's, or is taken.
PortFree == \A s \in Servers : ~socket[s]
Listen(o) ==
  /\ Awaits(o, "start", "listen")
  /\ LET s == order[o].srv IN
     \/ /\ PortFree
        /\ socket' = [socket EXCEPT ![s] = TRUE]
        /\ state' = [state EXCEPT ![s] = "listening"]
     \/ state' = [state EXCEPT ![s] = "failed"] /\ UNCHANGED socket
  /\ Replies(o)
  /\ UNCHANGED <<entry, running, server, made, callVars>>

\* stopMapping, server.stop: a listener not yet, or no longer, listening is
\* only taken out of the map; one that listens gives the port back and drains.
stopMapping(o, op, next) ==
  IF server = 0 \/ state[server] \in {"stopped", "failed"}
  THEN /\ server' = 0 /\ Await(o, op, next, 0)
       /\ state' = IF server = 0 THEN state ELSE [state EXCEPT ![server] = "stopped"]
       /\ UNCHANGED socket
  ELSE /\ state' = [state EXCEPT ![server] = "stopping"]
       /\ socket' = [socket EXCEPT ![server] = FALSE]
       /\ Await(o, op, "drain", server)
       /\ UNCHANGED server

\* After the drain the map loses the id, whatever listener it has by then.
Forget == server' = 0
AfterDrain == [remove |-> "erase", disable |-> "save", dispose |-> "idle"]

addMapping(o) ==
  /\ order[o] = NoOrder /\ entry = "none"
  /\ entry' = "on"
  /\ Await(o, "start", "check", 0)
  /\ UNCHANGED <<running, server, state, socket, made, callVars>>

\* addMapping and setMappingEnabled(true), after the ledger is saved.
StartIfRunning(o) ==
  /\ Awaits(o, "start", "check")
  /\ IF running THEN startMapping(o) ELSE Replies(o) /\ UNCHANGED <<server, made>>
  /\ UNCHANGED <<entry, running, state, socket, callVars>>

removeMapping(o) ==
  /\ order[o] = NoOrder
  /\ stopMapping(o, "remove", "erase")
  /\ UNCHANGED <<entry, running, made, callVars>>
Erase(o) ==
  /\ Awaits(o, "remove", "erase")
  /\ entry' = "none"
  /\ Replies(o)
  /\ UNCHANGED <<running, server, state, socket, made, callVars>>

setMappingEnabled(o, on) ==
  /\ order[o] = NoOrder /\ entry # "none"
  /\ IF on THEN entry' = "on" /\ Await(o, "start", "check", 0) /\ UNCHANGED <<server, state, socket>>
     ELSE stopMapping(o, "disable", "save") /\ UNCHANGED entry
  /\ UNCHANGED <<running, made, callVars>>
SaveOff(o) ==
  /\ Awaits(o, "disable", "save")
  /\ entry' = IF entry = "none" THEN entry ELSE "off"
  /\ Replies(o)
  /\ UNCHANGED <<running, server, state, socket, made, callVars>>

\* onEnable, onDispose: the host orders them; the budget is made anew.
HostBusy == \E o \in Orders : order[o].op \in {"enable", "dispose"}
startEnabledMappings(o) ==
  /\ order[o] = NoOrder /\ ~running /\ ~HostBusy
  /\ running' = TRUE
  /\ IF entry = "on" THEN startMapping(o) ELSE UNCHANGED <<server, made, order>>
  /\ UNCHANGED <<entry, state, socket, callVars>>
stopAll(o) ==
  /\ order[o] = NoOrder /\ running /\ ~HostBusy
  /\ running' = FALSE
  /\ stopMapping(o, "dispose", "idle")
  /\ UNCHANGED <<entry, made, callVars>>
Disposed(o) ==
  /\ Awaits(o, "dispose", "idle")
  /\ Replies(o)
  /\ UNCHANGED <<entry, running, server, state, socket, made, callVars>>

(***************************************************************************)
(* proxy.mjs, handle: this side of a request.                              *)
(***************************************************************************)
With(r, f) == call' = [call EXCEPT ![r] = f]
\* The answer the browser saw stays; the ticket and the activity end.
End(r, out) ==
  /\ With(r, [call[r] EXCEPT !.step = "idle", !.out = IF call[r].gone # "no" THEN "gone" ELSE out, !.ticket = 0])
  /\ count' = count - 1 /\ bytes' = bytes - call[r].ticket

Over(n) == n > Limit
\* Mutant: one request too many is let in.
MutTryAcquire(known) == count <= MaxCount /\ bytes + known <= MaxBytes
TryAcquire(known) == count + 1 <= MaxCount /\ bytes + known <= MaxBytes
\* A request of a known or an unknown length.
handle(r, known, size) ==
  /\ call[r].step = "idle" /\ call[r].out = "none" /\ Listening
  /\ LET initial == IF known THEN size ELSE 0 IN
     IF (known /\ Over(size)) \/ ~TryAcquire(initial)
     THEN With(r, [NoCall EXCEPT !.out = "refused"]) /\ UNCHANGED <<count, bytes>>
     ELSE /\ With(r, [NoCall EXCEPT !.step = "read", !.size = size, !.ticket = initial])
          /\ count' = count + 1 /\ bytes' = bytes + initial
  /\ UNCHANGED <<listenVars, allowed, peer>>

\* readBoundedBody: too large (the connection is cut), or cut, or all of it.
BodyRead(r) ==
  /\ call[r].step = "read"
  /\ IF Over(call[r].size) \/ call[r].gone # "no" THEN End(r, "broken")
     ELSE /\ With(r, [call[r] EXCEPT !.step = "resolve", !.ticket = call[r].size])
          /\ bytes' = bytes - call[r].ticket + call[r].size /\ UNCHANGED count
  /\ UNCHANGED <<listenVars, allowed, peer>>

\* sessionResolver: no session, or the request is sent; the client is not asked again.
Resolve(r) ==
  /\ call[r].step = "resolve"
  /\ \/ End(r, "refused") /\ UNCHANGED peer
     \/ /\ With(r, [call[r] EXCEPT !.step = "head", !.phase = "head"])
        /\ peer' = [peer EXCEPT ![r] = [NoPeer EXCEPT !.step = "check"]]
        /\ UNCHANGED <<count, bytes>>
  /\ UNCHANGED <<listenVars, allowed>>

\* Mutant: a RESET leaves the upstream connection.
MutReset(r) == peer' = [peer EXCEPT ![r].fin = "reset"]
\* RESET: the handler's signal fires, the upstream's connection is closed.
Reset(r) == peer' = [peer EXCEPT ![r].step = IF @ \in {"idle", "done"} THEN @ ELSE "aborted", ![r].fin = "reset",
                                 ![r].up = IF @ = "open" THEN "cut" ELSE @]

\* fetchHttp: a response head, or a failure.
ResponseHead(r) ==
  /\ call[r].step = "head" /\ peer[r].fin # "none"
  /\ IF peer[r].fin = "reset" THEN End(r, "refused") /\ UNCHANGED peer
     ELSE IF call[r].gone # "no" THEN End(r, "gone") /\ Reset(r)
     ELSE /\ With(r, [call[r] EXCEPT !.step = "body", !.phase = "body"])
          /\ UNCHANGED <<peer, count, bytes>>
  /\ UNCHANGED <<listenVars, allowed>>

\* Mutant: a body that breaks off ends like a whole one.
MutFailed(r) == IF call[r].seen = 0 THEN "refused" ELSE "complete"
\* The pump: a block, the head with the first; a clean end; a failure.
Failed(r) == IF call[r].seen = 0 THEN "refused" ELSE "broken"
Pump(r) ==
  /\ call[r].step = "body"
  /\ IF peer[r].fin = "reset" THEN End(r, Failed(r)) /\ UNCHANGED peer
     ELSE IF peer[r].taken < peer[r].blocks
     THEN /\ peer' = [peer EXCEPT ![r].taken = @ + 1]
          /\ IF call[r].gone # "no" THEN End(r, "gone")
             ELSE With(r, [call[r] EXCEPT !.seen = @ + 1]) /\ UNCHANGED <<count, bytes>>
     ELSE peer[r].fin = "fin" /\ End(r, "complete") /\ UNCHANGED peer
  /\ UNCHANGED <<listenVars, allowed>>

\* onLocalGone: the signal while the head is awaited, the handle's abort in
\* the body; before the request is sent, a note that is read only there.
LocalGone(r) ==
  /\ call[r].step # "idle" /\ call[r].gone = "no"
  /\ LET p == call[r].phase IN
     /\ With(r, [call[r] EXCEPT !.gone = IF p = "init" THEN "early" ELSE "late"])
     /\ IF p = "init" THEN UNCHANGED peer ELSE Reset(r)
  /\ UNCHANGED <<listenVars, count, bytes, allowed>>

\* The session is lost.
SessionLost(r) ==
  /\ call[r].step \in {"head", "body"} /\ peer[r].fin # "reset"
  /\ Reset(r)
  /\ UNCHANGED <<listenVars, count, bytes, allowed, call>>

\* The deadline of server.stop: every request of the mapping is cancelled.
CancelAll ==
  /\ call' = [r \in Calls |-> IF call[r].step = "idle" \/ call[r].gone # "no" THEN call[r]
                              ELSE [call[r] EXCEPT !.gone = IF @ = "no" /\ call[r].phase = "init" THEN "early" ELSE "late"]]
  /\ peer' = [r \in Calls |-> IF call[r].step = "idle" \/ call[r].phase = "init" THEN peer[r]
                              ELSE [peer[r] EXCEPT !.step = IF @ \in {"idle", "done"} THEN @ ELSE "aborted", !.fin = "reset",
                                                   !.up = IF @ = "open" THEN "cut" ELSE @]]
Drained(o) ==
  /\ order[o].step = "drain"
  /\ IF InFlight = {} THEN UNCHANGED <<call, peer>> ELSE CancelAll
  /\ state' = [state EXCEPT ![order[o].srv] = "stopped"]
  /\ Forget
  /\ Await(o, order[o].op, AfterDrain[order[o].op], 0)
  /\ UNCHANGED <<entry, running, socket, made, count, bytes, allowed>>

(***************************************************************************)
(* provider.mjs: the peer's side.                                          *)
(***************************************************************************)
P(r, f) == peer' = [peer EXCEPT ![r] = f]
\* A response without an upstream is one block and a clean end.
Static(r) == P(r, [peer[r] EXCEPT !.step = "done", !.fin = "fin", !.blocks = 1])

Check(r) ==
  /\ peer[r].step = "check"
  /\ IF allowed THEN P(r, [peer[r] EXCEPT !.step = "connect", !.up = "open"]) ELSE Static(r)
  /\ UNCHANGED <<listenVars, count, bytes, allowed, call>>

\* The upstream cannot be reached, or answers: the response is a stream.
Connected(r) ==
  /\ peer[r].step = "connect"
  /\ \/ P(r, [peer[r] EXCEPT !.step = "done", !.fin = "fin", !.blocks = 1, !.up = "cut"])
     \/ P(r, [peer[r] EXCEPT !.step = "stream", !.fin = "head"])
  /\ UNCHANGED <<listenVars, count, bytes, allowed, call>>

UpstreamData(r) ==
  /\ peer[r].step = "stream" /\ peer[r].blocks < Blocks
  /\ P(r, [peer[r] EXCEPT !.blocks = @ + 1])
  /\ UNCHANGED <<listenVars, count, bytes, allowed, call>>
UpstreamEnd(r) ==
  /\ peer[r].step = "stream"
  /\ P(r, [peer[r] EXCEPT !.step = "done", !.fin = "fin", !.up = "ended"])
  /\ UNCHANGED <<listenVars, count, bytes, allowed, call>>

\* The upstream's connection breaks in the body: writer.abort.
abortUpstream(r) == P(r, [peer[r] EXCEPT !.step = "aborted", !.fin = "reset", !.up = "cut"])
UpstreamBroken(r) ==
  /\ peer[r].step = "stream"
  /\ abortUpstream(r)
  /\ UNCHANGED <<listenVars, count, bytes, allowed, call>>

Allow(b) ==
  /\ allowed # b /\ allowed' = b
  /\ UNCHANGED <<listenVars, count, bytes, call, peer>>

OrderSteps(o) ==
  \/ Listen(o) \/ StartIfRunning(o) \/ Erase(o) \/ SaveOff(o) \/ Disposed(o) \/ Drained(o)
ListenNext ==
  \E o \in Orders :
    \/ addMapping(o) \/ removeMapping(o) \/ setMappingEnabled(o, TRUE) \/ setMappingEnabled(o, FALSE)
    \/ startEnabledMappings(o) \/ stopAll(o) \/ OrderSteps(o)
CallSteps(r) == BodyRead(r) \/ Resolve(r) \/ ResponseHead(r) \/ Pump(r) \/ Check(r)
CallNext ==
  \/ \E r \in Calls :
       \/ \E known \in BOOLEAN, size \in 0..(Limit + 1) : handle(r, known, size)
       \/ CallSteps(r) \/ LocalGone(r) \/ SessionLost(r)
       \/ Connected(r) \/ UpstreamData(r) \/ UpstreamEnd(r) \/ UpstreamBroken(r)
  \/ \E o \in Orders : stopAll(o) \/ Drained(o) \/ Disposed(o)
  \/ Allow(TRUE) \/ Allow(FALSE)

\* Awaits return; the upstream of a request need never answer.
PortsFairness == \A r \in Calls : WF_portsVars(CallSteps(r))

-----------------------------------------------------------------------------
\* No transfer that broke looks like a whole answer: the browser sees a clean
\* end only of a body whose last block it has and whose end the upstream, or
\* the handler itself, marked; whatever broke between.
CleanEnd == \A r \in Calls : call[r].out = "complete" =>
              call[r].seen = peer[r].blocks /\ peer[r].fin = "fin" /\ peer[r].up # "open"

\* The budget is what the running requests hold and never above the limit,
\* although a request of unknown length enters as nothing.
HeldBytes == {h \in Calls \X (1..Limit) : h[2] <= call[h[1]].ticket}
BudgetExact == /\ count = Cardinality(InFlight) /\ count <= MaxCount
               /\ bytes = Cardinality(HeldBytes) /\ bytes <= MaxBytes

\* A browser that leaves while the peer works frees the peer's upstream and
\* this side's ticket, even when the upstream never answers.
CancelConverges == \A r \in Calls : call[r].gone = "late" ~> call[r].step = "idle" /\ peer[r].up # "open"

\* The same of a browser that left before the request was sent.
GoneConverges == \A r \in Calls : call[r].gone = "early" ~> call[r].step = "idle"

\* Between management calls nothing listens but the listener the runtime can
\* stop, and only for a mapping that is enabled in an enabled plugin.
ListensAsSaid ==
  (\A o \in Orders : order[o] = NoOrder) =>
    \A s \in Servers : socket[s] => s = server /\ entry = "on" /\ running

\* Bodies, budget and listeners are what they are said to be (proxy.mjs,
\* runtime.mjs of the ports plugin).
PortsHold == CleanEnd /\ BudgetExact /\ ListensAsSaid
=============================================================================
