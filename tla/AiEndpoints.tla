----------------------------- MODULE AiEndpoints -----------------------------
(***************************************************************************)
(* The AI plugin's runtime on the consumer's side: local endpoints that    *)
(* lead to a provider's services, their ledger, their listeners, and what  *)
(* enabling, disabling and a restart do to them, with requests and orders  *)
(* of the host that overlap.                                               *)
(* packages/opendweb-ext-ai/src/runtime.mjs, consumer/gateway.mjs          *)
(* (startService, close).                                                  *)
(***************************************************************************)
EXTENDS Naturals, Sequences

CONSTANTS Askers,    \* management requests, which overlap
          Wanted,    \* what is asked for: a service of the imported provider, a port
          MaxIds, MaxTasks, MaxTrouble \* bounds: starts; requests and orders;
                                       \* failures and restarts together

Host == "host"       \* the plugin host, which restores and disposes
NoEntry == [id |-> 0, service |-> "none", port |-> 0] \* no entry at hand

VARIABLES
  onDisk,   \* consumer-endpoints.json
  ledger,   \* endpointsLedger.endpoints
  loading,  \* endpointsLoaded, and whether its read is still under way
  open,     \* the servers that listen, each as its entry
  gateway,  \* the provider's gateway: the starts it was given, its listeners,
            \* whether it is stopped
  active,   \* activeListeners: ids
  lastId,
  job,      \* what a request, or the host, is at
  plugin,   \* off, turning, on
  tasks, ioFaults, boots,
  crossed,  \* history: ids that another's step took out of ledger or table
  shared    \* history: two accesses of the file overlapped since the boot

seen == <<crossed, shared>>
aiEndVars == <<onDisk, ledger, loading, open, gateway, active, lastId, job, plugin, tasks, ioFaults, boots, seen>>
runVars == <<plugin, tasks, ioFaults, boots>>

Resting == [op |-> "rest", step |-> "rest", entry |-> NoEntry, id |-> 0, text |-> <<>>, left |-> <<>>]
NewGateway == [starts |-> {}, known |-> {}, stopped |-> FALSE]
AiEndInit ==
  /\ onDisk = <<>> /\ ledger = <<>> /\ loading = "no"
  /\ open = {} /\ gateway = NewGateway /\ active = {}
  /\ lastId = 0
  /\ job = [c \in Askers \cup {Host} |-> Resting]
  /\ plugin = "off"
  /\ tasks = 0 /\ ioFaults = 0 /\ boots = 0
  /\ crossed = {} /\ shared = FALSE

Doing(c, op, step) == job[c].op = op /\ job[c].step = step
MovesTo(c, step) == job' = [job EXCEPT ![c].step = step]
Rest(c) == job' = [job EXCEPT ![c] = Resting]
Listed(entries) == {entries[i] : i \in DOMAIN entries}
IdsOf(entries) == {e.id : e \in Listed(entries)}
Spliced(entries, i) == SubSeq(entries, 1, i - 1) \o SubSeq(entries, i + 1, Len(entries))
Kept(entries, id) == SelectSeq(entries, LAMBDA e : e.id # id)
Butlast(entries) == SubSeq(entries, 1, Len(entries) - 1)
NewEntry(c) == [id |-> job[c].id, service |-> job[c].entry.service, port |-> job[c].entry.port]
Begins == tasks < MaxTasks /\ tasks' = tasks + 1
AtRest == \A c \in DOMAIN job : job[c] = Resting
Fault == ioFaults + boots < MaxTrouble /\ ioFaults' = ioFaults + 1

\* A server that is closed stops to listen at once.  When its last connection
\* is gone its gateway, if still in use, forgets the service.
Deaf(ids) == open' = {l \in open : l.id \notin ids}
Forgets(e) ==
  gateway' = IF e.id \in gateway.starts
               THEN [gateway EXCEPT !.known = {k \in @ : k.service # e.service}] ELSE gateway

AtFile(c) == job[c].step \in {"read", "assign", "save", "write"}
GoesToFile(c) == shared' = (shared \/ \E d \in DOMAIN job \ {c} : AtFile(d))

(***************************************************************************)
(* The ledger is read once; the flag is set before the read, and what was  *)
(* read replaces what the ledger has become.                               *)
(***************************************************************************)
Ask(c) ==
  /\ job[c] = Resting /\ Begins
  /\ \/ \E w \in Wanted :
          job' = [job EXCEPT ![c] = [Resting EXCEPT !.op = "start", !.step = "load",
                                                    !.entry = [id |-> 0, service |-> w.service, port |-> w.port]]]
     \/ \E i \in 1..lastId :
          job' = [job EXCEPT ![c] = [Resting EXCEPT !.op = "stop", !.step = "load", !.id = i]]
  /\ UNCHANGED <<onDisk, ledger, loading, open, gateway, active, lastId, plugin, ioFaults, boots, seen>>
loadEndpoints(c) ==
  /\ job[c].step = "load"
  /\ IF loading = "no" THEN loading' = "reading" /\ MovesTo(c, "read") /\ GoesToFile(c)
                       ELSE UNCHANGED <<loading, shared>> /\ MovesTo(c, "loaded")
  /\ UNCHANGED <<onDisk, ledger, open, gateway, active, lastId, runVars, crossed>>
\* A failed enable leaves what it has opened; the host says off.
EnableFails == plugin' = "off"
Fails(c) ==
  /\ Rest(c)
  /\ IF c = Host THEN EnableFails ELSE UNCHANGED plugin
Reads(c) ==
  /\ job[c].step = "read"
  /\ \/ /\ job' = [job EXCEPT ![c].step = "assign", ![c].text = onDisk]
        /\ UNCHANGED <<loading, plugin, ioFaults>>
     \/ loading' = "yes" /\ Fault /\ Fails(c)
  /\ UNCHANGED <<onDisk, ledger, open, gateway, active, lastId, tasks, boots, seen>>
ReadEnds(c) ==
  /\ job[c].step = "assign"
  /\ loading' = "yes"
  /\ ledger' = job[c].text
  /\ crossed' = crossed \cup (IdsOf(ledger) \ IdsOf(job[c].text))
  /\ job' = [job EXCEPT ![c].step = "loaded", ![c].text = <<>>]
  /\ UNCHANGED <<onDisk, open, gateway, active, lastId, runVars, shared>>

(***************************************************************************)
(* startConsumerEndpoint, for a request or for the host's restore.         *)
(***************************************************************************)
Starting(c) == job[c].op \in {"start", "restore"}
GoesOn(c) == job' = [job EXCEPT ![c] = [Resting EXCEPT !.op = "restore", !.step = "next", !.left = job[c].left]]
\* The restore keeps an entry it could not start; a request fails.
StartFails(c) ==
  IF job[c].op = "restore" THEN /\ ledger' = Append(ledger, job[c].entry)
                                /\ GoesOn(c) /\ UNCHANGED plugin
                           ELSE Fails(c) /\ UNCHANGED ledger
Duplicate(e) == \E d \in Listed(ledger) : d.service = e.service
RunsAlready(e) == \E k \in gateway.known : k.service = e.service
\* The keyring may not know the provider, the service or a key; the gateway
\* may run the service already, or be stopped.
StartChecked(c) ==
  LET e == job[c].entry IN
  /\ Starting(c) /\ job[c].step = IF c = Host THEN "check" ELSE "loaded"
  /\ \/ StartFails(c) /\ UNCHANGED <<gateway, lastId>>
     \/ /\ ~Duplicate(e) /\ ~gateway.stopped /\ ~RunsAlready(e)
        /\ lastId < MaxIds /\ lastId' = lastId + 1
        /\ gateway' = [gateway EXCEPT !.starts = @ \cup {lastId + 1}]
        /\ job' = [job EXCEPT ![c].step = "listen", ![c].id = lastId + 1]
        /\ UNCHANGED <<ledger, plugin>>
  /\ UNCHANGED <<onDisk, loading, open, active, tasks, ioFaults, boots, seen>>
\* The port is free: the gateway keeps the listener, the ledger the entry.
startService(c) ==
  LET e == NewEntry(c) IN
  /\ Starting(c) /\ job[c].step = "listen"
  /\ \A l \in open : l.port # e.port
  /\ open' = open \cup {e}
  /\ gateway' = IF e.id \in gateway.starts
                  THEN [gateway EXCEPT !.known = {k \in @ : k.service # e.service} \cup {e}] ELSE gateway
  /\ ledger' = Append(ledger, e)
  /\ job' = [job EXCEPT ![c].step = "save", ![c].text = Append(ledger, e)]
  /\ GoesToFile(c)
  /\ UNCHANGED <<onDisk, loading, active, lastId, runVars, crossed>>
ListenFails(c) ==
  /\ Starting(c) /\ job[c].step = "listen"
  /\ StartFails(c)
  /\ UNCHANGED <<onDisk, loading, open, gateway, active, lastId, tasks, ioFaults, boots, seen>>
StartSaved(c) ==
  /\ Starting(c) /\ job[c].step = "save"
  /\ onDisk' = job[c].text
  /\ job' = [job EXCEPT ![c].step = "saved", ![c].text = <<>>]
  /\ UNCHANGED <<ledger, loading, open, gateway, active, lastId, runVars, seen>>
Registers(c) ==
  /\ Starting(c) /\ job[c].step = "saved"
  /\ active' = active \cup {job[c].id}
  /\ IF job[c].op = "restore" THEN GoesOn(c) ELSE Rest(c)
  /\ UNCHANGED <<onDisk, ledger, loading, open, gateway, lastId, runVars, seen>>
\* The ledger was not written: its last entry is taken out again, whosever it
\* is, and the listener closed, so that no port stays taken.
MutClosed(c) == UNCHANGED open
Closed(c) == Deaf({job[c].id})
StartUnsaved(c) ==
  /\ Starting(c) /\ job[c].step = "save"
  /\ Fault
  /\ ledger' = Butlast(ledger)
  /\ crossed' = crossed \cup (IdsOf(ledger) \ (IdsOf(Butlast(ledger)) \cup {job[c].id}))
  /\ Closed(c) /\ job' = [job EXCEPT ![c].step = "unlisten", ![c].text = <<>>]
  /\ UNCHANGED <<onDisk, loading, gateway, active, lastId, plugin, tasks, boots, shared>>
ListenerShut(c) ==
  /\ Starting(c) /\ job[c].step = "unlisten"
  /\ Forgets(NewEntry(c)) /\ StartFails(c)
  /\ UNCHANGED <<onDisk, loading, open, active, lastId, tasks, ioFaults, boots, seen>>

(***************************************************************************)
(* stopConsumerEndpoint: out of the ledger, closed, saved.  Until its save *)
(* is over a start is in the ledger and not in the table.                  *)
(***************************************************************************)
MutDelisted(id) == UNCHANGED open /\ active' = active \ {id}
Delisted(id) == Deaf({id} \cap active) /\ active' = active \ {id}
BeingStarted(id) == \E d \in DOMAIN job : Starting(d) /\ job[d].id = id /\ job[d].step \in {"save", "saved", "unlisten"}
stopConsumerEndpoint(c) ==
  LET id == job[c].id IN
  /\ Doing(c, "stop", "loaded")
  /\ \/ /\ id \notin IdsOf(ledger) /\ Rest(c)
        /\ UNCHANGED <<ledger, open, active, seen>>
     \/ \E i \in DOMAIN ledger :
          /\ ledger[i].id = id /\ \A k \in 1..(i - 1) : ledger[k].id # id
          /\ ledger' = Spliced(ledger, i) /\ Delisted(id)
          /\ IF id \in active
               THEN job' = [job EXCEPT ![c].step = "close", ![c].entry = ledger[i]] /\ UNCHANGED shared
               ELSE job' = [job EXCEPT ![c].step = "write", ![c].text = Spliced(ledger, i)] /\ GoesToFile(c)
          /\ crossed' = IF BeingStarted(id) THEN crossed \cup {id} ELSE crossed
  /\ UNCHANGED <<onDisk, loading, gateway, lastId, runVars>>
StopClosed(c) ==
  /\ Doing(c, "stop", "close")
  /\ Forgets(job[c].entry)
  /\ job' = [job EXCEPT ![c].step = "write", ![c].text = ledger]
  /\ GoesToFile(c)
  /\ UNCHANGED <<onDisk, ledger, loading, open, active, lastId, runVars, crossed>>
StopSaved(c) ==
  /\ Doing(c, "stop", "write")
  /\ \/ onDisk' = job[c].text /\ UNCHANGED ioFaults
     \/ Fault /\ UNCHANGED onDisk
  /\ Rest(c)
  /\ UNCHANGED <<ledger, loading, open, gateway, active, lastId, plugin, tasks, boots, seen>>

(***************************************************************************)
(* onEnable: every entry of the ledger is taken out and started again.     *)
(***************************************************************************)
Enables ==
  /\ plugin = "off" /\ job[Host] = Resting /\ Begins
  /\ plugin' = "turning"
  /\ job' = [job EXCEPT ![Host] = [Resting EXCEPT !.op = "restore", !.step = "load"]]
  /\ UNCHANGED <<onDisk, ledger, loading, open, gateway, active, lastId, ioFaults, boots, seen>>
RestoreBegins ==
  /\ Doing(Host, "restore", "loaded")
  /\ job' = [job EXCEPT ![Host].step = "next", ![Host].left = ledger]
  /\ UNCHANGED <<onDisk, ledger, loading, open, gateway, active, lastId, runVars, seen>>
restoreConsumerEndpoints ==
  /\ Doing(Host, "restore", "next")
  /\ IF job[Host].left = <<>>
       THEN /\ job' = [job EXCEPT ![Host].step = "write", ![Host].text = ledger]
            /\ GoesToFile(Host) /\ UNCHANGED ledger
       ELSE LET e == Head(job[Host].left) IN
            /\ ledger' = Kept(ledger, e.id)
            /\ job' = [job EXCEPT ![Host].step = "check", ![Host].left = Tail(@), ![Host].entry = e]
            /\ UNCHANGED shared
  /\ UNCHANGED <<onDisk, loading, open, gateway, active, lastId, runVars, crossed>>
RestoreSaved ==
  /\ Doing(Host, "restore", "write")
  /\ \/ onDisk' = job[Host].text /\ plugin' = "on" /\ Rest(Host) /\ UNCHANGED ioFaults
     \/ Fault /\ Fails(Host) /\ UNCHANGED onDisk
  /\ UNCHANGED <<ledger, loading, open, gateway, active, lastId, tasks, boots, seen>>

(***************************************************************************)
(* onDispose: the listeners of the table, then those the gateway has, then *)
(* the gateway is let go.  A listener of a start that is still being saved *)
(* is closed with the gateway, and registered all the same.                *)
(***************************************************************************)
closeConsumerEndpoints ==
  /\ plugin = "on" /\ job[Host] = Resting /\ Begins
  /\ Deaf(active) /\ active' = {}
  /\ plugin' = "turning"
  /\ job' = [job EXCEPT ![Host] = [Resting EXCEPT !.op = "dispose", !.step = "close"]]
  /\ UNCHANGED <<onDisk, ledger, loading, gateway, lastId, ioFaults, boots, seen>>
GatewayCloses ==
  LET ids == {k.id : k \in gateway.known} IN
  /\ Doing(Host, "dispose", "close")
  /\ Deaf(ids) /\ crossed' = crossed \cup ids
  /\ gateway' = [gateway EXCEPT !.known = {}, !.stopped = TRUE]
  /\ MovesTo(Host, "clear")
  /\ UNCHANGED <<onDisk, ledger, loading, active, lastId, runVars, shared>>
Disposed ==
  /\ Doing(Host, "dispose", "clear")
  /\ gateway' = NewGateway
  /\ plugin' = "off" /\ Rest(Host)
  /\ UNCHANGED <<onDisk, ledger, loading, open, active, lastId, tasks, ioFaults, boots, seen>>

\* The sidecar ends at any point and starts again; an enabled plugin is
\* enabled again.
Reboot ==
  /\ ioFaults + boots < MaxTrouble
  /\ ledger' = <<>> /\ loading' = "no" /\ open' = {} /\ gateway' = NewGateway /\ active' = {}
  /\ job' = [c \in Askers \cup {Host} |->
               IF c = Host /\ plugin # "off" THEN [Resting EXCEPT !.op = "restore", !.step = "load"] ELSE Resting]
  /\ plugin' = IF plugin = "off" THEN "off" ELSE "turning"
  /\ boots' = boots + 1
  /\ crossed' = {} /\ shared' = FALSE
  /\ UNCHANGED <<onDisk, lastId, tasks, ioFaults>>

Asker(c) ==
  \/ loadEndpoints(c) \/ Reads(c) \/ ReadEnds(c)
  \/ StartChecked(c) \/ startService(c) \/ ListenFails(c) \/ StartSaved(c) \/ Registers(c)
  \/ StartUnsaved(c) \/ ListenerShut(c)
HostActs ==
  \/ Enables \/ RestoreBegins \/ restoreConsumerEndpoints \/ RestoreSaved
  \/ closeConsumerEndpoints \/ GatewayCloses \/ Disposed
AiEndNext ==
  \/ \E c \in Askers \cup {Host} : Asker(c)
  \/ \E c \in Askers : Ask(c) \/ stopConsumerEndpoint(c) \/ StopClosed(c) \/ StopSaved(c)
  \/ HostActs \/ Reboot

AiEndSpec == AiEndInit /\ [][AiEndNext]_aiEndVars

(***************************************************************************)
(* Properties.                                                             *)
(***************************************************************************)
\* However starts, stops, the restore and a disposal overlap, and whatever
\* fails: a server that listens is in the table, whose handles the next
\* disposal closes, or a start is still at work that will put it there or
\* close it.  No port stays taken that only the end of the process frees
\* (runtime.mjs:379-380).
NoPortLost ==
  \A l \in open :
    l.id \in active \/ \E c \in DOMAIN job : Starting(c) /\ NewEntry(c) = l /\ job[c].step \in {"save", "saved"}

\* With nobody at work a listener is open exactly for the entries the page
\* shows as listening, but for those a crossing took away: a stop that came
\* before the start was registered, a failed save that took out another's
\* entry, a read of the file that ended late, a gateway closed under a start.
OpenIsListed ==
  AtRest =>
    /\ \A l \in open : l.id \in crossed \/ (l \in Listed(ledger) /\ l.id \in active)
    /\ \A e \in Listed(ledger) : e.id \in active \ crossed => e \in open

\* What the ledger holds at rest is what a restart would read, if no access of
\* the file failed and no two of them overlapped.
NothingUnsaved ==
  AtRest /\ ioFaults = 0 /\ loading = "yes" /\ ~shared => Listed(ledger) = Listed(onDisk)

\* Both: listeners, ledger and file agree whenever nobody is at work.
EndpointsHold == OpenIsListed /\ NothingUnsaved

\* Refuted by TLC (README): the agreement without the exceptions for overlap,
\* and that no listener is open while the plugin is off
\* (openspec/specs/webui/spec.md, the scenario of a plugin's end).
AlwaysListed == AtRest => \A l \in open : l \in Listed(ledger) /\ l.id \in active
SavedDespiteOverlap == AtRest /\ ioFaults = 0 /\ loading = "yes" => Listed(ledger) = Listed(onDisk)
ClosedWhenOff == AtRest /\ plugin = "off" => open = {}
=============================================================================
