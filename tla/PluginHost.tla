----------------------------- MODULE PluginHost -----------------------------
(***************************************************************************)
(* The web console's plugin host: enabling, disabling and configuring the  *)
(* built-in plugins, the drain of what runs through them, the ledger that  *)
(* survives a restart.  packages/webui/src/core/plugins/host.mjs,          *)
(* state.mjs; the calls come from sidecar.mjs (handlePlugins, close).      *)
(***************************************************************************)
EXTENDS Naturals, FiniteSets

CONSTANTS Plugins,    \* the built-in plugins
          Callers,    \* /sidecar/plugins requests in progress
          Activities, \* wire requests that run through a plugin
          MaxRestarts \* bound: crashes and restarts of the sidecar

VARIABLES
  status,    \* entry.status: registered, enabled, disabled
  ledger,    \* the plugin's record in state.json ("none": no record)
  running,   \* the runtime's onEnable has run and onDispose has not
  disposed,  \* entry.disposed
  busy,      \* entry.mutationInFlight
  inflight,  \* entry.inflight, per plugin a set of activities
  cancelled, \* activities whose cancel() was called
  call,      \* what each request awaits: [op, step, plugin, as]
  closing,   \* host.close: the plugins still to visit; NotClosing before
  drain,     \* plugins whose drain has a deadline ahead: running, passed
  restarts

pluginVars == <<status, ledger, running, disposed, busy, inflight, cancelled, call, closing, drain, restarts>>
entryVars == <<status, running, disposed, busy>>
activityVars == <<inflight, cancelled>>

NotClosing == [on |-> FALSE, left |-> {}]
NoCall == [op |-> "idle", step |-> "idle", plugin |-> "none", as |-> "none"]
InCall(c, op, step) == call[c].op = op /\ call[c].step = step
Of(c) == call[c].plugin
Step(c, step, as) == call' = [call EXCEPT ![c].step = step, ![c].as = as]
Return(c) == call' = [call EXCEPT ![c] = NoCall] /\ busy' = [busy EXCEPT ![Of(c)] = FALSE]

\* createPluginHost: the status comes from the ledger, and an enabled plugin
\* gets its runtime effects back; a failing onEnable is only recorded.
Restored(p) == IF ledger[p] \in {"enabled", "disabled"} THEN ledger[p] ELSE "registered"
restore(up) ==
  /\ status' = [p \in Plugins |-> Restored(p)]
  /\ running' = [p \in Plugins |-> Restored(p) = "enabled" /\ p \in up]
  /\ disposed' = [p \in Plugins |-> FALSE]
  /\ busy' = [p \in Plugins |-> FALSE]
  /\ inflight' = [p \in Plugins |-> {}]
  /\ cancelled' = {}
  /\ call' = [c \in Callers |-> NoCall]
  /\ closing' = NotClosing
  /\ drain' = [p \in Plugins |-> "none"]

PluginInit ==
  /\ status = [p \in Plugins |-> "registered"]
  /\ ledger = [p \in Plugins |-> "none"]
  /\ running = [p \in Plugins |-> FALSE]
  /\ disposed = [p \in Plugins |-> FALSE]
  /\ busy = [p \in Plugins |-> FALSE]
  /\ inflight = [p \in Plugins |-> {}]
  /\ cancelled = {}
  /\ call = [c \in Callers |-> NoCall]
  /\ closing = NotClosing
  /\ drain = [p \in Plugins |-> "none"]
  /\ restarts = 0

(***************************************************************************)
(* beginActivity and the handle's end().                                   *)
(***************************************************************************)
isAccepting(p) == status[p] = "enabled"
beginActivity(p, a) ==
  /\ isAccepting(p)
  /\ a \notin cancelled /\ \A q \in Plugins : a \notin inflight[q]
  /\ inflight' = [inflight EXCEPT ![p] = @ \cup {a}]
  /\ UNCHANGED <<entryVars, ledger, cancelled, call, closing, drain, restarts>>

endActivity(p, a) ==
  /\ a \in inflight[p]
  /\ inflight' = [inflight EXCEPT ![p] = @ \ {a}]
  /\ UNCHANGED <<entryVars, ledger, cancelled, call, closing, drain, restarts>>

(***************************************************************************)
(* enable: persist, data directory, onEnable, and only then the status.    *)
(***************************************************************************)
Begins(c, op, p, step, as) ==
  /\ call[c] = NoCall /\ ~busy[p]
  /\ busy' = [busy EXCEPT ![p] = TRUE]
  /\ call' = [call EXCEPT ![c] = [op |-> op, step |-> step, plugin |-> p, as |-> as]]

enable(c, p) ==
  /\ status[p] # "enabled"
  /\ Begins(c, "enable", p, "persist", "enabled")
  /\ UNCHANGED <<status, running, disposed, ledger, activityVars, closing, drain, restarts>>

\* A persist of call[c].as: written, or refused (the lock, the disk).
Persists(c) == ledger' = [ledger EXCEPT ![Of(c)] = call[c].as]
MutRefused(c) == Step(c, "dir", "none") /\ UNCHANGED busy
Refused(c) == Return(c)
EnablePersisted(c) ==
  /\ InCall(c, "enable", "persist")
  /\ \/ Refused(c) /\ UNCHANGED ledger
     \/ Persists(c) /\ Step(c, "dir", "none") /\ UNCHANGED busy
  /\ UNCHANGED <<status, running, disposed, activityVars, closing, drain, restarts>>

\* ensurePluginDataDir throws out of enable, past the rollback, or succeeds.
EnableDir(c) ==
  /\ InCall(c, "enable", "dir")
  /\ Return(c) \/ (Step(c, "hook", "none") /\ UNCHANGED busy)
  /\ UNCHANGED <<status, running, disposed, ledger, activityVars, closing, drain, restarts>>

\* onEnable failed: the ledger is to be rolled back; or the plugin is on.
Enabled(c) ==
  /\ disposed' = [disposed EXCEPT ![Of(c)] = FALSE]
  /\ status' = [status EXCEPT ![Of(c)] = "enabled"]
EnableHooked(c) ==
  /\ InCall(c, "enable", "hook")
  /\ \/ Step(c, "rollback", status[Of(c)]) /\ UNCHANGED <<status, disposed, busy, running>>
     \/ Enabled(c) /\ Return(c) /\ running' = [running EXCEPT ![Of(c)] = TRUE]
  /\ UNCHANGED <<ledger, activityVars, closing, drain, restarts>>

EnableRolledBack(c) ==
  /\ InCall(c, "enable", "rollback")
  /\ Persists(c) \/ UNCHANGED ledger
  /\ Return(c)
  /\ UNCHANGED <<status, running, disposed, activityVars, closing, drain, restarts>>

(***************************************************************************)
(* disable: shut the gate, drain with a deadline, dispose, persist.        *)
(***************************************************************************)
disable(c, p) ==
  /\ status[p] = "enabled"
  /\ Begins(c, "disable", p, "drain", "none")
  /\ status' = [status EXCEPT ![p] = "disabled"]
  /\ drain' = [drain EXCEPT ![p] = "running"]
  /\ UNCHANGED <<running, disposed, ledger, activityVars, closing, restarts>>

DeadlinePasses(p) ==
  /\ drain[p] = "running"
  /\ drain' = [drain EXCEPT ![p] = "passed"]
  /\ UNCHANGED <<entryVars, ledger, activityVars, call, closing, restarts>>

\* The poll sees nothing in flight, or the deadline passed and all of it is
\* cancelled and given a grace period.
MutLate(p) == FALSE
Late(p) == drain[p] = "passed"
MutDrained(p) == (inflight[p] = {} \/ Late(p)) /\ UNCHANGED cancelled
Drained(p) ==
  \/ inflight[p] = {} /\ UNCHANGED cancelled
  \/ inflight[p] # {} /\ Late(p) /\ cancelled' = cancelled \cup inflight[p]
DrainEnds(c) ==
  /\ InCall(c, "disable", "drain") /\ Drained(Of(c))
  /\ drain' = [drain EXCEPT ![Of(c)] = "none"]
  /\ Step(c, "dispose", "none")
  /\ UNCHANGED <<entryVars, ledger, inflight, closing, restarts>>

Dispose(p) ==
  IF disposed[p] THEN UNCHANGED <<disposed, running>>
  ELSE disposed' = [disposed EXCEPT ![p] = TRUE] /\ running' = [running EXCEPT ![p] = FALSE]
DisableDisposes(c) ==
  /\ InCall(c, "disable", "dispose")
  /\ Dispose(Of(c))
  /\ Step(c, "persist", "disabled")
  /\ UNCHANGED <<status, busy, ledger, activityVars, closing, drain, restarts>>

DisablePersisted(c) ==
  /\ InCall(c, "disable", "persist")
  /\ Persists(c) \/ UNCHANGED ledger
  /\ Return(c)
  /\ UNCHANGED <<status, running, disposed, activityVars, closing, drain, restarts>>

(***************************************************************************)
(* setConfig: the record is rewritten with the status of the moment.       *)
(***************************************************************************)
setConfig(c, p) ==
  /\ Begins(c, "config", p, "persist", status[p])
  /\ UNCHANGED <<status, running, disposed, ledger, activityVars, closing, drain, restarts>>

ConfigPersisted(c) ==
  /\ InCall(c, "config", "persist")
  /\ Persists(c) \/ UNCHANGED ledger
  /\ Return(c)
  /\ UNCHANGED <<status, running, disposed, activityVars, closing, drain, restarts>>

(***************************************************************************)
(* close: the plugins in turn, without the busy mark and the ledger.       *)
(***************************************************************************)
close ==
  /\ ~closing.on
  /\ closing' = [on |-> TRUE, left |-> Plugins]
  /\ UNCHANGED <<entryVars, ledger, activityVars, call, drain, restarts>>

CloseVisits(p) ==
  /\ closing.on /\ p \in closing.left /\ \A q \in Plugins : drain[q] # "closing"
  /\ IF status[p] # "enabled"
     THEN closing' = [closing EXCEPT !.left = @ \ {p}] /\ UNCHANGED <<status, drain>>
     ELSE /\ status' = [status EXCEPT ![p] = "disabled"]
          /\ drain' = [drain EXCEPT ![p] = "closing"]
          /\ UNCHANGED closing
  /\ UNCHANGED <<running, disposed, busy, ledger, activityVars, call, restarts>>

CloseDisposes(p) ==
  /\ drain[p] = "closing"
  /\ cancelled' = cancelled \cup inflight[p]
  /\ Dispose(p)
  /\ drain' = [drain EXCEPT ![p] = "none"]
  /\ closing' = [closing EXCEPT !.left = @ \ {p}]
  /\ UNCHANGED <<status, busy, ledger, inflight, call, restarts>>

\* The process ends (after close, or in the middle of anything) and the next
\* one restores the plugins; up are those whose onEnable succeeds then.
Reborn ==
  /\ restarts < MaxRestarts
  /\ restarts' = restarts + 1
  /\ \E up \in SUBSET Plugins : restore(up)
  /\ UNCHANGED ledger

CallSteps(c) ==
  \/ EnablePersisted(c) \/ EnableDir(c) \/ EnableHooked(c) \/ EnableRolledBack(c)
  \/ DrainEnds(c) \/ DisableDisposes(c) \/ DisablePersisted(c) \/ ConfigPersisted(c)
PluginNext ==
  \/ \E p \in Plugins, a \in Activities : beginActivity(p, a) \/ endActivity(p, a)
  \/ \E c \in Callers, p \in Plugins : enable(c, p) \/ disable(c, p) \/ setConfig(c, p)
  \/ \E c \in Callers : CallSteps(c)
  \/ \E p \in Plugins : DeadlinePasses(p) \/ CloseVisits(p) \/ CloseDisposes(p)
  \/ close \/ Reborn

\* The event loop runs what is due: awaits return and timers fire.
PluginFairness ==
  /\ \A c \in Callers : WF_pluginVars(CallSteps(c))
  /\ \A p \in Plugins : WF_pluginVars(DeadlinePasses(p))

-----------------------------------------------------------------------------
\* A runtime is disposed of only when whatever still runs through it was
\* cancelled, and, unless the sidecar closes, only behind a shut gate.
DrainedBeforeDispose ==
  [][\A p \in Plugins : running[p] /\ ~running'[p] /\ restarts' = restarts
       => inflight'[p] \subseteq cancelled' /\ (status'[p] # "enabled" \/ closing.on)]_pluginVars

\* What is on survives a restart: while a plugin serves, the ledger says
\* enabled, whatever configuration writes and rollbacks run beside it.
EnabledIsDurable == \A p \in Plugins : status[p] = "enabled" => ledger[p] = "enabled"

\* Activities that never end do not hold up an order: every mutation is over
\* some day and the plugin takes the next one.
OrdersSettle == \A p \in Plugins : busy[p] ~> ~busy[p]

\* A disabled plugin stays disabled: a restart brings back only what was on.
DisabledStays ==
  [][\A p \in Plugins : restarts' # restarts /\ status[p] = "disabled" /\ ~closing.on /\ ~busy[p]
       => status'[p] = "disabled"]_pluginVars

\* Closing is no order of the user: the ledger of an enabled plugin survives.
CloseKeepsLedger ==
  [][\A p \in Plugins : closing.on /\ ledger[p] = "enabled" => ledger'[p] = "enabled"]_pluginVars
=============================================================================
