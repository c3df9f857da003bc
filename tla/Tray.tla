-------------------------------- MODULE Tray --------------------------------
(***************************************************************************)
(* The headless tray: packages/tray/src (controller.mjs, heartbeat.mjs,    *)
(* hub-side.mjs, ipc.mjs).  A timer writes the status file every second,   *)
(* another asks the hub for its pending knocks every three; the console    *)
(* pushes such numbers too; a shell asks for actions over stdin.  Timers   *)
(* do not wait for their last call: Ticks and Polls are the calls that may *)
(* be in progress at once.                                                 *)
(***************************************************************************)
EXTENDS Integers

CONSTANTS Ticks, Polls, \* calls of the two timers
          Frames,       \* lines the shell sends
          MaxKnocks,    \* bound on the hub's pending knocks
          MaxHub,       \* bound: how often the hub changes
          MaxTrayFaults \* bound: answers that fail, commands that are killed

VARIABLES
  hub, pending, hubChanges, \* the hub: "unconfigured", "down", "up"; its knocks
  knocks,       \* what the heartbeat takes for them
  tick, poll,   \* timer call -> where it is and what it has read
  status, last, \* the status file; the last snapshot
  pushed,       \* the knock-pending event on its way (-1: none)
  up,           \* "running", "stopping", "stopped"
  input,        \* stdin: "open" or "ended"
  frame,        \* line -> "unsent", "dispatched", "ok", "error", "lost"
  cli,          \* line -> its hub command: "none", "run", or how it ended
  trayFaults

hubVars == <<hub, pending, hubChanges>>
beatVars == <<knocks, tick, poll, status, last, pushed>>
ipcVars == <<input, frame, cli>>
trayVars == <<hubVars, beatVars, ipcVars, up, trayFaults>>

States == {"error", "knock", "running", "unconfigured"}
Snap(state, n) == [state |-> state, knocks |-> n]
NoPoll == [step |-> "rest", n |-> 0]
Resting == [step |-> "rest", side |-> "none", snap |-> Snap("none", 0)]

\* computeSnapshot: error before knock before running; no file, no state.
computeSnapshot(side, alive, n) ==
  IF side = "unconfigured" THEN Snap("unconfigured", 0)
  ELSE IF ~alive THEN Snap("error", 0)
  ELSE Snap(IF n > 0 THEN "knock" ELSE "running", n)

TrayInit ==
  /\ hub \in {"unconfigured", "down", "up"} /\ pending = 0 /\ hubChanges = 0
  /\ knocks = 0 /\ tick = [t \in Ticks |-> Resting] /\ poll = [p \in Polls |-> NoPoll]
  /\ status = computeSnapshot(hub, hub = "up", 0) /\ last = status /\ pushed = -1
  /\ up = "running" /\ input = "open"
  /\ frame = [f \in Frames |-> "unsent"] /\ cli = [f \in Frames |-> "none"]
  /\ trayFaults = 0

TrayFault == trayFaults < MaxTrayFaults /\ trayFaults' = trayFaults + 1

\* The hub, by itself or by a command: configured, started, stopped; callers
\* knock and are let in.  Its console tells of a knock, some time.
HubChanges ==
  /\ hubChanges < MaxHub /\ hubChanges' = hubChanges + 1
  /\ \/ hub' \in {"down", "up"} \ {hub} /\ pending' = 0 /\ UNCHANGED pushed
     \/ hub = "up" /\ pending' \in 0..MaxKnocks \ {pending} /\ UNCHANGED hub
          /\ pushed' \in {pushed, pending'}
  /\ UNCHANGED <<knocks, tick, poll, status, last, up, ipcVars, trayFaults>>

(***************************************************************************)
(* heartbeat.mjs                                                           *)
(***************************************************************************)
\* readHubSide: what the files say.
TickStarts(t) ==
  /\ up = "running" /\ tick[t].step = "rest"
  /\ tick' = [tick EXCEPT ![t].step = "read", ![t].side = hub]
  /\ UNCHANGED <<hubVars, knocks, poll, status, last, pushed, up, ipcVars, trayFaults>>
\* The number of a hub that is gone is forgotten.
ForgetKnocks(alive) == IF alive THEN knocks ELSE 0
\* tick: whether the process lives is asked now.
Snapshot(t) ==
  LET alive == tick[t].side = "up" /\ hub = "up"
  IN /\ tick[t].step = "read"
     /\ knocks' = ForgetKnocks(alive)
     /\ tick' = [tick EXCEPT ![t].step = "write", ![t].snap = computeSnapshot(tick[t].side, alive, knocks')]
     /\ UNCHANGED <<hubVars, poll, status, last, pushed, up, ipcVars, trayFaults>>
\* atomicWrite0600: the rename; also of a tick a stop did not wait for.
Written(t) ==
  /\ tick[t].step = "write"
  /\ tick' = [tick EXCEPT ![t] = Resting]
  /\ \/ status' = tick[t].snap /\ last' = tick[t].snap /\ UNCHANGED trayFaults
     \/ TrayFault /\ UNCHANGED <<status, last>>
  /\ UNCHANGED <<hubVars, knocks, poll, pushed, up, ipcVars>>

\* poll: only a configured hub that lives is asked; its answer counts when
\* it comes, whatever has become of the hub.
PollMoves(p, step, n) == poll' = [poll EXCEPT ![p] = [step |-> step, n |-> n]]
PollStarts(p) ==
  /\ up = "running" /\ poll[p].step = "rest" /\ hub = "up"
  /\ PollMoves(p, "asked", 0)
  /\ UNCHANGED <<hubVars, knocks, tick, status, last, pushed, up, ipcVars, trayFaults>>
HubAnswers(p) ==
  /\ poll[p].step = "asked" /\ hub = "up"
  /\ PollMoves(p, "answer", pending)
  /\ UNCHANGED <<hubVars, knocks, tick, status, last, pushed, up, ipcVars, trayFaults>>
\* No answer within two seconds, or none that can be used.
NoAnswer(p) ==
  /\ poll[p].step = "asked" /\ IF hub = "up" THEN TrayFault ELSE UNCHANGED trayFaults
  /\ PollMoves(p, "rest", 0)
  /\ UNCHANGED <<hubVars, knocks, tick, status, last, pushed, up, ipcVars>>
\* Mutant: an answer that says nobody waits is not taken.
MutTaken(n) == IF n = 0 THEN knocks ELSE n
Taken(n) == n
PollDone(p) ==
  /\ poll[p].step = "answer" /\ PollMoves(p, "rest", 0)
  /\ knocks' = Taken(poll[p].n)
  /\ UNCHANGED <<hubVars, tick, status, last, pushed, up, ipcVars, trayFaults>>
\* noteKnocks: the console's event.
noteKnocks ==
  /\ pushed >= 0 /\ up = "running"
  /\ knocks' = pushed /\ pushed' = -1
  /\ UNCHANGED <<hubVars, tick, poll, status, last, up, ipcVars, trayFaults>>

(***************************************************************************)
(* ipc.mjs and the controller                                              *)
(***************************************************************************)
\* Every line is handled by itself, as soon as it is read.
Sent(f) ==
  /\ input = "open" /\ up = "running" /\ frame[f] = "unsent"
  /\ frame' = [frame EXCEPT ![f] = "dispatched"]
  /\ UNCHANGED <<hubVars, beatVars, up, input, cli, trayFaults>>
\* Mutant: the answer to a line read before one that was answered is dropped.
MutAnswer(f, with) ==
  IF input = "ended" \/ \E g \in Frames \ {f} : frame[g] \in {"ok", "error"} THEN "lost" ELSE with
\* writeLine: nothing is written once the input has ended.
Answer(f, with) == IF input = "ended" THEN "lost" ELSE with
\* handleFrame: a line that is no request, too long or of no method, and
\* open-console, are answered at once.
AtOnce(f) ==
  /\ frame[f] = "dispatched" /\ cli[f] = "none"
  /\ \E with \in {"ok", "error"} : frame' = [frame EXCEPT ![f] = Answer(f, with)]
  /\ UNCHANGED <<hubVars, beatVars, up, input, cli, trayFaults>>
\* hubAction, runHubCommand: start, stop and set-autostart are commands of
\* their own; two may run side by side.
hubAction(f) ==
  /\ frame[f] = "dispatched" /\ cli[f] = "none"
  /\ cli' = [cli EXCEPT ![f] = "run"]
  /\ UNCHANGED <<hubVars, beatVars, up, input, frame, trayFaults>>
\* The command ends with 0 or another code; or a signal ends it; or it is
\* killed after thirty seconds.
CliEnds(f) ==
  /\ cli[f] = "run"
  /\ \E how \in {"zero", "code", "signal", "timeout"} :
       /\ IF how \in {"signal", "timeout"} THEN TrayFault ELSE UNCHANGED trayFaults
       /\ cli' = [cli EXCEPT ![f] = how]
  /\ UNCHANGED <<hubVars, beatVars, up, input, frame>>
\* A command a signal has ended counts as one that ended well.
Code(how) == IF how \in {"zero", "signal"} THEN "ok" ELSE "error"
CliTold(f) ==
  /\ frame[f] = "dispatched" /\ cli[f] \in {"zero", "code", "signal", "timeout"}
  /\ frame' = [frame EXCEPT ![f] = Answer(f, Code(cli[f]))]
  /\ UNCHANGED <<hubVars, beatVars, up, input, cli, trayFaults>>

\* The input ends or the shell is gone, or a signal comes: the timers stop,
\* the listeners go, the input is destroyed, the console is closed.
InputEnds ==
  /\ input = "open" /\ input' = "ended"
  /\ UNCHANGED <<hubVars, beatVars, up, frame, cli, trayFaults>>
Stops == input = "ended"
stop ==
  /\ up = "running" /\ Stops
  /\ up' = "stopping" /\ pushed' = -1
  /\ UNCHANGED <<hubVars, knocks, tick, poll, status, last, ipcVars, trayFaults>>
Signal ==
  /\ up = "running" /\ TrayFault
  /\ up' = "stopping" /\ pushed' = -1 /\ input' = "ended"
  /\ UNCHANGED <<hubVars, knocks, tick, poll, status, last, frame, cli>>
ConsoleClosed ==
  /\ up = "stopping" /\ up' = "stopped"
  /\ UNCHANGED <<hubVars, beatVars, ipcVars, trayFaults>>

Ends == InputEnds \/ stop \/ Signal \/ ConsoleClosed
BeatNext ==
  \/ HubChanges \/ noteKnocks \/ Ends
  \/ \E t \in Ticks : TickStarts(t) \/ Snapshot(t) \/ Written(t)
  \/ \E p \in Polls : PollStarts(p) \/ HubAnswers(p) \/ NoAnswer(p) \/ PollDone(p)
IpcNext ==
  \/ Ends
  \/ \E f \in Frames : Sent(f) \/ AtOnce(f) \/ hubAction(f) \/ CliEnds(f) \/ CliTold(f)

\* What was begun goes on, a command ends.  (That the timers go off is said
\* where it is known that there are any.)
TrayFairness ==
  /\ \A t \in Ticks : WF_trayVars(Snapshot(t)) /\ WF_trayVars(Written(t))
  /\ \A p \in Polls : WF_trayVars(HubAnswers(p) \/ NoAnswer(p)) /\ WF_trayVars(PollDone(p))
  /\ \A f \in Frames : WF_trayVars(AtOnce(f) \/ hubAction(f)) /\ WF_trayVars(CliEnds(f)) /\ WF_trayVars(CliTold(f))
  /\ WF_trayVars(noteKnocks) /\ WF_trayVars(stop) /\ WF_trayVars(ConsoleClosed)

(***************************************************************************)
(* Properties.                                                             *)
(***************************************************************************)
\* The status file comes to say what the hub is and how many wait, however
\* ticks, polls and events overtook one another, unless the tray is stopped.
StatusTells == <>[](up # "running" \/ status = computeSnapshot(hub, hub = "up", pending))
\* Every line read is answered once its command is over, or the session has
\* ended; and a tray whose input has ended comes to its end.
TrayAnswers ==
  /\ \A f \in Frames : (frame[f] = "dispatched") ~> (frame[f] \in {"ok", "error"} \/ input = "ended")
  /\ (input = "ended") ~> (up = "stopped")

\* Refuted by TLC (README): "ok" tells that the hub's command ended well.
OkMeansDone == \A f \in Frames : (frame[f] = "ok" /\ cli[f] # "none") => cli[f] = "zero"
\* Refuted by TLC (README): the status file is frozen once the tray stopped.
FrozenAfterStop == [][up = "stopped" => status' = status]_trayVars

\* The status file comes to be true, and every line is answered (heartbeat.mjs,
\* ipc.mjs).
TrayHolds == StatusTells /\ TrayAnswers
=============================================================================
