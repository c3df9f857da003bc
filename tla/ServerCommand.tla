---------------------------- MODULE ServerCommand ----------------------------
(***************************************************************************)
(* `opendweb server` and `opendweb setup`: packages/opendweb/bin and       *)
(* src/{server-chain,plugin-runtime,config-file}.mjs, server-binary.       *)
(*                                                                         *)
(* The command reads its settings, loads the declared plugins, fires       *)
(* preStart, starts dweb-server as a child, waits for its health, fires    *)
(* postReady, and serves until a signal or the child's end.  Signals and   *)
(* the child's end may come between any two steps.                         *)
(***************************************************************************)
EXTENDS Naturals, Sequences

CONSTANTS Declared,     \* the config file's plugins, in order, by the file's entry
          Sources,      \* what flags, environment and config file may say
          EntryKinds,   \* what an entry may turn out to be
          Overrides,    \* what a preStart hook may return as server overrides
          MaxSignals, MaxServerFaults \* bounds: signals, ends of the child by itself

Keys == {"bind", "url", "timeout", "relay", "proxy"}
Hooks == {"preStart", "postReady", "preStop", "setup"}
DeclaredPlugins == {Declared[i] : i \in DOMAIN Declared}

VARIABLES
  command, source, entry, \* "server" or "setup"; settings by source; what each plugin is
  stage,      \* where the command is; "ended"
  effective,  \* the server's settings once resolved
  loaded,     \* the plugins loaded so far, a sequence
  todo, calling, \* whose hook is still to be called, by place in loaded; whether one is in progress
  merged, failures, \* fireHook: overrides so far; whether a hook failed
  server, kill, \* the child: "none", "up", "ready", "interrupted", "ended"; what stop did
  serverCode,  \* how the child ended
  flow,       \* signal number -> the shutdown it runs: where it is, the places to go
  signals, serverFaults,
  exitCode,
  stopped,    \* history: plugin -> preStop calls begun and answered
  early       \* history: a signal came before its handler was there

serverVars == <<command, source, entry, stage, effective, loaded, todo, calling, merged, failures,
                server, kill, serverCode, flow, signals, serverFaults, exitCode, stopped, early>>
childVars == <<server, kill, serverCode, serverFaults>>
stopVars == <<flow, signals, stopped, early>>

NoSetting == [k \in Keys |-> "none"]
NoFlow == [at |-> "none", rest |-> {}, calling |-> FALSE]

ServerInit ==
  /\ command \in {"server", "setup"}
  /\ source \in Sources
  /\ entry \in [DeclaredPlugins -> EntryKinds]
  /\ stage = "config" /\ effective = NoSetting /\ loaded = <<>>
  /\ todo = {} /\ calling = FALSE /\ merged = NoSetting /\ failures = FALSE
  /\ server = "none" /\ kill = "none" /\ serverCode = "none"
  /\ flow = [n \in 1..MaxSignals |-> NoFlow] /\ signals = 0 /\ serverFaults = 0
  /\ exitCode = "none"
  /\ stopped = [p \in DeclaredPlugins |-> [begun |-> 0, done |-> 0]] /\ early = FALSE

Exits(code) == stage' = "ended" /\ exitCode' = code
Running == stage # "ended"

(***************************************************************************)
(* Settings: loadConfigFile, resolveServerArgs.                            *)
(***************************************************************************)
First(k) == LET said == SelectSeq(<<source.flag[k], source.env[k], source.conf[k]>>, LAMBDA v : v # "none")
            IN IF said = <<>> THEN "none" ELSE Head(said)

\* Values: flag, else environment, else config file.  Switches: the relay is on
\* when none of the three turns it off, the proxy is trusted when one says so.
resolveServerArgs ==
  [k \in Keys |->
     CASE k = "relay" -> IF \E s \in {"flag", "env", "conf"} : source[s][k] = "off" THEN "off" ELSE "on"
       [] k = "proxy" -> IF \E s \in {"flag", "env", "conf"} : source[s][k] = "on" THEN "on" ELSE "off"
       [] OTHER -> First(k)]

\* loadConfigFile: the schema and the config file's own public URL.  A bind is a string.
ConfigRefused == "bad" \in {source.conf["url"], source.conf["timeout"]}
\* resolveServerArgs: the public URL taken; the timeout of the environment alone.
ArgsRefused == First("url") = "bad" \/ source.env["timeout"] = "bad"

\* With `setup` there are no arguments and only the file is read.
Configure ==
  /\ stage = "config"
  /\ IF ConfigRefused \/ (command = "server" /\ ArgsRefused)
     THEN Exits("2") /\ UNCHANGED effective
     ELSE effective' = resolveServerArgs /\ stage' = "load" /\ UNCHANGED exitCode
  /\ UNCHANGED <<command, source, entry, loaded, todo, calling, merged, failures, childVars, stopVars>>

(***************************************************************************)
(* Plugins: loadDeclaredPlugins, makeNpmAdapter, makeLocalAdapter.         *)
(***************************************************************************)
NextDeclared == Declared[Len(loaded) + 1]
HasHook(p, h) == h \in entry[p].hooks

\* One entry: a package nobody installed, an object the contract refuses, a
\* name that is there already; else an adapter.
LoadPlugin ==
  /\ stage = "load" /\ Len(loaded) < Len(Declared)
  /\ LET e == entry[NextDeclared]
         twin == \E i \in DOMAIN loaded : entry[loaded[i]].name = e.name
     IN CASE e.is = "missing" -> Exits("2") /\ UNCHANGED loaded
          [] e.is = "invalid" -> Exits("1") /\ UNCHANGED loaded
          [] e.is \in {"npm", "local"} /\ twin -> Exits("2") /\ UNCHANGED loaded
          [] OTHER -> loaded' = Append(loaded, NextDeclared) /\ UNCHANGED <<stage, exitCode>>
  /\ UNCHANGED <<command, source, entry, effective, todo, calling, merged, failures, childVars, stopVars>>

\* fireHook takes the plugins that have the hook, in the order of the file.
Having(h) == {i \in DOMAIN loaded : HasHook(loaded[i], h)}
Foremost(places) == CHOOSE i \in places : \A j \in places : i <= j
Fire(h) ==
  /\ stage' = h /\ todo' = Having(h) /\ calling' = FALSE /\ failures' = FALSE
  /\ merged' = NoSetting

PluginsLoaded ==
  /\ stage = "load" /\ Len(loaded) = Len(Declared)
  /\ Fire(IF command = "setup" THEN "setup" ELSE "preStart")
  /\ UNCHANGED <<command, source, entry, effective, loaded, childVars, stopVars, exitCode>>

(***************************************************************************)
(* Hooks: fireHook, runSetup; the adapters' invoke.                        *)
(***************************************************************************)
Calls ==
  /\ stage \in Hooks \ {"preStop"} /\ todo # {} /\ ~calling
  /\ calling' = TRUE
  /\ UNCHANGED <<command, source, entry, stage, effective, loaded, todo, merged, failures, childVars,
                 stopVars, exitCode>>

\* What an adapter answers: overrides, nothing, or a failure.  A local plugin
\* is a child of its own: one that a signal ended counts as code 0, and its
\* empty output as an answer of nothing.
Outcomes(p) == {"null", "failed"} \union (IF entry[p].is = "local" THEN {"killed"} ELSE {})
HookFailed(r) == r = "failed"

\* The answers of all plugins go together, later ones over earlier ones.
Answers ==
  /\ stage \in Hooks \ {"preStop"} /\ calling
  /\ \/ \E r \in Outcomes(loaded[Foremost(todo)]) : failures' = (failures \/ HookFailed(r)) /\ UNCHANGED merged
     \/ /\ stage = "preStart"
        /\ \E o \in Overrides : merged' = [merged EXCEPT ![o.key] = o.value]
        /\ UNCHANGED failures
  /\ todo' = todo \ {Foremost(todo)} /\ calling' = FALSE
  /\ UNCHANGED <<command, source, entry, stage, effective, loaded, childVars, stopVars, exitCode>>

Fired(h) == stage = h /\ todo = {}

\* runSetup: all of them, whatever fails.
SetupDone ==
  /\ Fired("setup") /\ Exits(IF failures THEN "1" ELSE "0")
  /\ UNCHANGED <<command, source, entry, effective, loaded, todo, calling, merged, failures, childVars,
                 stopVars>>

\* applyServerOverrides: only these keys, each checked as a flag would be.
applyServerOverrides(eff) ==
  [k \in Keys |-> IF merged[k] = "none" THEN eff[k] ELSE merged[k]]
OverridesRefused == merged["timeout"] # "none" \/ \E k \in Keys : merged[k] = "bad"

\* The child's environment is what was settled.
startServer == server' = "up"

\* A failed preStart ends the command; a child that cannot be started, too.
StartServer ==
  /\ Fired("preStart")
  /\ CASE failures -> Exits("1") /\ UNCHANGED <<effective, server>>
       [] ~failures /\ OverridesRefused -> Exits("2") /\ UNCHANGED <<effective, server>>
       [] OTHER -> \/ /\ effective' = applyServerOverrides(effective)
                      /\ startServer /\ stage' = "probe" /\ UNCHANGED exitCode
                   \/ Exits("1") /\ UNCHANGED <<effective, server>>
  /\ UNCHANGED <<command, source, entry, loaded, todo, calling, merged, failures, kill, serverCode,
                 serverFaults, stopVars>>

(***************************************************************************)
(* The child.                                                              *)
(***************************************************************************)
ChildAlive == server \in {"up", "ready", "interrupted"}

\* Its health endpoint answers; with a bind it cannot parse it never does.
ServerReady ==
  /\ server = "up" /\ effective["bind"] # "bad" /\ server' = "ready"
  /\ UNCHANGED <<command, source, entry, stage, effective, loaded, todo, calling, merged, failures, kill,
                 serverCode, serverFaults, stopVars, exitCode>>

\* It ends: told to, killed five seconds after it was told to, or by itself,
\* with a code or by a signal of the system (which counts as 0).
ServerEnds ==
  /\ ChildAlive
  /\ \/ server = "interrupted" /\ serverCode' = "0" /\ UNCHANGED serverFaults
     \/ server = "up" /\ effective["bind"] = "bad" /\ serverCode' = "1" /\ UNCHANGED serverFaults
     \/ /\ serverFaults < MaxServerFaults /\ serverFaults' = serverFaults + 1
        /\ serverCode' \in {"1", "0"}
  /\ server' = "ended"
  /\ UNCHANGED <<command, source, entry, stage, effective, loaded, todo, calling, merged, failures, kill,
                 stopVars, exitCode>>

\* stop: nothing for a child that has ended, else SIGINT.
stop == IF ChildAlive THEN server' = "interrupted" /\ kill' = "sent" ELSE UNCHANGED <<server, kill>>

(***************************************************************************)
(* Readiness, and what follows: waitForGatewayReady races the child's end. *)
(***************************************************************************)
Ready ==
  /\ stage = "probe" /\ server = "ready"
  /\ Fire("postReady")
  /\ UNCHANGED <<command, source, entry, effective, loaded, childVars, stopVars, exitCode>>

EndedEarly ==
  /\ stage = "probe" /\ server = "ended" /\ Exits("1")
  /\ UNCHANGED <<command, source, entry, effective, loaded, todo, calling, merged, failures, childVars,
                 stopVars>>

\* Mutant: the child is left running.
MutProbeFails ==
  /\ stage = "probe" /\ ChildAlive /\ Exits("1")
  /\ UNCHANGED <<command, source, entry, effective, loaded, todo, calling, merged, failures, childVars,
                 stopVars>>

\* Thirty seconds without an answer: the child is stopped, then the command fails.
ProbeFails ==
  /\ stage = "probe" /\ ChildAlive /\ stop /\ stage' = "giveUp"
  /\ UNCHANGED <<command, source, entry, effective, loaded, todo, calling, merged, failures, serverCode,
                 serverFaults, stopVars, exitCode>>
GivenUp ==
  /\ stage = "giveUp" /\ server = "ended" /\ Exits("1")
  /\ UNCHANGED <<command, source, entry, effective, loaded, todo, calling, merged, failures, childVars,
                 stopVars>>

\* Failures of postReady are warnings; then the banner, and the handlers.
Serves ==
  /\ Fired("postReady") /\ stage' = "serving"
  /\ UNCHANGED <<command, source, entry, effective, loaded, todo, calling, merged, failures, childVars,
                 stopVars, exitCode>>

\* The command waits for the child's end and takes its code.
ServerEnded ==
  /\ stage = "serving" /\ server = "ended" /\ Exits(serverCode)
  /\ UNCHANGED <<command, source, entry, effective, loaded, todo, calling, merged, failures, childVars,
                 stopVars>>

(***************************************************************************)
(* Signals and the shutdown: makeSingleFlightShutdown.                     *)
(***************************************************************************)
\* Mutant: a second signal starts a shutdown of its own.
MutInFlight == FALSE
InFlight == \E n \in 1..MaxSignals : flow[n].at # "none"

\* Before the handlers are there a signal ends the command.  Control-C goes to
\* the child as well: it is of the same process group.
Signal(group) ==
  /\ Running /\ signals < MaxSignals /\ signals' = signals + 1
  /\ IF stage = "serving"
     THEN /\ flow' = IF InFlight THEN flow
                     ELSE [flow EXCEPT ![signals'] = [at |-> "preStop", rest |-> Having("preStop"), calling |-> FALSE]]
          /\ UNCHANGED <<stage, exitCode, early>>
     ELSE Exits("signal") /\ early' = TRUE /\ UNCHANGED flow
  /\ IF group /\ ChildAlive THEN server' = "interrupted" ELSE UNCHANGED server
  /\ UNCHANGED <<command, source, entry, effective, loaded, todo, calling, merged, failures, kill, serverCode,
                 serverFaults, stopped>>

\* runPreStop: the plugins one after the other; what fails is a warning.
StopHook(n) ==
  LET i == Foremost(flow[n].rest)  p == loaded[i] IN
  /\ Running /\ flow[n].at = "preStop" /\ flow[n].rest # {}
  /\ IF flow[n].calling
     THEN /\ flow' = [flow EXCEPT ![n].rest = @ \ {i}, ![n].calling = FALSE]
          /\ stopped' = [stopped EXCEPT ![p].done = @ + 1]
     ELSE /\ flow' = [flow EXCEPT ![n].calling = TRUE]
          /\ stopped' = [stopped EXCEPT ![p].begun = @ + 1]
  /\ UNCHANGED <<command, source, entry, stage, effective, loaded, todo, calling, merged, failures, childVars,
                 signals, early, exitCode>>

StopServer(n) ==
  /\ Running /\ flow[n].at = "preStop" /\ flow[n].rest = {}
  /\ flow' = [flow EXCEPT ![n].at = "stop"] /\ stop
  /\ UNCHANGED <<command, source, entry, stage, effective, loaded, todo, calling, merged, failures, serverCode,
                 serverFaults, signals, stopped, early, exitCode>>

ServerSteps ==
  \/ Configure \/ LoadPlugin \/ PluginsLoaded \/ Calls \/ Answers \/ SetupDone \/ StartServer
  \/ ServerReady \/ Ready \/ EndedEarly \/ ProbeFails \/ GivenUp \/ Serves \/ ServerEnded
  \/ \E n \in 1..MaxSignals : StopHook(n) \/ StopServer(n)
ServerNext ==
  \/ ServerSteps \/ ServerEnds
  \/ \E group \in BOOLEAN : Signal(group)

\* Hooks answer (a local one within a minute), a child that was told to stop
\* ends (within five seconds), and the rest is the event loop's own.
ServerFairness ==
  /\ WF_serverVars(ServerSteps)
  /\ WF_serverVars(server = "interrupted" /\ ServerEnds)

ServerSpec == ServerInit /\ [][ServerNext]_serverVars /\ ServerFairness

(***************************************************************************)
(* Properties.                                                             *)
(***************************************************************************)
\* Signals repeated during a shutdown share it (server-chain.mjs:366): no
\* plugin's preStop runs twice, and the server is told to stop only when each
\* plugin that has the hook has answered.
OneShutdown ==
  /\ \A p \in DeclaredPlugins : stopped[p].begun <= 1
  /\ kill = "sent" /\ stage \in {"serving", "ended"} /\ InFlight =>
       \A i \in Having("preStop") : stopped[loaded[i]].done = 1

\* A command that ended leaves no server, unless a signal ended it before its
\* handlers were there.
NoServerLeft == stage = "ended" => ~ChildAlive \/ early

\* Both (server-chain.mjs, bin/opendweb.mjs).
ServerHolds == OneShutdown /\ NoServerLeft

\* A signal that finds the handlers ends the command, and the server with it.
Shuts == stage = "serving" /\ InFlight ~> stage = "ended" /\ ~ChildAlive

\* Refuted by TLC (README): config-file/spec.md has preStop run before the
\* server's end, but Control-C stops the server too and its end ends the
\* command, whatever preStop is doing.
PreStopDone ==
  stage = "ended" /\ InFlight /\ serverFaults = 0 =>
    \A i \in Having("preStop") : stopped[loaded[i]].done = 1

\* Refuted by TLC (README): flag, environment, config file, in this order, but
\* a switch the config file turns off stays off (relay) or on (proxy).
Precedence ==
  stage = "load" => \A k \in Keys : First(k) # "none" => effective[k] = First(k)

\* Refuted by TLC (README): `code ?? 0` takes a server the system killed for
\* one that ended well.
FailureTold == stage = "ended" /\ serverFaults > 0 /\ ~InFlight /\ ~early => exitCode # "0"
=============================================================================
