----------------------------- MODULE HubDaemon -----------------------------
(***************************************************************************)
(* `opendweb hub`: the daemon chain (runHubForeground) as operating-system *)
(* processes that start, fail, are signalled and die, over one data        *)
(* directory with its hub.lock, hub.pid and server child; the commands of  *)
(* one terminal (init, start, stop, autostart); and the user-level service *)
(* that restarts the daemon.  packages/opendweb/src/hub.mjs,               *)
(* server-chain.mjs, plugin-runtime.mjs.                                   *)
(***************************************************************************)
EXTENDS Naturals, FiniteSets

CONSTANTS Pids,       \* process ids, reused once free
          MaxProcs,   \* bound: processes ever started
          MaxCmds     \* bound: commands typed in the terminal

ASSUME HubAssumption == MaxProcs \in Nat /\ MaxCmds \in Nat /\ Pids \subseteq Nat \ {0}

NoPid == 0
NoLock == [pid |-> NoPid, id |-> 0, info |-> FALSE]
NoTriple == [pid |-> NoPid, id |-> 0]
Dead == [kind |-> "dead", id |-> 0]

VARIABLES
  proc,     \* process table: [kind, id]; id is start time and command line
  d,        \* where each hub daemon is in runHubForeground
  judged,   \* the lock a daemon judged stale
  pending,  \* releases of hub.lock still to run: "S" shutdown, "M" main chain
  preStops, \* how often the preStop hooks ran
  srv,      \* daemons' server children that run (by daemon's id)
  lock,     \* hub.lock: directory, and info.json when written
  hub, token, triple, service, \* hub.json, hub-token, hub.pid, LaunchAgent
  cli,      \* the terminal's command: [at, pid, id]
  said,     \* what the last hub stop reported
  count,    \* [procs, cmds] started so far
  robbed,   \* history: a lock was removed that the remover did not mean
  misfired, \* history: a signal reached a process that is not the hub
  killed    \* history: the processes a stop killed

daemonVars == <<d, judged, pending, preStops, srv>>
fileVars == <<hub, token, triple, service>>
vars == <<proc, daemonVars, lock, fileVars, cli, said, count, robbed, misfired, killed>>

NoHub == [init |-> FALSE, autostart |-> FALSE]
IsHub(p) == proc[p].kind = "hub"
Owning == {"prepare", "starting", "ready", "verify", "serve", "preStop", "stopServer"}
At(where) == [cli EXCEPT !.at = where]

Init ==
  /\ proc = [p \in Pids |-> Dead]
  /\ d = [p \in Pids |-> "off"]
  /\ judged = [p \in Pids |-> NoLock]
  /\ pending = [p \in Pids |-> {}]
  /\ preStops = [p \in Pids |-> 0]
  /\ srv = {}
  /\ lock = NoLock
  /\ hub = NoHub /\ token = FALSE /\ triple = NoTriple /\ service = FALSE
  /\ cli = [at |-> "idle", pid |-> NoPid, id |-> 0]
  /\ said = "nothing"
  /\ count = [procs |-> 0, cmds |-> 0]
  /\ robbed = FALSE /\ misfired = FALSE /\ killed = {}

(***************************************************************************)
(* Processes.                                                              *)
(***************************************************************************)
Spawned(p, kind) ==
  /\ proc[p] = Dead /\ count.procs < MaxProcs
  /\ proc' = [proc EXCEPT ![p] = [kind |-> kind, id |-> count.procs + 1]]
  /\ count' = [count EXCEPT !.procs = @ + 1]

Booted(p) ==
  /\ Spawned(p, "hub")
  /\ d' = [d EXCEPT ![p] = "mkdir"]
  /\ pending' = [pending EXCEPT ![p] = {}]
  /\ preStops' = [preStops EXCEPT ![p] = 0]
  /\ judged' = [judged EXCEPT ![p] = NoLock]
  /\ UNCHANGED srv

Exited(p) ==
  /\ proc' = [proc EXCEPT ![p] = Dead]
  /\ d' = [d EXCEPT ![p] = "off"]

Go(p, where) == d' = [d EXCEPT ![p] = where]

\* hub start --foreground typed elsewhere, or the service's KeepAlive.
RunForeground(p) ==
  /\ hub.init /\ token
  /\ Booted(p)
  /\ UNCHANGED <<lock, fileVars, cli, said, robbed, misfired, killed>>

OtherProcess(p) ==
  /\ cli.at \notin {"signal", "wait", "lockSignal", "lockWait"}  \* see README: fast pid reuse
  /\ Spawned(p, "other")
  /\ UNCHANGED <<daemonVars, lock, fileVars, cli, said, robbed, misfired, killed>>

OtherEnds(p) ==
  /\ proc[p].kind = "other"
  /\ proc' = [proc EXCEPT ![p] = Dead]
  /\ UNCHANGED <<daemonVars, lock, fileVars, cli, said, count, robbed, misfired, killed>>

(***************************************************************************)
(* acquireHubLock: mkdir, then info.json; a holder older than ten seconds  *)
(* whose pid is dead is removed and the directory created once more.       *)
(***************************************************************************)
HubLock(p) == [pid |-> p, id |-> proc[p].id, info |-> TRUE]
ByMe(l, p) == l.pid = p /\ l.id = proc[p].id
StaysPut == UNCHANGED <<fileVars, cli, said, count, misfired, killed>>

LockMkdir(p) ==
  /\ d[p] \in {"mkdir", "recreate"}
  /\ IF lock = NoLock
     THEN /\ lock' = [HubLock(p) EXCEPT !.info = FALSE]
          /\ Go(p, "info") /\ UNCHANGED proc
     ELSE /\ UNCHANGED lock
          /\ IF d[p] = "mkdir" THEN Go(p, "judge") /\ UNCHANGED proc ELSE Exited(p)
  /\ UNCHANGED <<judged, pending, preStops, srv, robbed>> /\ StaysPut

LockInfo(p) ==
  /\ d[p] = "info"
  /\ lock' = IF lock = NoLock THEN NoLock ELSE HubLock(p)
  /\ Go(p, IF lock = NoLock THEN "off" ELSE "prepare")
  /\ proc' = IF lock = NoLock THEN [proc EXCEPT ![p] = Dead] ELSE proc
  /\ UNCHANGED <<judged, pending, preStops, srv, robbed>> /\ StaysPut

\* Mutant: age alone makes a lock stale.
MutStale(l) == l.info
\* isPidAlive asks for the pid alone: a reused pid keeps the lock alive.
Stale(l) == l.info /\ proc[l.pid] = Dead

LockJudge(p) ==
  /\ d[p] = "judge"
  /\ \/ /\ Stale(lock)
        /\ judged' = [judged EXCEPT ![p] = lock]
        /\ Go(p, "break") /\ UNCHANGED proc
     \/ /\ Exited(p) /\ UNCHANGED judged   \* in use, or not ten seconds old
  /\ UNCHANGED <<pending, preStops, srv, lock, robbed>> /\ StaysPut

LockBreak(p) ==
  /\ d[p] = "break"
  /\ robbed' = (robbed \/ lock \notin {NoLock, judged[p]})
  /\ lock' = NoLock
  /\ Go(p, "recreate")
  /\ UNCHANGED <<proc, judged, pending, preStops, srv>> /\ StaysPut

\* release is an unconditional removal of the directory.
Removed(p) ==
  /\ lock' = NoLock
  /\ robbed' = (robbed \/ (lock # NoLock /\ ~ByMe(lock, p)))

(***************************************************************************)
(* runHubForeground after the lock.                                        *)
(***************************************************************************)
\* Environment, configuration, plugins, preStart.  failure() fires the release
\* without waiting for it, so the process may be gone first; an exception of a
\* loader or of applyServerOverrides leaves the lock behind.
prepareChain(p) ==
  /\ d[p] = "prepare"
  /\ \/ Go(p, "starting") /\ UNCHANGED <<proc, lock, robbed>>
     \/ Exited(p) /\ Removed(p)
     \/ Exited(p) /\ UNCHANGED <<lock, robbed>>
  /\ UNCHANGED <<judged, pending, preStops, srv>> /\ StaysPut

\* The port is free for the new server unless another one still listens.
startServer(p) ==
  /\ d[p] = "starting"
  /\ srv' = IF srv = {} THEN srv \union {proc[p].id} ELSE srv
  /\ Go(p, "ready")
  /\ UNCHANGED <<proc, judged, pending, preStops, lock, robbed>> /\ StaysPut

\* stopAndFail: stop the child, then the lock, then leave.
StopAndFail(p) ==
  /\ srv' = srv \ {proc[p].id}
  /\ Removed(p)
  /\ Exited(p)

\* The readiness poll asks the address, not the child: any server on it answers.
waitForGatewayReady(p) ==
  /\ d[p] = "ready"
  /\ \/ srv # {} /\ Go(p, "verify") /\ UNCHANGED <<proc, srv, lock, robbed>>
     \/ StopAndFail(p)
  /\ UNCHANGED <<judged, pending, preStops>> /\ StaysPut

\* Data landed, admin API mounted, postReady; only then are SIGINT and SIGTERM handled.
verifyAdminMounted(p) ==
  /\ d[p] = "verify"
  /\ \/ srv # {} /\ Go(p, "serve") /\ UNCHANGED <<proc, srv, lock, robbed>>
     \/ StopAndFail(p)
  /\ UNCHANGED <<judged, pending, preStops>> /\ StaysPut

\* The child ended by itself: the main chain goes on to its own release.
serverExited(p) ==
  /\ d[p] = "serve"
  /\ srv' = srv \ {proc[p].id}
  /\ pending' = [pending EXCEPT ![p] = {"M"}]
  /\ Go(p, "release")
  /\ UNCHANGED <<proc, judged, preStops, lock, robbed>> /\ StaysPut

\* Mutant: every signal runs the hooks.
MutSignalled(p) ==
  IF d[p] \in {"serve", "preStop", "stopServer"}
  THEN /\ Go(p, "preStop") /\ preStops' = [preStops EXCEPT ![p] = @ + 1] /\ UNCHANGED proc
  ELSE /\ Exited(p) /\ UNCHANGED preStops

\* makeSingleFlightShutdown: the first signal starts the hooks, later ones join
\* the stop in flight.  Before the handlers are set the process just dies.
Signalled(p) ==
  CASE d[p] = "serve" ->
         Go(p, "preStop") /\ preStops' = [preStops EXCEPT ![p] = @ + 1] /\ UNCHANGED proc
    [] d[p] \in {"preStop", "stopServer", "release"} -> UNCHANGED <<proc, d, preStops>>
    [] OTHER -> Exited(p) /\ UNCHANGED preStops

Interrupt(p) ==   \* Ctrl+C, a logout, the service's bootout
  /\ IsHub(p)
  /\ Signalled(p)
  /\ UNCHANGED <<judged, pending, srv, lock, robbed>> /\ StaysPut

\* The hooks have answered, all of them; nothing limits how long they may take.
runPreStop(p) ==
  /\ d[p] = "preStop"
  /\ Go(p, "stopServer")
  /\ UNCHANGED <<proc, judged, pending, preStops, srv, lock, robbed>> /\ StaysPut

\* Mutant: nothing settles the exit the shutdown waits for.
MutStopServer(p) ==
  /\ d[p] = "stopServer"
  /\ srv' = srv \ {proc[p].id}
  /\ pending' = [pending EXCEPT ![p] = {}]
  /\ Go(p, "release")
  /\ UNCHANGED <<proc, judged, preStops, lock, robbed>> /\ StaysPut

\* server.stop and server.exited settle together: both fibers release.
stopServer(p) ==
  /\ d[p] = "stopServer"
  /\ srv' = srv \ {proc[p].id}
  /\ pending' = [pending EXCEPT ![p] = {"S", "M"}]
  /\ Go(p, "release")
  /\ UNCHANGED <<proc, judged, preStops, lock, robbed>> /\ StaysPut

\* The shutdown fiber exits at once; the main chain's end lets it finish.
Release(p) ==
  /\ d[p] = "release"
  /\ \E f \in pending[p] :
       /\ Removed(p)
       /\ pending' = [pending EXCEPT ![p] = @ \ {f}]
       /\ IF f = "S" \/ pending[p] = {f}
          THEN Exited(p) ELSE UNCHANGED <<proc, d>>
  /\ UNCHANGED <<judged, preStops, srv>> /\ StaysPut

(***************************************************************************)
(* The terminal: one command at a time.                                    *)
(***************************************************************************)
Command ==
  /\ cli.at = "idle" /\ count.cmds < MaxCmds
  /\ count' = [count EXCEPT !.cmds = @ + 1]
  /\ UNCHANGED <<proc, daemonVars, lock, robbed, misfired, killed>>

\* hubInit: the credential first, the self-check, hub.json last.
hubInit ==
  /\ ~hub.init /\ Command
  /\ token' = TRUE
  /\ cli' = At("selfCheck")
  /\ UNCHANGED <<hub, triple, service, said>>

\* A failed self-check takes the credential it generated back.
runInitSelfCheck ==
  /\ cli.at = "selfCheck"
  /\ \/ token' = FALSE /\ UNCHANGED hub
     \/ hub' = [init |-> TRUE, autostart |-> FALSE] /\ UNCHANGED token
  /\ cli' = At("idle")
  /\ UNCHANGED <<proc, daemonVars, lock, triple, service, said, count, robbed, misfired, killed>>

\* installAutostartService, then hub.json; a failed install changes nothing.
autostartOn ==
  /\ hub.init /\ Command
  /\ service' = TRUE
  /\ hub' = [hub EXCEPT !.autostart = TRUE]
  /\ cli' = At("idle")
  /\ UNCHANGED <<token, triple, said>>

\* bootout ends the service's daemon; a failure changes nothing.
autostartOff ==
  /\ hub.init /\ Command
  /\ service' = FALSE
  /\ hub' = [hub EXCEPT !.autostart = FALSE]
  /\ cli' = At("idle")
  /\ UNCHANGED <<token, triple, said>>

hubStart(p) ==
  /\ cli.at = "idle" /\ count.cmds < MaxCmds /\ hub.init /\ token
  /\ IF hub.autostart
     THEN /\ service' = TRUE
          /\ count' = [count EXCEPT !.cmds = @ + 1]
          /\ UNCHANGED <<proc, daemonVars, cli>>
     ELSE /\ proc[p] = Dead /\ count.procs < MaxProcs
          /\ proc' = [proc EXCEPT ![p] = [kind |-> "hub", id |-> count.procs + 1]]
          /\ count' = [procs |-> count.procs + 1, cmds |-> count.cmds + 1]
          /\ d' = [d EXCEPT ![p] = "mkdir"]
          /\ pending' = [pending EXCEPT ![p] = {}]
          /\ preStops' = [preStops EXCEPT ![p] = 0]
          /\ judged' = [judged EXCEPT ![p] = NoLock]
          /\ cli' = [at |-> "watch", pid |-> p, id |-> count.procs + 1]
          /\ UNCHANGED <<srv, service>>
  /\ UNCHANGED <<lock, hub, token, triple, said, robbed, misfired, killed>>

\* The early-exit window; then the identity ps shows, or none within two seconds.
writeHubPidTriple ==
  /\ cli.at = "watch"
  /\ \/ proc[cli.pid].id # cli.id /\ UNCHANGED triple   \* exited during startup
     \/ triple' = [pid |-> cli.pid,
                   id |-> IF proc[cli.pid].id = cli.id THEN cli.id ELSE 0]
     \/ triple' = [pid |-> cli.pid, id |-> 0]
  /\ cli' = At("idle")
  /\ UNCHANGED <<proc, daemonVars, lock, hub, token, service, said, count, robbed, misfired, killed>>

\* hub stop: the service first, then the processes.
hubStop ==
  /\ hub.init /\ Command
  /\ \/ hub.autostart /\ service' = FALSE /\ hub' = [hub EXCEPT !.autostart = FALSE]
     \/ UNCHANGED <<service, hub>>   \* no service, or unloading it failed
  /\ cli' = At("verify")
  /\ said' = "nothing"
  /\ UNCHANGED <<token, triple>>

\* Mutant: a live pid is enough.
MutMatches(t) == proc[t.pid] # Dead
\* verifyPidTriple: the start time and the command line must be the recorded ones.
Matches(t) == proc[t.pid] # Dead /\ proc[t.pid].id = t.id

verifyPidTriple ==
  /\ cli.at = "verify"
  /\ CASE triple = NoTriple -> cli' = At("fallback") /\ UNCHANGED <<triple, said>>
       [] triple # NoTriple /\ Matches(triple) ->
            cli' = [at |-> "signal", pid |-> triple.pid, id |-> triple.id] /\ UNCHANGED <<triple, said>>
       [] OTHER -> cli' = At("idle") /\ triple' = NoTriple /\ said' = "not running"
  /\ UNCHANGED <<proc, daemonVars, lock, hub, token, service, count, robbed, misfired, killed>>

\* Without a pid file: the holder of the lock, when its command line is a hub's.
\* A dead holder's lock, or another program's, is removed.
lockHolder ==
  /\ cli.at = "fallback"
  /\ IF lock.info /\ IsHub(lock.pid)
     THEN cli' = [at |-> "lockSignal", pid |-> lock.pid, id |-> proc[lock.pid].id] /\ UNCHANGED <<lock, said, robbed>>
     ELSE /\ lock' = IF lock.info THEN NoLock ELSE lock
          /\ cli' = At("idle")
          /\ said' = IF srv # {} THEN "unknown" ELSE "not running"
          /\ UNCHANGED robbed
  /\ UNCHANGED <<proc, daemonVars, fileVars, count, misfired, killed>>

\* signalDaemon: SIGINT, five seconds, SIGKILL.
signalDaemon ==
  /\ cli.at \in {"signal", "lockSignal"}
  /\ misfired' = (misfired \/ (proc[cli.pid] # Dead /\ ~IsHub(cli.pid)))
  /\ IF IsHub(cli.pid) THEN Signalled(cli.pid) ELSE UNCHANGED <<proc, d, preStops>>
  /\ cli' = At(IF cli.at = "signal" THEN "wait" ELSE "lockWait")
  /\ UNCHANGED <<judged, pending, srv, lock, fileVars, said, count, robbed, killed>>

\* The five seconds end; a killed daemon leaves its child and its lock.
waitStopped ==
  /\ cli.at \in {"wait", "lockWait"}
  /\ IF proc[cli.pid] = Dead THEN UNCHANGED <<proc, d, misfired, killed>>
     ELSE /\ Exited(cli.pid)
          /\ misfired' = (misfired \/ ~IsHub(cli.pid))
          /\ killed' = killed \union {proc[cli.pid].id}
  /\ IF cli.at = "wait"
     THEN triple' = NoTriple /\ UNCHANGED <<lock, robbed>>
     ELSE /\ lock' = NoLock
          /\ robbed' = (robbed \/ (lock # NoLock /\ lock.id # cli.id))
          /\ UNCHANGED triple
  /\ said' = "stopped"
  /\ cli' = At("idle")
  /\ UNCHANGED <<judged, pending, preStops, srv, hub, token, service, count>>

Daemon(p) ==
  \/ LockMkdir(p) \/ LockInfo(p) \/ LockJudge(p) \/ LockBreak(p) \/ prepareChain(p)
  \/ startServer(p) \/ waitForGatewayReady(p) \/ verifyAdminMounted(p)
  \/ runPreStop(p) \/ stopServer(p) \/ Release(p)

Terminal ==
  \/ runInitSelfCheck \/ writeHubPidTriple \/ verifyPidTriple \/ lockHolder
  \/ signalDaemon \/ waitStopped

Next ==
  \/ \E p \in Pids : Daemon(p) \/ serverExited(p) \/ Interrupt(p) \/ RunForeground(p)
                     \/ OtherProcess(p) \/ OtherEnds(p) \/ hubStart(p)
  \/ Terminal \/ hubInit \/ autostartOn \/ autostartOff \/ hubStop

\* A stop command runs on, its five seconds end, and so do the child's (server.stop kills
\* it then).  Nothing makes a hook answer, a user type or a process die.
Fairness ==
  /\ WF_vars(Terminal)
  /\ \A p \in Pids : WF_vars(stopServer(p)) /\ WF_vars(Release(p))

Spec == Init /\ [][Next]_vars
FairSpec == Spec /\ Fairness

(***************************************************************************)
(* Properties.                                                             *)
(***************************************************************************)
\* Every variable stays in its domain; the lock and the pid file name pids of the
\* table; a data directory with a hub.json has its credential.
TypeOK ==
  /\ hub.init => token
  /\ \A p \in Pids : proc[p].kind \in {"dead", "hub", "other"} /\ (IsHub(p) <=> d[p] # "off")
  /\ lock = NoLock \/ lock.pid \in Pids
  /\ triple = NoTriple \/ (triple.pid \in Pids /\ triple.id \in 0..MaxProcs)
  /\ srv \subseteq 1..MaxProcs
  /\ hub \in [init: BOOLEAN, autostart: BOOLEAN]
  /\ \A p \in Pids : pending[p] \subseteq {"S", "M"}

\* hub.lock keeps a data directory to one daemon, through crashes, stale locks
\* and broken starts, as long as nobody removed a lock it did not mean to.
OneOwner == robbed \/ Cardinality({p \in Pids : d[p] \in Owning}) <= 1

\* hub stop signals the hub it recorded or found in the lock, never a process
\* that merely has its pid: pids are reused between start and stop here.
SignalsOnlyHub == ~misfired

\* The single-flight shutdown: however often a daemon is signalled, its preStop
\* hooks run once, and before its server is stopped.
PreStopOnce ==
  \A p \in Pids : preStops[p] <= 1 /\ (d[p] = "stopServer" => preStops[p] = 1)

\* The three together: one daemon, no wrong signal, hooks once (hub.mjs).
HubHolds == OneOwner /\ SignalsOnlyHub /\ PreStopOnce

\* No process n runs, and it left no server and no lock unless it had to be killed.
Ended(n) == \A p \in Pids : proc[p].id # n
LeftNothing(n) == n \in killed \/ (n \notin srv /\ lock.id # n)

\* A shutdown whose preStop hooks have answered ends its process, its server and its
\* lock; and a daemon that hub stop has signalled ends whether they answer or not.
ShutdownEnds ==
  /\ \A n \in 1..MaxProcs :
       (\E p \in Pids : d[p] = "stopServer" /\ proc[p].id = n) ~> (Ended(n) /\ LeftNothing(n))
  /\ cli.at \in {"signal", "wait", "lockSignal", "lockWait"} ~> (cli.at = "idle" /\ Ended(cli.id))

\* hub stop's "stopped" means the server is stopped.
StoppedMeansStopped == (cli.at = "idle" /\ said = "stopped") => srv = {}
=============================================================================
