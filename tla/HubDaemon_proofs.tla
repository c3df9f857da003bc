-------------------------- MODULE HubDaemon_proofs --------------------------
(***************************************************************************)
(* One daemon, no wrong signal, hooks once: for any number of processes,   *)
(* process ids and commands.                                               *)
(*                                                                         *)
(* None of the three is inductive.  A daemon between mkdir and info.json   *)
(* holds the lock as much as an owner does; a lock that was judged stale,  *)
(* a pid file and a command of the terminal name a process by its pid and  *)
(* its identity, and what they name never comes back although the pid may. *)
(***************************************************************************)
EXTENDS HubDaemon, FiniteSetTheorems, TLAPS

Kinds == {"dead", "hub", "other"}
Places == {"off", "mkdir", "recreate", "info", "judge", "break", "prepare", "starting", "ready", "verify",
           "serve", "preStop", "stopServer", "release"}
CliPlaces == {"idle", "selfCheck", "watch", "verify", "fallback", "signal", "wait", "lockSignal", "lockWait"}
Locks == [pid : Nat, id : Nat, info : BOOLEAN]

Typed ==
  /\ proc \in [Pids -> [kind : Kinds, id : Nat]] /\ d \in [Pids -> Places]
  /\ judged \in [Pids -> Locks] /\ preStops \in [Pids -> {0, 1}]
  /\ lock \in Locks /\ triple \in [pid : Nat, id : Nat]
  /\ cli \in [at : CliPlaces, pid : Nat, id : Nat]
  /\ count \in [procs : Nat, cmds : Nat]

\* The process table: identities are given out once and in order.
TableStands ==
  /\ \A p \in Pids : proc[p].kind = "dead" => proc[p].id = 0
  /\ \A p \in Pids : proc[p].kind # "dead" => proc[p].id \in 1..count.procs
  /\ \A p, q \in Pids : proc[p].id = proc[q].id /\ proc[p].id # 0 => p = q
  /\ \A p \in Pids : IsHub(p) <=> d[p] # "off"

\* An identity that was given out, to this pid if to a process that lives.
Issued(pid, id) == pid \in Pids /\ id \in 1..count.procs /\ \A p \in Pids : proc[p].id = id => p = pid

\* hub.lock is its holder's, from the directory to the release.
Holding == Owning \cup {"info"}
LockStands ==
  /\ lock.info => Issued(lock.pid, lock.id)
  /\ robbed \/ \A p \in Pids : d[p] \in Holding => lock = [HubLock(p) EXCEPT !.info = d[p] # "info"]

\* What was judged stale named a dead process, and still does.
JudgedStands ==
  \A p \in Pids : d[p] = "break" =>
    judged[p].info /\ judged[p].id \in 1..count.procs /\ \A q \in Pids : proc[q].id # judged[p].id

\* The pid file and the command name a hub or nothing that lives.
NamesHub(pid, id) == Issued(pid, id) /\ (proc[pid].id = id => IsHub(pid))
TripleStands == triple = NoTriple \/ (triple.pid \in Pids /\ (triple.id = 0 \/ NamesHub(triple.pid, triple.id)))
CliStands ==
  /\ cli.at = "watch" => NamesHub(cli.pid, cli.id)
  /\ cli.at \in {"signal", "wait"} => cli.pid \in Pids /\ proc[cli.pid].kind # "other"
  /\ cli.at \in {"lockSignal", "lockWait"} => NamesHub(cli.pid, cli.id) /\ proc[cli.pid].kind # "other"

\* The hooks run when the first signal is handled.
HooksStand ==
  \A p \in Pids : /\ d[p] \in Places \ {"off", "preStop", "stopServer", "release"} => preStops[p] = 0
                  /\ d[p] \in {"preStop", "stopServer"} => preStops[p] = 1

HubInv == /\ Typed /\ TableStands /\ LockStands /\ JudgedStands /\ TripleStands /\ CliStands /\ HooksStand
          /\ ~misfired

USE HubAssumption

LEMMA HubBase == Init => HubInv
<1> SUFFICES ASSUME Init PROVE HubInv
  OBVIOUS
<1> USE DEF Init, Dead, NoLock, NoTriple, NoPid
<1>1. Typed
  BY DEF Typed, Kinds, Places, CliPlaces, Locks
<1>2. TableStands
  BY DEF TableStands, IsHub
<1>3. LockStands /\ JudgedStands /\ TripleStands /\ CliStands /\ HooksStand
  BY DEF LockStands, JudgedStands, TripleStands, CliStands, HooksStand, Holding, Owning
<1> QED
  BY <1>1, <1>2, <1>3 DEF HubInv

LEMMA HubFollows == HubInv => HubHolds
<1> SUFFICES ASSUME HubInv PROVE HubHolds
  OBVIOUS
<1> DEFINE Owners == {p \in Pids : d[p] \in Owning}
<1>1. robbed \/ Cardinality(Owners) <= 1
  <2> SUFFICES ASSUME ~robbed PROVE Cardinality(Owners) <= 1
    OBVIOUS
  <2>1. \A p \in Owners : p = lock.pid
    BY DEF HubInv, LockStands, Holding, HubLock
  <2>2. Owners \subseteq {lock.pid}
    BY <2>1
  <2>3. IsFiniteSet({lock.pid}) /\ Cardinality({lock.pid}) = 1
    BY FS_Singleton
  <2> QED
    BY <2>2, <2>3, FS_Subset
<1>2. PreStopOnce
  BY DEF HubInv, Typed, HooksStand, PreStopOnce
<1> QED
  BY <1>1, <1>2 DEF HubInv, HubHolds, OneOwner, SignalsOnlyHub

(***************************************************************************)
(* The process table: one process dies or starts, or none.                 *)
(***************************************************************************)
Stays == proc' = proc /\ count' \in [procs : Nat, cmds : Nat] /\ count'.procs = count.procs
Dies(p) == proc' = [proc EXCEPT ![p] = Dead] /\ count' = count
Born(p, kind) ==
  /\ proc[p] = Dead /\ proc' = [proc EXCEPT ![p] = [kind |-> kind, id |-> count.procs + 1]]
  /\ count' \in [procs : Nat, cmds : Nat] /\ count'.procs = count.procs + 1
TableMoves(p) == Stays \/ Dies(p) \/ \E kind \in {"hub", "other"} : Born(p, kind)

\* What a name stands for is kept: an identity is not given out again.
LEMMA NamesKept ==
  ASSUME HubInv, NEW p \in Pids, TableMoves(p)
  PROVE  /\ \A pid, id \in Nat : Issued(pid, id) => Issued(pid, id)'
         /\ \A pid, id \in Nat : NamesHub(pid, id) => NamesHub(pid, id)'
         /\ \A id \in 1..count.procs : (\A q \in Pids : proc[q].id # id) =>
              id \in 1..count'.procs /\ \A q \in Pids : proc'[q].id # id
<1>0. Typed /\ TableStands
  BY DEF HubInv
<1>1. CASE Stays
  BY <1>0, <1>1 DEF Stays, Issued, NamesHub, IsHub
<1>2. CASE Dies(p)
  <2>1. \A q \in Pids : proc'[q] = IF q = p THEN Dead ELSE proc[q]
    BY <1>0, <1>2 DEF Dies, Typed
  <2> QED
    BY <1>0, <1>2, <2>1 DEF Dies, Issued, NamesHub, IsHub, Dead
<1>3. ASSUME NEW kind \in {"hub", "other"}, Born(p, kind)
      PROVE  /\ \A pid, id \in Nat : Issued(pid, id) => Issued(pid, id)'
             /\ \A pid, id \in Nat : NamesHub(pid, id) => NamesHub(pid, id)'
             /\ \A id \in 1..count.procs : (\A q \in Pids : proc[q].id # id) =>
                  id \in 1..count'.procs /\ \A q \in Pids : proc'[q].id # id
  <2>1. \A q \in Pids : proc'[q] = IF q = p THEN [kind |-> kind, id |-> count.procs + 1] ELSE proc[q]
    BY <1>0, <1>3 DEF Born, Typed
  <2>2. count.procs \in Nat /\ count'.procs = count.procs + 1
    BY <1>0, <1>3 DEF Born, Typed
  <2> QED
    BY <1>0, <2>1, <2>2 DEF Issued, NamesHub, IsHub
<1> QED
  BY <1>1, <1>2, <1>3 DEF TableMoves

\* The table, when d follows it.
LEMMA TableKept ==
  ASSUME HubInv, NEW p \in Pids, TableMoves(p), d' \in [Pids -> Places],
         \A q \in Pids \ {p} : d'[q] = d[q],
         (IsHub(p) <=> d[p] # "off") => (IsHub(p)' <=> d'[p] # "off")
  PROVE  proc' \in [Pids -> [kind : Kinds, id : Nat]] /\ count' \in [procs : Nat, cmds : Nat] /\ TableStands'
<1>0. Typed /\ TableStands
  BY DEF HubInv
<1>1. CASE Stays
  BY <1>0, <1>1 DEF Stays, Typed, TableStands, IsHub
<1>2. CASE Dies(p)
  <2>1. \A q \in Pids : proc'[q] = IF q = p THEN Dead ELSE proc[q]
    BY <1>0, <1>2 DEF Dies, Typed
  <2>2. proc' \in [Pids -> [kind : Kinds, id : Nat]] /\ count' \in [procs : Nat, cmds : Nat]
    BY <1>0, <1>2 DEF Dies, Typed, Dead, Kinds
  <2> QED
    BY <1>0, <1>2, <2>1, <2>2 DEF Dies, TableStands, IsHub, Dead
<1>3. ASSUME NEW kind \in {"hub", "other"}, Born(p, kind)
      PROVE  proc' \in [Pids -> [kind : Kinds, id : Nat]] /\ count' \in [procs : Nat, cmds : Nat] /\ TableStands'
  <2>1. \A q \in Pids : proc'[q] = IF q = p THEN [kind |-> kind, id |-> count.procs + 1] ELSE proc[q]
    BY <1>0, <1>3 DEF Born, Typed
  <2>2. count.procs \in Nat /\ count'.procs = count.procs + 1 /\ count' \in [procs : Nat, cmds : Nat]
    BY <1>0, <1>3 DEF Born, Typed
  <2>3. proc' \in [Pids -> [kind : Kinds, id : Nat]]
    BY <1>0, <1>3, <2>2 DEF Born, Typed, Kinds
  <2> QED
    BY <1>0, <2>1, <2>2, <2>3 DEF TableStands, IsHub
<1> QED
  BY <1>1, <1>2, <1>3 DEF TableMoves

(***************************************************************************)
(* What a step of one process leaves alone.                                *)
(***************************************************************************)
Early == Places \ {"off", "preStop", "stopServer", "release"}
HooksAt(where, n) == n \in {0, 1} /\ (where \in Early => n = 0) /\ (where \in {"preStop", "stopServer"} => n = 1)
Waiting == {"signal", "wait", "lockSignal", "lockWait"}

\* Only p moves, and its place fits its process and its hooks.
OnlyMoves(p) ==
  /\ TableMoves(p) /\ d' \in [Pids -> Places] /\ \A q \in Pids \ {p} : d'[q] = d[q]
  /\ (IsHub(p) <=> d[p] # "off") => (IsHub(p)' <=> d'[p] # "off")
  /\ preStops' \in [Pids -> {0, 1}] /\ \A q \in Pids \ {p} : preStops'[q] = preStops[q]
  /\ HooksAt(d'[p], preStops'[p])
  /\ judged' \in [Pids -> Locks] /\ \A q \in Pids \ {p} : judged'[q] = judged[q]
  /\ d'[p] = "break" => /\ judged'[p].info /\ judged'[p].id \in 1..count.procs
                        /\ \A q \in Pids : proc[q].id # judged'[p].id

\* The terminal, the pid file and the signals so far are as they should be.
TerminalStands ==
  /\ triple \in [pid : Nat, id : Nat] /\ cli \in [at : CliPlaces, pid : Nat, id : Nat]
  /\ TripleStands /\ CliStands /\ ~misfired

LEMMA MoveKeeps ==
  ASSUME HubInv, NEW p \in Pids, OnlyMoves(p), lock' \in Locks, LockStands', TerminalStands'
  PROVE  HubInv'
<1>1. proc' \in [Pids -> [kind : Kinds, id : Nat]] /\ count' \in [procs : Nat, cmds : Nat] /\ TableStands'
  BY TableKept DEF OnlyMoves
<1>2. Typed'
  BY <1>1 DEF Typed, OnlyMoves, TerminalStands
<1>3. JudgedStands'
  <2>1. ASSUME NEW q \in Pids, d'[q] = "break"
        PROVE  judged'[q].info /\ judged'[q].id \in 1..count.procs /\ \A x \in Pids : proc[x].id # judged'[q].id
    BY <2>1 DEF OnlyMoves, HubInv, JudgedStands
  <2>2. \A id \in 1..count.procs : (\A q \in Pids : proc[q].id # id) =>
              id \in 1..count'.procs /\ \A q \in Pids : proc'[q].id # id
    BY NamesKept DEF OnlyMoves
  <2> QED
    BY <2>1, <2>2 DEF JudgedStands
<1>4. HooksStand'
  <2>1. ASSUME NEW q \in Pids PROVE HooksAt(d'[q], preStops'[q])
    BY DEF OnlyMoves, HubInv, HooksStand, HooksAt, Early, Typed
  <2> QED
    BY <2>1 DEF HooksStand, HooksAt, Early
<1> QED
  BY <1>1, <1>2, <1>3, <1>4 DEF HubInv, TerminalStands

LEMMA TerminalKept ==
  ASSUME HubInv, NEW p \in Pids, TableMoves(p), UNCHANGED <<cli, triple, misfired, killed>>,
         cli.at \in Waiting => proc'[p].kind # "other" \/ proc'[p] = proc[p]
  PROVE  TerminalStands'
<1>0. Typed /\ TripleStands /\ CliStands /\ ~misfired /\ cli.pid \in Nat /\ cli.id \in Nat
      /\ triple.pid \in Nat /\ triple.id \in Nat
  BY DEF HubInv, Typed
<1>1. \A pid, id \in Nat : NamesHub(pid, id) => NamesHub(pid, id)'
  BY NamesKept
<1>2. TripleStands'
  BY <1>0, <1>1 DEF TripleStands
<1>3. cli.at \in Waiting => proc'[cli.pid].kind # "other"
  <2> SUFFICES ASSUME cli.at \in Waiting PROVE proc'[cli.pid].kind # "other"
    OBVIOUS
  <2>1. proc[cli.pid].kind # "other" /\ cli.pid \in Pids
    BY <1>0 DEF CliStands, Waiting, NamesHub, Issued
  <2>2. cli.pid # p => proc'[cli.pid] = proc[cli.pid]
    BY <1>0, <2>1 DEF TableMoves, Stays, Dies, Born, Typed
  <2> QED
    BY <2>1, <2>2
<1>4. CliStands'
  BY <1>0, <1>1, <1>3 DEF CliStands, Waiting
<1> QED
  BY <1>0, <1>2, <1>4 DEF TerminalStands, Typed

\* A lock that nobody touches stays its holder's.
LEMMA LockKept ==
  ASSUME HubInv, NEW p \in Pids, OnlyMoves(p), UNCHANGED <<lock, robbed>>,
         d'[p] \in Holding => d[p] \in Holding /\ proc'[p] = proc[p] /\ (d'[p] = "info" <=> d[p] = "info")
  PROVE  lock' \in Locks /\ LockStands'
<1>0. Typed /\ LockStands /\ TableMoves(p) /\ lock.pid \in Nat /\ lock.id \in Nat
  BY DEF HubInv, Typed, OnlyMoves, Locks
<1>1. lock.info => Issued(lock.pid, lock.id)'
  BY <1>0, NamesKept DEF LockStands
<1>2. ASSUME NEW q \in Pids, ~robbed, d'[q] \in Holding
      PROVE  lock = [HubLock(q)' EXCEPT !.info = d'[q] # "info"]
  <2>1. proc'[q] = proc[q] /\ d[q] \in Holding /\ (d'[q] = "info" <=> d[q] = "info")
    BY <1>0, <1>2 DEF OnlyMoves, TableMoves, Stays, Dies, Born, Typed
  <2>2. (d'[q] # "info") = (d[q] # "info")
    BY <2>1
  <2> QED
    BY <1>0, <1>2, <2>1, <2>2 DEF LockStands, HubLock
<1> QED
  BY <1>0, <1>1, <1>2 DEF LockStands, Typed

\* A lock that is removed, by its holder on its way out or with a note.
LEMMA LockGone ==
  ASSUME HubInv, lock' = NoLock,
         \A q \in Pids : d'[q] \notin Holding \/ robbed'
  PROVE  lock' \in Locks /\ LockStands'
  BY DEF NoLock, NoPid, Locks, LockStands

LEMMA LockIsNobodysElse ==
  ASSUME HubInv, NEW p \in Pids, Removed(p), \A q \in Pids \ {p} : d'[q] = d[q], d'[p] \notin Holding
  PROVE  lock' \in Locks /\ LockStands'
<1>1. ASSUME NEW q \in Pids, d'[q] \in Holding PROVE robbed'
  <2>1. robbed \/ lock = [HubLock(q) EXCEPT !.info = d[q] # "info"]
    BY <1>1 DEF HubInv, LockStands
  <2>2. q # p /\ q # 0
    BY <1>1
  <2>3. lock = [HubLock(q) EXCEPT !.info = d[q] # "info"] => lock.pid = q
    BY DEF HubLock
  <2>4. CASE ~robbed
    <3>1. lock # NoLock /\ ~ByMe(lock, p)
      BY <2>1, <2>2, <2>3, <2>4 DEF NoLock, NoPid, ByMe
    <3> QED
      BY <3>1, Zenon DEF Removed
  <2>5. CASE robbed
    BY <2>5, Zenon DEF Removed
  <2> QED
    BY <2>4, <2>5
<1> QED
  BY <1>1, LockGone DEF Removed

(***************************************************************************)
(* The daemon goes on, ends, or starts.                                    *)
(***************************************************************************)
LEMMA Goes ==
  ASSUME HubInv, NEW p \in Pids, d[p] # "off", NEW where \in Places \ {"off", "break"}, Go(p, where),
         UNCHANGED <<proc, judged, lock, robbed, count, cli, triple, misfired, killed>>,
         preStops' \in [Pids -> {0, 1}], \A q \in Pids \ {p} : preStops'[q] = preStops[q],
         HooksAt(where, preStops'[p]), where \in Holding => d[p] \in Owning /\ where # "info"
  PROVE  HubInv'
<1>0. Typed /\ TableStands
  BY DEF HubInv
<1>1. d' \in [Pids -> Places] /\ \A q \in Pids : d'[q] = IF q = p THEN where ELSE d[q]
  BY <1>0 DEF Go, Typed
<1>2. TableMoves(p)
  BY <1>0 DEF TableMoves, Stays, Typed
<1>3. OnlyMoves(p)
  BY <1>0, <1>1, <1>2 DEF OnlyMoves, Typed, IsHub
<1>4. d[p] \in Owning => d[p] # "info" /\ d[p] \in Holding
  BY DEF Owning, Holding
<1>5. lock' \in Locks /\ LockStands'
  BY <1>1, <1>3, <1>4, LockKept
<1>6. TerminalStands'
  BY <1>2, TerminalKept
<1> QED
  BY <1>3, <1>5, <1>6, MoveKeeps

LEMMA Dying ==
  ASSUME HubInv, NEW p \in Pids, Exited(p), UNCHANGED <<judged, preStops, count>>
  PROVE  /\ OnlyMoves(p) /\ TableMoves(p) /\ d'[p] = "off" /\ proc'[p] = Dead
         /\ \A q \in Pids \ {p} : d'[q] = d[q]
<1>0. Typed /\ TableStands
  BY DEF HubInv
<1>1. d' \in [Pids -> Places] /\ \A q \in Pids : d'[q] = IF q = p THEN "off" ELSE d[q]
  BY <1>0 DEF Exited, Typed, Places
<1>2. TableMoves(p) /\ proc'[p] = Dead
  BY <1>0 DEF TableMoves, Dies, Exited, Typed
<1>3. ~IsHub(p)'
  BY <1>2 DEF IsHub, Dead
<1>4. HooksAt("off", preStops'[p])
  BY <1>0 DEF HooksAt, Early, Typed
<1> QED
  BY <1>0, <1>1, <1>2, <1>3, <1>4 DEF OnlyMoves, Typed

LEMMA Ends ==
  ASSUME HubInv, NEW p \in Pids, Exited(p), UNCHANGED <<judged, preStops, count, cli, triple, misfired, killed>>,
         Removed(p) \/ UNCHANGED <<lock, robbed>>
  PROVE  HubInv'
<1>1. OnlyMoves(p) /\ TableMoves(p) /\ d'[p] \notin Holding /\ proc'[p].kind # "other" /\ \A q \in Pids \ {p} : d'[q] = d[q]
  BY Dying DEF Holding, Owning, Dead
<1>2. lock' \in Locks /\ LockStands'
  BY <1>1, LockKept, LockIsNobodysElse
<1>3. TerminalStands'
  BY <1>1, TerminalKept
<1> QED
  BY <1>1, <1>2, <1>3, MoveKeeps

LEMMA Starting ==
  ASSUME HubInv, NEW p \in Pids, Born(p, "hub"), d' = [d EXCEPT ![p] = "mkdir"],
         preStops' = [preStops EXCEPT ![p] = 0], judged' = [judged EXCEPT ![p] = NoLock],
         UNCHANGED <<lock, robbed>>
  PROVE  /\ OnlyMoves(p) /\ TableMoves(p) /\ lock' \in Locks /\ LockStands'
         /\ proc'[p] = [kind |-> "hub", id |-> count.procs + 1]
<1>0. Typed /\ TableStands
  BY DEF HubInv
<1>1. d' \in [Pids -> Places] /\ \A q \in Pids : d'[q] = IF q = p THEN "mkdir" ELSE d[q]
  BY <1>0 DEF Typed, Places
<1>2. TableMoves(p) /\ proc'[p] = [kind |-> "hub", id |-> count.procs + 1]
  BY <1>0 DEF TableMoves, Born, Typed
<1>3. IsHub(p)'
  BY <1>2 DEF IsHub
<1>4. preStops' \in [Pids -> {0, 1}] /\ \A q \in Pids : preStops'[q] = IF q = p THEN 0 ELSE preStops[q]
  BY <1>0 DEF Typed
<1>5. judged' \in [Pids -> Locks] /\ \A q \in Pids \ {p} : judged'[q] = judged[q]
  BY <1>0 DEF Typed, NoLock, NoPid, Locks
<1>6. OnlyMoves(p)
  BY <1>1, <1>2, <1>3, <1>4, <1>5 DEF OnlyMoves, HooksAt
<1>7. lock' \in Locks /\ LockStands'
  BY <1>1, <1>6, LockKept DEF Holding, Owning
<1> QED
  BY <1>2, <1>6, <1>7

LEMMA RunForegroundStep == ASSUME HubInv, NEW p \in Pids, RunForeground(p) PROVE HubInv'
<1>0. count \in [procs : Nat, cmds : Nat]
  BY DEF HubInv, Typed
<1>1. Born(p, "hub")
  <2>1. Spawned(p, "hub")
    BY DEF RunForeground, Booted
  <2> QED
    BY <1>0, <2>1 DEF Spawned, Born
<1>2. OnlyMoves(p) /\ TableMoves(p) /\ lock' \in Locks /\ LockStands' /\ proc'[p].kind = "hub"
  <2>1. /\ d' = [d EXCEPT ![p] = "mkdir"] /\ preStops' = [preStops EXCEPT ![p] = 0]
        /\ judged' = [judged EXCEPT ![p] = NoLock] /\ UNCHANGED <<lock, robbed>>
    BY DEF RunForeground, Booted
  <2>2. proc'[p] = [kind |-> "hub", id |-> count.procs + 1] => proc'[p].kind = "hub"
    OBVIOUS
  <2> QED
    BY <1>1, <2>1, <2>2, Starting
<1>3. TerminalStands'
  BY <1>2, TerminalKept DEF RunForeground, fileVars
<1> QED
  BY <1>2, <1>3, MoveKeeps

LEMMA OthersStep == ASSUME HubInv, NEW p \in Pids, OtherProcess(p) \/ OtherEnds(p) PROVE HubInv'
<1>0. Typed /\ TableStands
  BY DEF HubInv
<1>1. /\ UNCHANGED <<d, judged, preStops, lock, robbed, cli, triple, misfired, killed>> /\ d[p] = "off"
      /\ OtherProcess(p) => cli.at \notin Waiting
  BY <1>0 DEF OtherProcess, OtherEnds, Spawned, daemonVars, fileVars, TableStands, IsHub, Dead, Waiting
<1>2. TableMoves(p) /\ proc'[p].kind # "hub" /\ (OtherEnds(p) => proc'[p].kind = "dead")
  <2>1. CASE OtherProcess(p)
    <3>1. Born(p, "other") /\ proc'[p].kind = "other"
      BY <1>0, <2>1 DEF OtherProcess, Spawned, Born, Typed
    <3> QED
      BY <2>1, <3>1, <1>0 DEF TableMoves, OtherProcess, Spawned, OtherEnds, Dead
  <2>2. CASE OtherEnds(p)
    BY <1>0, <2>2 DEF OtherEnds, TableMoves, Dies, Typed, Dead
  <2> QED
    BY <2>1, <2>2
<1>3. OnlyMoves(p)
  BY <1>0, <1>1, <1>2 DEF OnlyMoves, Typed, IsHub, HooksAt, Early, HubInv, HooksStand
<1>4. lock' \in Locks /\ LockStands'
  BY <1>1, <1>3, LockKept DEF Holding, Owning
<1>5. TerminalStands'
  BY <1>1, <1>2, TerminalKept
<1> QED
  BY <1>3, <1>4, <1>5, MoveKeeps

(***************************************************************************)
(* The steps of the daemon chain.                                          *)
(***************************************************************************)
\* A place of the chain is a hub's, with its hooks counted.
LEMMA Here ==
  ASSUME HubInv, NEW p \in Pids
  PROVE  /\ Typed /\ TableStands /\ (d[p] # "off" => IsHub(p) /\ proc[p].id \in 1..count.procs)
         /\ preStops \in [Pids -> {0, 1}] /\ HooksAt(d[p], preStops[p]) /\ preStops[p] \in {0, 1}
         /\ p \in Nat /\ p # 0
<1>1. Typed /\ TableStands
  BY DEF HubInv
<1>2. d[p] # "off" => IsHub(p) /\ proc[p].id \in 1..count.procs
  BY <1>1 DEF TableStands, IsHub
<1>3. HooksAt(d[p], preStops[p])
  BY <1>1 DEF HubInv, HooksStand, HooksAt, Early, Typed
<1> QED
  BY <1>1, <1>2, <1>3 DEF Typed

LEMMA LockMkdirStep == ASSUME HubInv, NEW p \in Pids, LockMkdir(p) PROVE HubInv'
<1>0. /\ Typed /\ TableStands /\ d[p] \in {"mkdir", "recreate"} /\ preStops[p] = 0 /\ IsHub(p)
      /\ UNCHANGED <<judged, preStops, robbed, count, cli, triple, misfired, killed>>
      /\ preStops \in [Pids -> {0, 1}]
  BY Here DEF LockMkdir, StaysPut, fileVars, HooksAt, Early, Places
<1>1. CASE lock = NoLock
  <2>1. lock' = [HubLock(p) EXCEPT !.info = FALSE] /\ Go(p, "info") /\ UNCHANGED proc
    BY <1>1 DEF LockMkdir
  <2>2. d' \in [Pids -> Places] /\ \A q \in Pids : d'[q] = IF q = p THEN "info" ELSE d[q]
    BY <1>0, <2>1 DEF Go, Typed, Places
  <2>3. TableMoves(p)
    BY <1>0, <2>1 DEF TableMoves, Stays, Typed
  <2>4. OnlyMoves(p)
    BY <1>0, <2>1, <2>2, <2>3 DEF OnlyMoves, Typed, IsHub, HooksAt, Early
  <2>5. TerminalStands'
    BY <1>0, <2>1, <2>3, TerminalKept
  <2>6. ASSUME NEW q \in Pids, q # p, d'[q] \in Holding PROVE robbed
    <3>1. robbed \/ lock = [HubLock(q) EXCEPT !.info = d[q] # "info"]
      BY <2>2, <2>6 DEF HubInv, LockStands
    <3>2. lock = [HubLock(q) EXCEPT !.info = d[q] # "info"] => lock.pid = q
      BY DEF HubLock
    <3> QED
      BY <1>1, <3>1, <3>2, Here DEF NoLock, NoPid
  <2>7. HubLock(p)' = HubLock(p) /\ lock' \in Locks /\ lock'.info = FALSE
    BY <1>0, <2>1, Here DEF HubLock, Locks, Typed
  <2>8. lock' = [HubLock(p)' EXCEPT !.info = d'[p] # "info"]
    BY <2>1, <2>2, <2>7
  <2>9. LockStands'
    BY <1>0, <2>6, <2>7, <2>8 DEF LockStands
  <2> QED
    BY <2>4, <2>5, <2>7, <2>9, MoveKeeps
<1>2. CASE lock # NoLock /\ d[p] = "mkdir"
  <2>1. Go(p, "judge") /\ UNCHANGED <<proc, lock>>
    BY <1>2 DEF LockMkdir
  <2> QED
    BY <1>0, <2>1, Goes DEF Places, HooksAt, Early, Holding, Owning
<1>3. CASE lock # NoLock /\ d[p] # "mkdir"
  <2>1. Exited(p) /\ UNCHANGED lock
    BY <1>3 DEF LockMkdir
  <2> QED
    BY <1>0, <2>1, Ends
<1> QED
  BY <1>1, <1>2, <1>3

LEMMA LockInfoStep == ASSUME HubInv, NEW p \in Pids, LockInfo(p) PROVE HubInv'
<1>0. /\ Typed /\ TableStands /\ d[p] = "info" /\ preStops[p] = 0 /\ IsHub(p)
      /\ UNCHANGED <<judged, preStops, robbed, count, cli, triple, misfired, killed>>
      /\ preStops \in [Pids -> {0, 1}] /\ proc[p].id \in 1..count.procs
  BY Here DEF LockInfo, StaysPut, fileVars, HooksAt, Early, Places
<1>1. CASE lock = NoLock
  <2>1. Exited(p) /\ lock' = lock
    BY <1>1 DEF LockInfo, Exited, Go
  <2> QED
    BY <1>0, <2>1, Ends
<1>2. CASE lock # NoLock
  <2>1. lock' = HubLock(p) /\ Go(p, "prepare") /\ UNCHANGED proc
    BY <1>2 DEF LockInfo
  <2>2. d' \in [Pids -> Places] /\ \A q \in Pids : d'[q] = IF q = p THEN "prepare" ELSE d[q]
    BY <1>0, <2>1 DEF Go, Typed, Places
  <2>3. TableMoves(p)
    BY <1>0, <2>1 DEF TableMoves, Stays, Typed
  <2>4. OnlyMoves(p)
    BY <1>0, <2>1, <2>2, <2>3 DEF OnlyMoves, Typed, IsHub, HooksAt, Early
  <2>5. TerminalStands'
    BY <1>0, <2>1, <2>3, TerminalKept
  <2>6. ASSUME NEW q \in Pids, q # p, d'[q] \in Holding PROVE robbed
    <3>1. robbed \/ (lock = [HubLock(q) EXCEPT !.info = d[q] # "info"] /\ lock = [HubLock(p) EXCEPT !.info = d[p] # "info"])
      BY <1>0, <2>2, <2>6 DEF HubInv, LockStands, Holding
    <3>2. \A x \in Pids : lock = [HubLock(x) EXCEPT !.info = d[x] # "info"] => lock.pid = x
      BY DEF HubLock
    <3> QED
      BY <2>6, <3>1, <3>2
  <2>7. /\ HubLock(p)' = HubLock(p) /\ lock' \in Locks /\ lock'.info = TRUE
        /\ lock'.pid = p /\ lock'.id = proc[p].id
    BY <1>0, <2>1, Here DEF HubLock, Locks, Typed
  <2>8. lock' = [HubLock(p)' EXCEPT !.info = d'[p] # "info"]
    BY <2>1, <2>2, <2>7 DEF HubLock
  <2>9. Issued(p, proc[p].id)'
    <3>1. proc[p].id # 0
      BY <1>0 DEF Typed
    <3>2. Issued(p, proc[p].id)
      BY <1>0, <3>1 DEF Issued, TableStands
    <3> QED
      BY <1>0, <2>1, <3>2 DEF Issued
  <2>10. LockStands'
    BY <1>0, <2>1, <2>6, <2>7, <2>8, <2>9 DEF LockStands
  <2> QED
    BY <2>4, <2>5, <2>7, <2>10, MoveKeeps
<1> QED
  BY <1>1, <1>2

LEMMA LockJudgeStep == ASSUME HubInv, NEW p \in Pids, LockJudge(p) PROVE HubInv'
<1>0. /\ Typed /\ TableStands /\ d[p] = "judge" /\ preStops[p] = 0 /\ IsHub(p)
      /\ UNCHANGED <<preStops, lock, robbed, count, cli, triple, misfired, killed>>
  BY Here DEF LockJudge, StaysPut, fileVars, HooksAt, Early, Places
<1>1. CASE Stale(lock) /\ judged' = [judged EXCEPT ![p] = lock] /\ Go(p, "break") /\ UNCHANGED proc
  <2>1. d' \in [Pids -> Places] /\ \A q \in Pids : d'[q] = IF q = p THEN "break" ELSE d[q]
    BY <1>0, <1>1 DEF Go, Typed, Places
  <2>2. TableMoves(p)
    BY <1>0, <1>1 DEF TableMoves, Stays, Typed
  <2>3. judged' \in [Pids -> Locks] /\ \A q \in Pids : judged'[q] = IF q = p THEN lock ELSE judged[q]
    BY <1>0, <1>1 DEF Typed
  <2>4. lock.info /\ Issued(lock.pid, lock.id) /\ proc[lock.pid].id = 0
    BY <1>1 DEF Stale, HubInv, LockStands, Dead
  <2>5. lock.id \in 1..count.procs /\ \A q \in Pids : proc[q].id # lock.id
    BY <2>4 DEF Issued
  <2>6. OnlyMoves(p)
    BY <1>0, <1>1, <2>1, <2>2, <2>3, <2>4, <2>5 DEF OnlyMoves, Typed, IsHub, HooksAt, Early
  <2>7. lock' \in Locks /\ LockStands'
    BY <1>0, <2>1, <2>6, LockKept DEF Holding, Owning
  <2>8. TerminalStands'
    BY <1>0, <1>1, <2>2, TerminalKept
  <2> QED
    BY <2>6, <2>7, <2>8, MoveKeeps
<1>2. CASE Exited(p) /\ UNCHANGED judged
  BY <1>0, <1>2, Ends
<1> QED
  BY <1>1, <1>2 DEF LockJudge

LEMMA LockBreakStep == ASSUME HubInv, NEW p \in Pids, LockBreak(p) PROVE HubInv'
<1>0. /\ Typed /\ TableStands /\ d[p] = "break" /\ preStops[p] = 0 /\ IsHub(p) /\ lock' = NoLock
      /\ UNCHANGED <<proc, judged, preStops, count, cli, triple, misfired, killed>>
  BY Here DEF LockBreak, StaysPut, fileVars, HooksAt, Early, Places
<1>1. d' \in [Pids -> Places] /\ \A q \in Pids : d'[q] = IF q = p THEN "recreate" ELSE d[q]
  BY <1>0 DEF LockBreak, Go, Typed, Places
<1>2. TableMoves(p)
  BY <1>0 DEF TableMoves, Stays, Typed
<1>3. OnlyMoves(p)
  BY <1>0, <1>1, <1>2 DEF OnlyMoves, Typed, IsHub, HooksAt, Early
<1>4. ASSUME NEW q \in Pids, d'[q] \in Holding PROVE robbed'
  <2>1. q # p /\ q # 0 /\ d[q] \in Holding
    BY <1>1, <1>4, Here DEF Holding, Owning
  <2>2. CASE robbed
    BY <2>2, Zenon DEF LockBreak
  <2>3. CASE ~robbed
    <3>1. lock = [HubLock(q) EXCEPT !.info = d[q] # "info"]
      BY <2>1, <2>3 DEF HubInv, LockStands
    <3>2. lock.pid = q /\ lock.id = proc[q].id
      BY <3>1 DEF HubLock
    <3>3. judged[p].id # proc[q].id
      BY <1>0 DEF HubInv, JudgedStands
    <3>4. lock # NoLock /\ lock # judged[p]
      BY <2>1, <3>2, <3>3 DEF NoLock, NoPid
    <3> QED
      BY <3>4, Zenon DEF LockBreak
  <2> QED
    BY <2>2, <2>3
<1>5. lock' \in Locks /\ LockStands'
  BY <1>0, <1>4, LockGone
<1>6. TerminalStands'
  BY <1>0, <1>2, TerminalKept
<1> QED
  BY <1>3, <1>5, <1>6, MoveKeeps

LEMMA prepareChainStep == ASSUME HubInv, NEW p \in Pids, prepareChain(p) PROVE HubInv'
<1>0. /\ d[p] = "prepare" /\ preStops[p] = 0 /\ preStops \in [Pids -> {0, 1}]
      /\ UNCHANGED <<judged, preStops, count, cli, triple, misfired, killed>>
  BY Here DEF prepareChain, StaysPut, fileVars, HooksAt, Early, Places
<1>1. CASE Go(p, "starting") /\ UNCHANGED <<proc, lock, robbed>>
  BY <1>0, <1>1, Goes DEF Places, HooksAt, Holding, Owning
<1>2. CASE Exited(p) /\ (Removed(p) \/ UNCHANGED <<lock, robbed>>)
  BY <1>0, <1>2, Ends
<1> QED
  BY <1>1, <1>2 DEF prepareChain

LEMMA startServerStep == ASSUME HubInv, NEW p \in Pids, startServer(p) PROVE HubInv'
<1>0. /\ d[p] = "starting" /\ preStops[p] = 0 /\ preStops \in [Pids -> {0, 1}]
      /\ UNCHANGED <<proc, judged, preStops, lock, robbed, count, cli, triple, misfired, killed>> /\ Go(p, "ready")
  BY Here DEF startServer, StaysPut, fileVars, HooksAt, Early, Places
<1> QED
  BY <1>0, Goes DEF Places, HooksAt, Holding, Owning

LEMMA waitForGatewayReadyStep == ASSUME HubInv, NEW p \in Pids, waitForGatewayReady(p) PROVE HubInv'
<1>0. /\ d[p] = "ready" /\ preStops[p] = 0 /\ preStops \in [Pids -> {0, 1}]
      /\ UNCHANGED <<judged, preStops, count, cli, triple, misfired, killed>>
  BY Here DEF waitForGatewayReady, StaysPut, fileVars, HooksAt, Early, Places
<1>1. CASE Go(p, "verify") /\ UNCHANGED <<proc, lock, robbed>>
  BY <1>0, <1>1, Goes DEF Places, HooksAt, Holding, Owning
<1>2. CASE StopAndFail(p)
  BY <1>0, <1>2, Ends DEF StopAndFail
<1> QED
  BY <1>1, <1>2 DEF waitForGatewayReady

LEMMA verifyAdminMountedStep == ASSUME HubInv, NEW p \in Pids, verifyAdminMounted(p) PROVE HubInv'
<1>0. /\ d[p] = "verify" /\ preStops[p] = 0 /\ preStops \in [Pids -> {0, 1}]
      /\ UNCHANGED <<judged, preStops, count, cli, triple, misfired, killed>>
  BY Here DEF verifyAdminMounted, StaysPut, fileVars, HooksAt, Early, Places
<1>1. CASE Go(p, "serve") /\ UNCHANGED <<proc, lock, robbed>>
  BY <1>0, <1>1, Goes DEF Places, HooksAt, Holding, Owning
<1>2. CASE StopAndFail(p)
  BY <1>0, <1>2, Ends DEF StopAndFail
<1> QED
  BY <1>1, <1>2 DEF verifyAdminMounted

\* The end of the server, the hooks and the stop leave the lock alone.
LEMMA WindingDownStep ==
  ASSUME HubInv, NEW p \in Pids, serverExited(p) \/ runPreStop(p) \/ stopServer(p)
  PROVE  HubInv'
<1>0. PICK where \in {"stopServer", "release"} :
        /\ d[p] \in {"serve", "preStop", "stopServer"} /\ (where = "stopServer" => d[p] = "preStop") /\ Go(p, where)
        /\ UNCHANGED <<proc, judged, preStops, lock, robbed, count, cli, triple, misfired, killed>>
  BY DEF serverExited, runPreStop, stopServer, StaysPut, fileVars
<1>1. HooksAt(where, preStops[p]) /\ preStops \in [Pids -> {0, 1}]
  BY <1>0, Here DEF HooksAt, Early
<1> QED
  BY <1>0, <1>1, Goes DEF Places, Holding, Owning

LEMMA ReleaseStep == ASSUME HubInv, NEW p \in Pids, Release(p) PROVE HubInv'
<1>0. /\ d[p] = "release" /\ Removed(p) /\ UNCHANGED <<judged, preStops, count, cli, triple, misfired, killed>>
      /\ preStops \in [Pids -> {0, 1}] /\ HooksAt("release", preStops[p]) /\ Typed
  BY Here DEF Release, StaysPut, fileVars
<1>1. CASE Exited(p)
  BY <1>0, <1>1, Ends
<1>2. CASE UNCHANGED <<proc, d>>
  <2>1. TableMoves(p)
    BY <1>0, <1>2 DEF TableMoves, Stays, Typed
  <2>2. OnlyMoves(p)
    BY <1>0, <1>2, <2>1 DEF OnlyMoves, Typed, IsHub
  <2>3. lock' \in Locks /\ LockStands'
    BY <1>0, <1>2, LockIsNobodysElse DEF Holding, Owning
  <2>4. TerminalStands'
    BY <1>0, <1>2, <2>1, TerminalKept
  <2> QED
    BY <2>2, <2>3, <2>4, MoveKeeps
<1> QED
  BY <1>1, <1>2 DEF Release

\* A signal moves the daemon it reaches, never the lock.
LEMMA SignalMoves ==
  ASSUME HubInv, NEW p \in Pids, IsHub(p), Signalled(p), UNCHANGED <<judged, lock, robbed, count>>
  PROVE  /\ OnlyMoves(p) /\ TableMoves(p) /\ proc'[p].kind # "other" /\ lock' \in Locks /\ LockStands'
<1>0. Typed /\ TableStands /\ d[p] # "off" /\ HooksAt(d[p], preStops[p]) /\ preStops \in [Pids -> {0, 1}]
  BY Here DEF TableStands
<1>1. CASE d[p] = "serve"
  <2>1. Go(p, "preStop") /\ preStops' = [preStops EXCEPT ![p] = preStops[p] + 1] /\ UNCHANGED proc /\ preStops[p] = 0
    BY <1>0, <1>1 DEF Signalled, HooksAt, Early, Places
  <2>2. d' \in [Pids -> Places] /\ \A q \in Pids : d'[q] = IF q = p THEN "preStop" ELSE d[q]
    BY <1>0, <2>1 DEF Go, Typed, Places
  <2>3. preStops' \in [Pids -> {0, 1}] /\ \A q \in Pids : preStops'[q] = IF q = p THEN 1 ELSE preStops[q]
    BY <1>0, <2>1
  <2>4. TableMoves(p) /\ proc'[p].kind # "other"
    BY <1>0, <2>1 DEF TableMoves, Stays, Typed, IsHub
  <2>5. OnlyMoves(p)
    BY <1>0, <1>1, <2>1, <2>2, <2>3, <2>4 DEF OnlyMoves, Typed, IsHub, HooksAt, Early
  <2>6. d[p] \in Holding /\ d'[p] # "info" /\ d[p] # "info" /\ proc'[p] = proc[p]
    BY <1>1, <2>1, <2>2 DEF Holding, Owning
  <2> QED
    BY <2>4, <2>5, <2>6, LockKept
<1>2. CASE d[p] \in {"preStop", "stopServer", "release"}
  <2>1. UNCHANGED <<proc, d, preStops>>
    BY <1>2 DEF Signalled
  <2>2. TableMoves(p) /\ proc'[p].kind # "other"
    BY <1>0, <2>1 DEF TableMoves, Stays, Typed, IsHub
  <2>3. OnlyMoves(p)
    BY <1>0, <1>2, <2>1, <2>2 DEF OnlyMoves, Typed, IsHub
  <2> QED
    BY <2>1, <2>2, <2>3, LockKept
<1>3. CASE d[p] \notin {"serve", "preStop", "stopServer", "release"}
  <2>1. Exited(p) /\ UNCHANGED preStops
    BY <1>3 DEF Signalled
  <2>2. OnlyMoves(p) /\ TableMoves(p) /\ d'[p] = "off" /\ proc'[p] = Dead
    BY <2>1, Dying
  <2>3. Dead.kind # "other"
    BY DEF Dead
  <2> QED
    BY <2>2, <2>3, LockKept DEF Holding, Owning
<1> QED
  BY <1>1, <1>2, <1>3

LEMMA InterruptStep == ASSUME HubInv, NEW p \in Pids, Interrupt(p) PROVE HubInv'
<1>1. IsHub(p) /\ Signalled(p) /\ UNCHANGED <<judged, lock, robbed, count, cli, triple, misfired, killed>>
  BY DEF Interrupt, StaysPut, fileVars
<1>2. OnlyMoves(p) /\ TableMoves(p) /\ proc'[p].kind # "other" /\ lock' \in Locks /\ LockStands'
  BY <1>1, SignalMoves
<1> QED
  BY <1>1, <1>2, TerminalKept, MoveKeeps

(***************************************************************************)
(* The steps of the terminal.                                              *)
(***************************************************************************)
\* A command that no process notices.
LEMMA Types ==
  ASSUME HubInv, UNCHANGED <<proc, d, judged, preStops, lock, robbed>>,
         count' \in [procs : Nat, cmds : Nat], count'.procs = count.procs, TerminalStands'
  PROVE  HubInv'
  BY DEF HubInv, Typed, TerminalStands, TableStands, LockStands, JudgedStands, HooksStand, HubLock, IsHub, Issued

\* Where the command is alone changes, or to a place where it names nothing.
LEMMA PlainCommand ==
  ASSUME HubInv, UNCHANGED <<proc, d, judged, preStops, lock, robbed, triple, misfired, killed>>,
         count' \in [procs : Nat, cmds : Nat], count'.procs = count.procs,
         cli' \in [at : CliPlaces, pid : Nat, id : Nat], cli'.at \in {"idle", "selfCheck", "verify", "fallback"}
  PROVE  HubInv'
<1>1. TerminalStands'
  BY DEF HubInv, Typed, TerminalStands, TripleStands, CliStands, NamesHub, Issued, IsHub
<1> QED
  BY <1>1, Types

LEMMA AtTyped ==
  ASSUME HubInv, NEW where \in CliPlaces
  PROVE  At(where) \in [at : CliPlaces, pid : Nat, id : Nat] /\ At(where).at = where
         /\ At(where).pid = cli.pid /\ At(where).id = cli.id
  BY DEF At, HubInv, Typed

LEMMA CommandCounted ==
  ASSUME HubInv, count' = [count EXCEPT !.cmds = @ + 1]
  PROVE  count' \in [procs : Nat, cmds : Nat] /\ count'.procs = count.procs
<1>1. count \in [procs : Nat, cmds : Nat]
  BY DEF HubInv, Typed
<1> QED
  BY <1>1

LEMMA SetUpStep == ASSUME HubInv, hubInit \/ autostartOn \/ autostartOff \/ hubStop PROVE HubInv'
<1>1. /\ UNCHANGED <<proc, d, judged, preStops, lock, robbed, triple, misfired, killed>>
      /\ count' = [count EXCEPT !.cmds = @ + 1] /\ \E where \in {"idle", "selfCheck", "verify"} : cli' = At(where)
  BY DEF hubInit, autostartOn, autostartOff, hubStop, Command, daemonVars
<1>2. cli' \in [at : CliPlaces, pid : Nat, id : Nat] /\ cli'.at \in {"idle", "selfCheck", "verify", "fallback"}
  BY <1>1, AtTyped DEF CliPlaces
<1> QED
  BY <1>1, <1>2, CommandCounted, PlainCommand

LEMMA SelfCheckStep == ASSUME HubInv, runInitSelfCheck PROVE HubInv'
<1>1. /\ UNCHANGED <<proc, d, judged, preStops, lock, robbed, triple, misfired, count, killed>> /\ cli' = At("idle")
  BY DEF runInitSelfCheck, daemonVars
<1>2. count' \in [procs : Nat, cmds : Nat] /\ count'.procs = count.procs
  BY <1>1 DEF HubInv, Typed
<1>3. cli' \in [at : CliPlaces, pid : Nat, id : Nat] /\ cli'.at = "idle"
  BY <1>1, AtTyped DEF CliPlaces
<1> QED
  BY <1>1, <1>2, <1>3, PlainCommand

LEMMA hubStartStep == ASSUME HubInv, NEW p \in Pids, hubStart(p) PROVE HubInv'
<1>0. /\ UNCHANGED <<lock, robbed, triple, misfired, killed>> /\ Typed /\ TableStands /\ TripleStands /\ ~misfired
      /\ triple.pid \in Nat /\ triple.id \in Nat
  BY DEF hubStart, HubInv, Typed
<1>1. CASE hub.autostart
  <2>1. UNCHANGED <<proc, d, judged, preStops, cli>> /\ count' = [count EXCEPT !.cmds = @ + 1] /\ cli.at = "idle"
    BY <1>1 DEF hubStart, daemonVars
  <2>2. cli \in [at : CliPlaces, pid : Nat, id : Nat]
    BY <1>0 DEF Typed
  <2> QED
    BY <1>0, <2>1, <2>2, CommandCounted, PlainCommand
<1>2. CASE ~hub.autostart
  <2>1. /\ proc[p] = Dead /\ proc' = [proc EXCEPT ![p] = [kind |-> "hub", id |-> count.procs + 1]]
        /\ count' = [procs |-> count.procs + 1, cmds |-> count.cmds + 1]
        /\ d' = [d EXCEPT ![p] = "mkdir"] /\ preStops' = [preStops EXCEPT ![p] = 0]
        /\ judged' = [judged EXCEPT ![p] = NoLock] /\ cli' = [at |-> "watch", pid |-> p, id |-> count.procs + 1]
    BY <1>2 DEF hubStart
  <2>2. count.procs \in Nat /\ count.cmds \in Nat
    BY <1>0 DEF Typed
  <2>3. count' \in [procs : Nat, cmds : Nat] /\ count'.procs = count.procs + 1
    BY <2>1, <2>2
  <2>4. Born(p, "hub")
    BY <2>1, <2>3 DEF Born
  <2>5. /\ OnlyMoves(p) /\ TableMoves(p) /\ lock' \in Locks /\ LockStands'
        /\ proc'[p] = [kind |-> "hub", id |-> count.procs + 1]
    BY <1>0, <2>1, <2>4, Starting
  <2>6. TripleStands'
    BY <1>0, <2>5, NamesKept DEF TripleStands
  <2>7. PICK n \in Nat : n = count.procs + 1
    BY <2>2
  <2>8. NamesHub(p, n)'
    <3>1. \A q \in Pids : q # p => proc'[q] = proc[q]
      BY <1>0, <2>1 DEF Typed
    <3>2. \A q \in Pids : proc[q].id = 0 \/ proc[q].id \in 1..count.procs
      BY <1>0 DEF TableStands
    <3>3. \A q \in Pids : q # p => proc'[q].id # n
      BY <2>2, <2>7, <3>1, <3>2
    <3>4. n \in 1..count'.procs
      BY <2>2, <2>3, <2>7
    <3>5. IsHub(p)'
      BY <2>5 DEF IsHub
    <3> QED
      BY <3>3, <3>4, <3>5 DEF NamesHub, Issued
  <2>9. cli' \in [at : CliPlaces, pid : Nat, id : Nat] /\ cli'.at = "watch" /\ CliStands'
    <3>1. cli' = [at |-> "watch", pid |-> p, id |-> n] /\ p \in Nat
      BY <2>1, <2>7
    <3>2. cli'.pid = p /\ cli'.id = n /\ cli'.at = "watch"
      BY <3>1
    <3>3. cli' \in [at : CliPlaces, pid : Nat, id : Nat]
      BY <3>1 DEF CliPlaces
    <3> QED
      BY <2>8, <3>2, <3>3 DEF CliStands
  <2>10. TerminalStands'
    BY <1>0, <2>6, <2>9 DEF TerminalStands, Typed
  <2> QED
    BY <2>5, <2>10, MoveKeeps
<1> QED
  BY <1>1, <1>2

LEMMA WatchStep == ASSUME HubInv, writeHubPidTriple PROVE HubInv'
<1>0. /\ UNCHANGED <<proc, d, judged, preStops, lock, robbed, misfired, count, killed>> /\ cli' = At("idle")
      /\ cli.at = "watch" /\ Typed /\ NamesHub(cli.pid, cli.id) /\ ~misfired /\ TripleStands
      /\ cli.pid \in Pids /\ cli.pid \in Nat /\ cli.id \in Nat
  BY DEF writeHubPidTriple, daemonVars, HubInv, CliStands, NamesHub, Issued, Typed
<1>1. cli' \in [at : CliPlaces, pid : Nat, id : Nat] /\ cli'.at = "idle"
  BY <1>0, AtTyped DEF CliPlaces
<1>2. \/ triple' = triple
      \/ \E id \in {0, cli.id} : triple' = [pid |-> cli.pid, id |-> id]
  BY DEF writeHubPidTriple
<1>3. triple' \in [pid : Nat, id : Nat] /\ TripleStands'
  <2>1. CASE triple' = triple
    BY <1>0, <2>1 DEF Typed, TripleStands, NamesHub, Issued, IsHub
  <2>2. ASSUME NEW id \in {0, cli.id}, triple' = [pid |-> cli.pid, id |-> id]
        PROVE  triple' \in [pid : Nat, id : Nat] /\ TripleStands'
    <3>1. triple'.pid = cli.pid /\ triple'.id = id /\ triple' \in [pid : Nat, id : Nat]
      BY <1>0, <2>2
    <3>2. NamesHub(cli.pid, cli.id) => (id = 0 \/ NamesHub(triple'.pid, triple'.id))
      BY <3>1
    <3>3. triple'.id = 0 \/ (Issued(triple.pid, triple.id)' /\ (proc[triple.pid].id = triple.id => IsHub(triple.pid))')
      BY <1>0, <3>1, <3>2 DEF NamesHub, Issued, IsHub
    <3> QED
      BY <1>0, <3>1, <3>3 DEF TripleStands, NamesHub
  <2> QED
    BY <1>2, <2>1, <2>2
<1>4. TerminalStands'
  BY <1>0, <1>1, <1>3 DEF TerminalStands, CliStands
<1>5. count' \in [procs : Nat, cmds : Nat] /\ count'.procs = count.procs
  BY <1>0 DEF Typed
<1> QED
  BY <1>0, <1>4, <1>5, Types

LEMMA VerifyStep == ASSUME HubInv, verifyPidTriple PROVE HubInv'
<1>0. /\ UNCHANGED <<proc, d, judged, preStops, lock, robbed, misfired, count, killed>> /\ Typed /\ TripleStands /\ TableStands
      /\ ~misfired /\ count' \in [procs : Nat, cmds : Nat] /\ count'.procs = count.procs
  BY DEF verifyPidTriple, daemonVars, HubInv, Typed
<1>1. CASE triple = NoTriple
  <2>1. cli' = At("fallback") /\ UNCHANGED triple
    BY <1>1 DEF verifyPidTriple
  <2>2. cli' \in [at : CliPlaces, pid : Nat, id : Nat] /\ cli'.at = "fallback"
    BY <2>1, AtTyped DEF CliPlaces
  <2> QED
    BY <1>0, <2>1, <2>2, PlainCommand
<1>2. CASE triple # NoTriple /\ Matches(triple)
  <2>1. cli' = [at |-> "signal", pid |-> triple.pid, id |-> triple.id] /\ UNCHANGED triple
    BY <1>2 DEF verifyPidTriple
  <2>2. triple.pid \in Pids /\ proc[triple.pid].id = triple.id /\ proc[triple.pid] # Dead
    BY <1>0, <1>2 DEF TripleStands, Matches
  <2>3. proc[triple.pid].kind # "dead"
    <3>1. proc[triple.pid] \in [kind : Kinds, id : Nat]
      BY <1>0, <2>2 DEF Typed
    <3>2. proc[triple.pid] = [kind |-> proc[triple.pid].kind, id |-> proc[triple.pid].id]
      BY <3>1
    <3> QED
      BY <1>0, <2>2, <3>2 DEF TableStands, Dead
  <2>4. triple.id # 0
    BY <1>0, <2>2, <2>3 DEF TableStands, Typed
  <2>5. IsHub(triple.pid)
    BY <1>0, <1>2, <2>2, <2>4 DEF TripleStands, NamesHub
  <2>6. cli' \in [at : CliPlaces, pid : Nat, id : Nat] /\ cli'.at = "signal" /\ cli'.pid = triple.pid
    BY <1>0, <2>1 DEF Typed, CliPlaces
  <2>7. TerminalStands'
    BY <1>0, <2>1, <2>2, <2>5, <2>6 DEF TerminalStands, CliStands, IsHub, TripleStands, NamesHub, Issued, Typed
  <2> QED
    BY <1>0, <2>7, Types
<1>3. CASE triple # NoTriple /\ ~Matches(triple)
  <2>1. cli' = At("idle") /\ triple' = NoTriple
    BY <1>3 DEF verifyPidTriple
  <2>2. cli' \in [at : CliPlaces, pid : Nat, id : Nat] /\ cli'.at = "idle"
    BY <2>1, AtTyped DEF CliPlaces
  <2>3. TerminalStands'
    BY <1>0, <2>1, <2>2 DEF TerminalStands, CliStands, TripleStands, NoTriple, NoPid
  <2> QED
    BY <1>0, <2>3, Types
<1> QED
  BY <1>1, <1>2, <1>3

\* Removing the lock of a holder that is no hub takes it from nobody.
LEMMA LockHolderStep == ASSUME HubInv, lockHolder PROVE HubInv'
<1>0. /\ UNCHANGED <<proc, d, judged, preStops, robbed, triple, misfired, count, killed>> /\ Typed /\ TableStands
      /\ LockStands /\ TripleStands /\ ~misfired /\ count' \in [procs : Nat, cmds : Nat] /\ count'.procs = count.procs
  BY DEF lockHolder, daemonVars, fileVars, HubInv, Typed
<1>1. CASE lock.info /\ IsHub(lock.pid)
  <2>1. cli' = [at |-> "lockSignal", pid |-> lock.pid, id |-> proc[lock.pid].id] /\ UNCHANGED lock
    BY <1>1 DEF lockHolder
  <2>2. lock.pid \in Pids /\ lock.pid \in Nat
    BY <1>0, <1>1 DEF LockStands, Issued
  <2>3. proc[lock.pid].id \in 1..count.procs /\ proc[lock.pid].id # 0 /\ proc[lock.pid].id \in Nat
    BY <1>0, <1>1, <2>2 DEF TableStands, Typed, IsHub
  <2>4. NamesHub(lock.pid, proc[lock.pid].id)
    BY <1>0, <1>1, <2>2, <2>3 DEF NamesHub, Issued, TableStands
  <2>5. PICK id \in Nat : id = proc[lock.pid].id
    BY <2>3
  <2>6. PICK pid \in Pids : pid = lock.pid
    BY <2>2
  <2>7. cli' \in [at : CliPlaces, pid : Nat, id : Nat] /\ cli'.at = "lockSignal" /\ cli'.pid = pid /\ cli'.id = id
    BY <2>1, <2>2, <2>3, <2>5, <2>6 DEF CliPlaces
  <2>8. NamesHub(pid, id)' /\ proc'[pid].kind # "other"
    BY <1>0, <1>1, <2>4, <2>5, <2>6 DEF NamesHub, Issued, IsHub
  <2>9. TerminalStands'
    BY <1>0, <2>7, <2>8 DEF TerminalStands, CliStands, TripleStands, NamesHub, Issued, IsHub, Typed
  <2> QED
    BY <1>0, <2>1, <2>9, Types
<1>2. CASE ~(lock.info /\ IsHub(lock.pid))
  <2>1. cli' = At("idle") /\ lock' = IF lock.info THEN NoLock ELSE lock
    BY <1>2 DEF lockHolder
  <2>2. cli' \in [at : CliPlaces, pid : Nat, id : Nat] /\ cli'.at = "idle"
    BY <2>1, AtTyped DEF CliPlaces
  <2>3. CASE ~lock.info
    BY <1>0, <2>1, <2>2, <2>3, PlainCommand
  <2>4. CASE lock.info
    <3>1. ASSUME NEW q \in Pids, d[q] \in Holding PROVE robbed
      <4>1. robbed \/ lock = [HubLock(q) EXCEPT !.info = d[q] # "info"]
        BY <1>0, <3>1 DEF LockStands
      <4>2. lock = [HubLock(q) EXCEPT !.info = d[q] # "info"] => lock.pid = q
        BY DEF HubLock
      <4>3. IsHub(q)
        BY <3>1, Here DEF Holding, Owning
      <4> QED
        BY <1>2, <2>4, <4>1, <4>2, <4>3
    <3>2. lock' \in Locks /\ LockStands'
      BY <1>0, <2>1, <2>4, <3>1, LockGone
    <3>3. TerminalStands'
      BY <1>0, <2>2 DEF TerminalStands, CliStands, TripleStands, NamesHub, Issued, IsHub, Typed
    <3>4. Typed' /\ TableStands' /\ JudgedStands' /\ HooksStand'
      BY <1>0, <3>2, <3>3 DEF Typed, TerminalStands, HubInv, TableStands, JudgedStands, HooksStand, IsHub
    <3> QED
      BY <3>2, <3>3, <3>4 DEF HubInv, TerminalStands
  <2> QED
    BY <2>3, <2>4
<1> QED
  BY <1>1, <1>2

\* The signal goes to a hub, or to nobody.
LEMMA SignalDaemonStep == ASSUME HubInv, signalDaemon PROVE HubInv'
<1>0. /\ UNCHANGED <<judged, lock, robbed, triple, count>> /\ Typed /\ CliStands /\ TripleStands /\ ~misfired
      /\ cli.at \in {"signal", "lockSignal"} /\ cli' = At(IF cli.at = "signal" THEN "wait" ELSE "lockWait")
  BY DEF signalDaemon, fileVars, HubInv
<1>1. cli.pid \in Pids /\ proc[cli.pid].kind # "other" /\ (cli.at = "lockSignal" => NamesHub(cli.pid, cli.id))
  BY <1>0 DEF CliStands, NamesHub, Issued
<1>2. PICK p \in Pids : p = cli.pid
  BY <1>1
<1>3. /\ cli' \in [at : CliPlaces, pid : Nat, id : Nat] /\ cli'.pid = p /\ cli'.id = cli.id
      /\ cli'.at = IF cli.at = "signal" THEN "wait" ELSE "lockWait"
  BY <1>0, <1>2, AtTyped DEF CliPlaces
<1>4. ~misfired'
  <2>1. proc[p] # Dead => IsHub(p)
    <3>1. proc[p] \in [kind : Kinds, id : Nat] /\ TableStands
      BY <1>0 DEF Typed, HubInv
    <3>2. proc[p] = [kind |-> proc[p].kind, id |-> proc[p].id] /\ proc[p].kind \in Kinds
      BY <3>1
    <3> QED
      BY <1>1, <1>2, <3>1, <3>2 DEF TableStands, Dead, IsHub, Kinds
  <2> QED
    BY <1>0, <1>2, <2>1, Zenon DEF signalDaemon
<1>5. OnlyMoves(p) /\ TableMoves(p) /\ proc'[p].kind # "other" /\ lock' \in Locks /\ LockStands'
  <2>1. CASE IsHub(p)
    <3>1. Signalled(p)
      BY <1>2, <2>1 DEF signalDaemon
    <3> QED
      BY <1>0, <2>1, <3>1, SignalMoves
  <2>2. CASE ~IsHub(p)
    <3>1. UNCHANGED <<proc, d, preStops>>
      BY <1>2, <2>2 DEF signalDaemon
    <3>2. TableMoves(p) /\ proc'[p].kind # "other"
      BY <1>0, <1>1, <1>2, <3>1 DEF TableMoves, Stays, Typed
    <3>3. d[p] = "off" /\ HooksAt("off", preStops[p])
      BY <2>2, Here
    <3>4. OnlyMoves(p)
      BY <1>0, <3>1, <3>2, <3>3 DEF OnlyMoves, Typed, IsHub
    <3> QED
      BY <1>0, <3>1, <3>2, <3>3, <3>4, LockKept DEF Holding, Owning
  <2> QED
    BY <2>1, <2>2
<1>6. TripleStands'
  <2>1. triple.pid \in Nat /\ triple.id \in Nat
    BY <1>0 DEF Typed
  <2> QED
    BY <1>0, <1>5, <2>1, NamesKept DEF TripleStands
<1>7. CliStands'
  <2>1. PICK id \in Nat : id = cli.id
    BY <1>0 DEF Typed
  <2>2. NamesHub(p, id) => NamesHub(p, id)'
    BY <1>5, NamesKept, Here
  <2> QED
    BY <1>0, <1>1, <1>2, <1>3, <1>5, <2>1, <2>2 DEF CliStands
<1>8. TerminalStands'
  BY <1>0, <1>3, <1>4, <1>6, <1>7 DEF TerminalStands, Typed
<1> QED
  BY <1>5, <1>8, MoveKeeps

\* The kill reaches a hub, and the lock that goes is the one that was meant.
LEMMA WaitStoppedStep == ASSUME HubInv, waitStopped PROVE HubInv'
<1>0. /\ UNCHANGED <<judged, preStops, count>> /\ Typed /\ TableStands /\ CliStands /\ TripleStands /\ LockStands /\ ~misfired
      /\ cli.at \in {"wait", "lockWait"} /\ cli' = At("idle")
  BY DEF waitStopped, HubInv
<1>1. cli.pid \in Pids /\ proc[cli.pid].kind # "other" /\ (cli.at = "lockWait" => NamesHub(cli.pid, cli.id))
  BY <1>0 DEF CliStands, NamesHub, Issued
<1>2. PICK p \in Pids : p = cli.pid
  BY <1>1
<1>3. cli' \in [at : CliPlaces, pid : Nat, id : Nat] /\ cli'.at = "idle"
  BY <1>0, AtTyped DEF CliPlaces
<1>4. OnlyMoves(p) /\ TableMoves(p) /\ d'[p] = "off" /\ ~misfired' /\ \A q \in Pids \ {p} : d'[q] = d[q]
  <2>1. CASE proc[p] = Dead
    <3>1. UNCHANGED <<proc, d, misfired, killed>>
      BY <1>2, <2>1 DEF waitStopped
    <3>2. TableMoves(p) /\ d[p] = "off"
      BY <1>0, <2>1, <3>1 DEF TableMoves, Stays, Typed, TableStands, IsHub, Dead
    <3>3. OnlyMoves(p)
      BY <1>0, <3>1, <3>2, Here DEF OnlyMoves, Typed, IsHub
    <3> QED
      BY <1>0, <3>1, <3>2, <3>3
  <2>2. CASE proc[p] # Dead
    <3>1. Exited(p)
      BY <1>2, <2>2 DEF waitStopped
    <3>2. IsHub(p)
      <4>1. proc[p] \in [kind : Kinds, id : Nat]
        BY <1>0 DEF Typed
      <4>2. proc[p] = [kind |-> proc[p].kind, id |-> proc[p].id] /\ proc[p].kind \in Kinds
        BY <4>1
      <4> QED
        BY <1>0, <1>1, <1>2, <2>2, <4>2 DEF TableStands, Dead, IsHub, Kinds
    <3>3. ~misfired'
      BY <1>0, <1>2, <2>2, <3>2, Zenon DEF waitStopped
    <3> QED
      BY <1>0, <3>1, <3>3, Dying
  <2> QED
    BY <2>1, <2>2
<1>5. lock' \in Locks /\ LockStands' /\ triple' \in [pid : Nat, id : Nat] /\ TripleStands'
  <2>1. CASE cli.at = "wait"
    <3>1. triple' = NoTriple /\ UNCHANGED <<lock, robbed>>
      BY <2>1 DEF waitStopped
    <3> QED
      BY <1>4, <3>1, LockKept DEF Holding, Owning, TripleStands, NoTriple, NoPid
  <2>2. CASE cli.at = "lockWait"
    <3>1. lock' = NoLock /\ UNCHANGED triple
      BY <1>0, <2>2 DEF waitStopped
    <3>2. ASSUME NEW q \in Pids, d'[q] \in Holding PROVE robbed'
      <4>1. q # p /\ d[q] \in Holding /\ q # 0
        BY <1>4, <3>2, Here DEF Holding, Owning
      <4>2. robbed \/ lock = [HubLock(q) EXCEPT !.info = d[q] # "info"]
        BY <1>0, <4>1 DEF LockStands
      <4>3. lock = [HubLock(q) EXCEPT !.info = d[q] # "info"] => lock.pid = q /\ lock.id = proc[q].id
        BY DEF HubLock
      <4>4. proc[q].id # cli.id
        BY <1>1, <1>2, <2>2, <4>1 DEF NamesHub, Issued
      <4>5. robbed \/ (lock # NoLock /\ lock.id # cli.id)
        BY <4>1, <4>2, <4>3, <4>4 DEF NoLock, NoPid
      <4>6. cli.at # "wait"
        BY <2>2
      <4>7. robbed' = (robbed \/ (lock # NoLock /\ lock.id # cli.id))
        BY <4>6, Zenon DEF waitStopped
      <4> QED
        BY <4>5, <4>7, Zenon
    <3>3. lock' \in Locks /\ LockStands'
      BY <3>1, <3>2, LockGone
    <3>4. triple.pid \in Nat /\ triple.id \in Nat
      BY <1>0 DEF Typed
    <3>5. TripleStands'
      BY <1>0, <1>4, <3>1, <3>4, NamesKept DEF TripleStands
    <3> QED
      BY <1>0, <3>1, <3>3, <3>5 DEF Typed
  <2> QED
    BY <1>0, <2>1, <2>2
<1>6. TerminalStands'
  BY <1>3, <1>4, <1>5 DEF TerminalStands, CliStands
<1> QED
  BY <1>4, <1>5, <1>6, MoveKeeps

-----------------------------------------------------------------------------
LEMMA HubKept == HubInv /\ [Next]_vars => HubInv'
<1> SUFFICES ASSUME HubInv, [Next]_vars PROVE HubInv'
  OBVIOUS
<1>1. ASSUME NEW p \in Pids, Daemon(p) PROVE HubInv'
  BY <1>1, LockMkdirStep, LockInfoStep, LockJudgeStep, LockBreakStep, prepareChainStep, startServerStep,
     waitForGatewayReadyStep, verifyAdminMountedStep, WindingDownStep, ReleaseStep DEF Daemon
<1>2. ASSUME NEW p \in Pids,
             serverExited(p) \/ Interrupt(p) \/ RunForeground(p) \/ OtherProcess(p) \/ OtherEnds(p) \/ hubStart(p)
      PROVE  HubInv'
  BY <1>2, WindingDownStep, InterruptStep, RunForegroundStep, OthersStep, hubStartStep
<1>3. CASE Terminal
  BY <1>3, SelfCheckStep, WatchStep, VerifyStep, LockHolderStep, SignalDaemonStep, WaitStoppedStep DEF Terminal
<1>4. CASE hubInit \/ autostartOn \/ autostartOff \/ hubStop
  BY <1>4, SetUpStep
<1>5. CASE UNCHANGED vars
  <2>1. UNCHANGED <<proc, d, judged, preStops, lock, robbed, cli, triple, misfired, count, killed>>
    BY <1>5 DEF vars, daemonVars, fileVars
  <2>2. count' \in [procs : Nat, cmds : Nat] /\ count'.procs = count.procs
    BY <2>1 DEF HubInv, Typed
  <2>3. TerminalStands'
    BY <2>1 DEF TerminalStands, TripleStands, CliStands, NamesHub, Issued, IsHub, HubInv, Typed
  <2> QED
    BY <2>1, <2>2, <2>3, Types
<1> QED
  BY <1>1, <1>2, <1>3, <1>4, <1>5 DEF Next

\* A data directory has one daemon unless somebody removed a lock he did not
\* mean, hub stop signals no process that merely has the hub's pid, and the
\* hooks of a shutdown run once (hub.mjs: acquireHubLock, verifyPidTriple,
\* makeSingleFlightShutdown), through crashes, kills and reused pids.
THEOREM HubAlwaysHolds == Spec => []HubHolds
<1>1. HubInv => HubHolds
  BY HubFollows
<1> QED
  BY <1>1, HubBase, HubKept, PTL DEF Spec
=============================================================================
