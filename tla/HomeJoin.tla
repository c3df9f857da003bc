------------------------------ MODULE HomeJoin ------------------------------
(***************************************************************************)
(* `opendweb join` and the web sidecar's ledger writers on one machine:    *)
(* packages/opendweb/src/{leases,join}.mjs and webui/src/core/home.mjs.    *)
(*                                                                         *)
(* Every process is a separate program over the same directory.  A step is *)
(* what happens between two awaits that another process can tell apart:    *)
(* creating the lock file, writing its content, judging its holder,        *)
(* removing it, reading the ledger, replacing it, posting /register.  A    *)
(* join may crash after any step; its lock files and journal stay.         *)
(***************************************************************************)
EXTENDS Naturals, FiniteSets

CONSTANTS Joiners,      \* processes that run `opendweb join`
          Sidecar,      \* the web sidecar, a long-lived process
          Fabrics, Servers,
          Args,         \* command lines: [server, code, fabric]
          NoFabric,     \* --fabric not given; no fabric found
          Legacies,     \* what registration.json may hold at first
          Rosters,      \* the fabric of roster.facts at first, or NoFabric
          MaxStarts,    \* bound: joins each process starts, jobs of the sidecar
          LockRetries   \* LOCK_RETRIES

ASSUME JoinAssumption ==
  /\ Sidecar \notin Joiners
  /\ NoFabric \notin Fabrics
  /\ Args \subseteq [server: Servers, code: {"c1", "c2"}, fabric: Fabrics \union {NoFabric}]
  /\ Legacies \subseteq [kind: {"none", "damaged", "partial", "whole"},
                         server: Servers, fabric: Fabrics \union {NoFabric}]
  /\ \A g \in Legacies : g.kind \in {"none", "damaged"} => g.fabric = NoFabric
  /\ \A g \in Legacies : g.kind = "whole" => g.fabric \in Fabrics
  /\ Rosters \subseteq Fabrics \union {NoFabric}
  /\ LockRetries \in Nat

Procs == Joiners \union {Sidecar}
Locks == {"fabric", "leases", "visits"}
Free == [kind |-> "free"]
EmptyBy(p, n) == [kind |-> "empty", pid |-> p, ts |-> n]
Token(p, n) == [kind |-> "token", pid |-> p, ts |-> n]
NoJournal == [server |-> "none", code |-> "none", fabric |-> NoFabric]
Lease(s, f, l) == [server |-> s, fabric |-> f, label |-> l]
NoLedger == {Lease("none", NoFabric, FALSE)}
Damaged == {"damaged"}

VARIABLES
  lock,       \* content of each lock file
  ledger,     \* leases.json: NoLedger or a set of lease entries
  journal,    \* fabric-admission.json
  legacy,     \* registration.json
  roster,     \* fabric of roster.facts (written by the SDK, only read here)
  visits,     \* visits.json: Damaged or the servers recorded
  registered, \* the servers' side: tuples that redeemed a code
  pc, starts, arg, \* per process: where it is, its incarnation, its command line
  want, tries, \* per process: the lock it is acquiring, attempts so far
  held,       \* per process: the locks it believes it holds
  view,       \* per process: the ledger it read under the lock, or the entry to migrate
  tuple,      \* per process: the admission it is settling
  labelled,   \* history: servers whose label write has completed
  usurped     \* history: a lock other than the one judged stale was removed

disk == <<lock, ledger, journal, legacy, roster, visits>>
local == <<starts, arg, want, tries, held, view, tuple>>
vars == <<disk, registered, pc, local, labelled, usurped>>

Entries == IF ledger = NoLedger THEN {} ELSE ledger
Alive(t) == t.pid = Sidecar \/ (starts[t.pid] = t.ts /\ pc[t.pid] # "idle")
Mine(p) == Token(p, starts[p])
MyEmpty(p) == EmptyBy(p, starts[p])

Init ==
  /\ lock = [l \in Locks |-> Free]
  /\ ledger = NoLedger
  /\ journal = NoJournal
  /\ legacy \in Legacies
  /\ roster \in Rosters
  /\ visits \in {Damaged, {}}
  /\ registered = {}
  /\ pc = [p \in Procs |-> "idle"]
  /\ starts = [p \in Procs |-> 0]
  /\ arg \in [Procs -> {CHOOSE a \in Args : TRUE}]
  /\ want = [p \in Procs |-> "fabric"]
  /\ tries = [p \in Procs |-> 0]
  /\ held = [p \in Procs |-> {}]
  /\ view = [p \in Procs |-> {}]
  /\ tuple = [p \in Procs |-> NoJournal]
  /\ labelled = {}
  /\ usurped = FALSE

Goto(p, where) == pc' = [pc EXCEPT ![p] = where]

(***************************************************************************)
(* acquireFileLock: create with O_EXCL, then write pid and time; a holder  *)
(* older than ten seconds whose pid is dead is removed, at once and        *)
(* without looking again; LOCK_RETRIES more attempts.                      *)
(***************************************************************************)
Acquire(p, l) ==
  /\ want' = [want EXCEPT ![p] = l]
  /\ tries' = [tries EXCEPT ![p] = 0]
  /\ Goto(p, "create")

\* Where a process goes when it has the lock, and when it gives up.
Entered(p) ==
  CASE want[p] = "fabric" -> "load"
    [] want[p] = "visits" -> "visit"
    [] want[p] = "leases" /\ p # Sidecar /\ tuple[p] = NoJournal -> "migrate"
    [] OTHER -> "read"

TryCreate(p) ==
  /\ pc[p] = "create"
  /\ IF lock[want[p]] = Free
     THEN /\ lock' = [lock EXCEPT ![want[p]] = MyEmpty(p)]
          /\ Goto(p, "stamp")
     ELSE /\ Goto(p, IF tries[p] >= LockRetries THEN "leave" ELSE "judge")
          /\ UNCHANGED lock
  /\ UNCHANGED <<ledger, journal, legacy, roster, visits, registered, local, labelled, usurped>>

\* The descriptor stays open: if the file was removed meanwhile, the write
\* goes to a file nobody sees.
StampLock(p) ==
  /\ pc[p] = "stamp"
  /\ lock' = IF lock[want[p]] = MyEmpty(p)
             THEN [lock EXCEPT ![want[p]] = Mine(p)] ELSE lock
  /\ held' = [held EXCEPT ![p] = @ \union {want[p]}]
  /\ Goto(p, Entered(p))
  /\ UNCHANGED <<ledger, journal, legacy, roster, visits, registered, starts, arg, want, tries,
                 view, tuple, labelled, usurped>>

\* readLockHolder: a missing, empty or damaged lock is never judged stale.
JudgeHolder(p) ==
  /\ pc[p] = "judge"
  /\ tries' = [tries EXCEPT ![p] = @ + 1]
  /\ \/ /\ lock[want[p]].kind = "token"
        /\ ~Alive(lock[want[p]])
        /\ Goto(p, "break")
     \/ Goto(p, "create")   \* alive, too young, or unreadable: back off
  /\ UNCHANGED <<disk, registered, starts, arg, want, held, view, tuple, labelled, usurped>>

BreakLock(p) ==
  /\ pc[p] = "break"
  /\ usurped' = (usurped \/ (lock[want[p]] # Free /\ Alive(lock[want[p]])))
  /\ lock' = [lock EXCEPT ![want[p]] = Free]
  /\ Goto(p, "create")
  /\ UNCHANGED <<ledger, journal, legacy, roster, visits, registered, local, labelled>>

\* release: compares the content with the own token before removing.
Released(p, l) ==
  /\ lock' = IF lock[l] = Mine(p) THEN [lock EXCEPT ![l] = Free] ELSE lock
  /\ held' = [held EXCEPT ![p] = @ \ {l}]

(***************************************************************************)
(* join: runJoin, freshAdmission, recoverPendingAdmission, settleRegister. *)
(***************************************************************************)
StartJoin(p) ==
  /\ p \in Joiners /\ pc[p] = "idle" /\ starts[p] < MaxStarts
  /\ starts' = [starts EXCEPT ![p] = @ + 1]
  /\ \E a \in Args : arg' = [arg EXCEPT ![p] = a]
  /\ held' = [held EXCEPT ![p] = {}]
  /\ tuple' = [tuple EXCEPT ![p] = NoJournal]
  /\ view' = [view EXCEPT ![p] = {}]
  /\ Acquire(p, "fabric")
  /\ UNCHANGED <<disk, registered, labelled, usurped>>

\* Same server, same code, and no other fabric asked for: replay the
\* admission; anything else is refused and touches nothing.
SameAdmission(p) ==
  /\ arg[p].fabric \in {NoFabric, journal.fabric}
  /\ arg[p].server = journal.server
  /\ arg[p].code = journal.code

recoverPendingAdmission(p) ==
  /\ pc[p] = "load" /\ journal # NoJournal
  /\ \/ /\ SameAdmission(p)
        /\ tuple' = [tuple EXCEPT ![p] = journal]  \* rewritten with attempt + 1
        /\ Goto(p, "register")
     \/ /\ Goto(p, "leave")   \* refused, or the services preflight failed
        /\ UNCHANGED tuple
  /\ UNCHANGED <<disk, registered, starts, arg, want, tries, held, view, labelled, usurped>>

\* buildLegacyLeaseEntry: server, fabric and root must all be there.
Migratable == ledger = NoLedger /\ legacy.kind = "whole"

\* Mutant: the roster is left out of the decision.
MutResolve(entries, old) == ({e.fabric : e \in entries} \union {old.fabric}) \ {NoFabric}

resolveExistingFabricId(entries, old) ==
  ({e.fabric : e \in entries} \union {old.fabric, roster}) \ {NoFabric}

\* The entry to migrate is built before the ledger's lock is taken.
BuildEntry(p) ==
  view' = [view EXCEPT ![p] = {Lease(legacy.server, legacy.fabric, FALSE)}]

\* The dry run of the migration decides before anything is written.
precheck(p) ==
  LET found == IF Migratable THEN {legacy.fabric, roster} \ {NoFabric}
               ELSE resolveExistingFabricId(Entries, legacy)
  IN /\ pc[p] = "load" /\ journal = NoJournal
     /\ CASE Cardinality(found) > 1 -> Goto(p, "leave") /\ UNCHANGED <<want, tries, view>>
          [] Cardinality(found) <= 1 /\ Migratable -> Acquire(p, "leases") /\ BuildEntry(p)
          [] OTHER -> Goto(p, "decide") /\ UNCHANGED <<want, tries, view>>
     /\ UNCHANGED <<disk, registered, starts, arg, held, tuple, labelled, usurped>>

migrateLegacyRegistration(p) ==
  /\ pc[p] = "migrate"
  /\ IF ledger = NoLedger
     THEN /\ ledger' = view[p]
          /\ Goto(p, "rename")
     ELSE Goto(p, "migrated") /\ UNCHANGED ledger
  /\ UNCHANGED <<lock, journal, legacy, roster, visits, registered, local, labelled, usurped>>

RenameLegacy(p) ==
  /\ pc[p] = "rename"
  /\ legacy' = [legacy EXCEPT !.kind = "none", !.fabric = NoFabric]
  /\ Goto(p, "migrated")
  /\ UNCHANGED <<lock, ledger, journal, roster, visits, registered, local, labelled, usurped>>

LeaveMigration(p) ==
  /\ pc[p] = "migrated"
  /\ Released(p, "leases")
  /\ Goto(p, "decide")
  /\ UNCHANGED <<ledger, journal, legacy, roster, visits, registered, starts, arg, want, tries,
                 view, tuple, labelled, usurped>>

\* The fabric a new admission may take: the one found, else the one asked for,
\* else a random one.  A flag that differs from the one found is refused.
selectFabricId(p, found) ==
  IF found # {}
  THEN IF arg[p].fabric \in found \union {NoFabric} THEN found ELSE {}
  ELSE IF arg[p].fabric # NoFabric THEN {arg[p].fabric} ELSE Fabrics

\* freshAdmission from the second look at the sources to the journal, which is
\* written before anything is sent.  The services preflight may fail.
decideFabric(p) ==
  LET found == resolveExistingFabricId(Entries, legacy)
  IN /\ pc[p] = "decide"
     /\ \/ /\ Goto(p, "leave")
           /\ UNCHANGED <<journal, tuple>>
        \/ /\ Cardinality(found) <= 1
           /\ \E f \in selectFabricId(p, found) :
                journal' = [server |-> arg[p].server, code |-> arg[p].code, fabric |-> f]
           /\ tuple' = [tuple EXCEPT ![p] = journal']
           /\ Goto(p, "register")
     /\ UNCHANGED <<lock, ledger, legacy, roster, visits, registered, starts, arg, want, tries,
                    held, view, labelled, usurped>>

\* POST /register.  The server redeems the code for the tuple (again, for a
\* replay) or does not; the answer proves it only when it verifies.
performRegister(p) ==
  /\ pc[p] = "register"
  /\ \/ /\ registered' = registered \union {tuple[p]}
        /\ Goto(p, "accepted")
     \/ /\ registered' \in {registered, registered \union {tuple[p]}}
        /\ Goto(p, "keep")    \* no answer, an error, a malformed or false receipt
  /\ UNCHANGED <<disk, local, labelled, usurped>>

\* Mutant: a rejected code is taken for "not registered".
MutForgetJournal(p) ==
  /\ pc[p] = "keep"
  /\ journal' = NoJournal
  /\ Goto(p, "leave")
  /\ UNCHANGED <<lock, ledger, legacy, roster, visits, registered, local, labelled, usurped>>

\* failKeepJournal: the journal is written again, whatever the failure was.
failKeepJournal(p) ==
  /\ pc[p] = "keep"
  /\ journal' = tuple[p]
  /\ Goto(p, "leave")
  /\ UNCHANGED <<lock, ledger, legacy, roster, visits, registered, local, labelled, usurped>>

\* The second look at /services.json must agree with the first.
settleRegister(p) ==
  /\ pc[p] = "accepted"
  /\ \/ Acquire(p, "leases")
     \/ Goto(p, "keep") /\ UNCHANGED <<want, tries>>
  /\ UNCHANGED <<disk, registered, starts, arg, held, view, tuple, labelled, usurped>>

ReadLedger(p) ==
  /\ pc[p] = "read"
  /\ view' = [view EXCEPT ![p] = Entries]
  /\ Goto(p, "write")
  /\ UNCHANGED <<disk, registered, starts, arg, want, tries, held, tuple, labelled, usurped>>

\* Mutant: a renewal starts from an empty entry.
MutMerge(entries, s, f) ==
  {e \in entries : ~(e.server = s /\ e.fabric = f)} \union {Lease(s, f, FALSE)}

\* Same server, fabric and root: a renewal that keeps the label.
Merge(entries, s, f) ==
  IF \E e \in entries : e.server = s /\ e.fabric = f THEN entries
  ELSE entries \union {Lease(s, f, FALSE)}

upsertLease(p) ==
  /\ p \in Joiners /\ pc[p] = "write"
  /\ ledger' = Merge(view[p], tuple[p].server, tuple[p].fabric)
  /\ Goto(p, "merged")
  /\ UNCHANGED <<lock, journal, legacy, roster, visits, registered, local, labelled, usurped>>

LeaveLedger(p) ==
  /\ pc[p] = "merged"
  /\ Released(p, "leases")
  /\ Goto(p, IF p = Sidecar THEN "idle" ELSE "clear")
  /\ UNCHANGED <<ledger, journal, legacy, roster, visits, registered, starts, arg, want, tries,
                 view, tuple, labelled, usurped>>

clearAdmissionJournal(p) ==
  /\ pc[p] = "clear"
  /\ journal' = NoJournal
  /\ Goto(p, "leave")
  /\ UNCHANGED <<lock, ledger, legacy, roster, visits, registered, local, labelled, usurped>>

\* runJoin's finally; the sidecar's request just ends.
LeaveJoin(p) ==
  /\ pc[p] = "leave"
  /\ Released(p, "fabric")
  /\ Goto(p, "idle")
  /\ UNCHANGED <<ledger, journal, legacy, roster, visits, registered, starts, arg, want, tries,
                 view, tuple, labelled, usurped>>

Crash(p) ==
  /\ p \in Joiners /\ pc[p] # "idle"
  /\ Goto(p, "idle")
  /\ UNCHANGED <<disk, registered, local, labelled, usurped>>

(***************************************************************************)
(* The sidecar: setLeaseLabel and probeVisit.                              *)
(***************************************************************************)
StartRequest ==
  /\ pc[Sidecar] = "idle" /\ starts[Sidecar] < MaxStarts
  /\ starts' = [starts EXCEPT ![Sidecar] = @ + 1]
  /\ \E l \in {"leases", "visits"} : Acquire(Sidecar, l)
  /\ \E a \in Args : arg' = [arg EXCEPT ![Sidecar] = a]
  /\ UNCHANGED <<disk, registered, held, view, tuple, labelled, usurped>>

setLeaseLabel ==
  LET s == arg[Sidecar].server
      hit == {e \in view[Sidecar] : e.server = s}
  IN /\ pc[Sidecar] = "write"
     /\ IF hit = {} THEN UNCHANGED <<ledger, labelled>>
        ELSE \E e \in hit :
               /\ ledger' = (view[Sidecar] \ {e}) \union {[e EXCEPT !.label = TRUE]}
               /\ labelled' = labelled \union {s}
     /\ Goto(Sidecar, "merged")
     /\ UNCHANGED <<lock, journal, legacy, roster, visits, registered, local, usurped>>

\* recordVisit: a damaged book throws past the release, so the lock file stays
\* with the sidecar's own, living pid.
recordVisit ==
  /\ pc[Sidecar] = "visit"
  /\ IF visits = Damaged THEN UNCHANGED <<lock, held, visits>>
     ELSE /\ visits' = visits \union {arg[Sidecar].server}
          /\ Released(Sidecar, "visits")
  /\ Goto(Sidecar, "idle")
  /\ UNCHANGED <<ledger, journal, legacy, roster, registered, starts, arg, want, tries, view,
                 tuple, labelled, usurped>>

Steps(p) ==
  \/ TryCreate(p) \/ StampLock(p) \/ JudgeHolder(p) \/ BreakLock(p)
  \/ recoverPendingAdmission(p) \/ precheck(p) \/ migrateLegacyRegistration(p)
  \/ RenameLegacy(p) \/ LeaveMigration(p) \/ decideFabric(p) \/ performRegister(p)
  \/ failKeepJournal(p) \/ settleRegister(p) \/ ReadLedger(p) \/ upsertLease(p)
  \/ LeaveLedger(p) \/ clearAdmissionJournal(p) \/ LeaveJoin(p)

Next ==
  \/ \E p \in Procs : Steps(p)
  \/ \E p \in Joiners : StartJoin(p) \/ Crash(p)
  \/ StartRequest \/ setLeaseLabel \/ recordVisit

Spec == Init /\ [][Next]_vars

(***************************************************************************)
(* Properties.                                                             *)
(***************************************************************************)
\* Every variable stays in its domain.
TypeOK ==
  /\ \A l \in Locks : lock[l] = Free \/ (lock[l].pid \in Procs /\ lock[l].ts \in 1..MaxStarts)
  /\ ledger = NoLedger \/ ledger \subseteq [server: Servers, fabric: Fabrics, label: BOOLEAN]
  /\ journal = NoJournal
     \/ journal \in [server: Servers, code: {"c1", "c2"}, fabric: Fabrics]
  /\ visits = Damaged \/ visits \subseteq Servers
  /\ starts \in [Procs -> 0..MaxStarts]
  /\ tries \in [Procs -> 0..LockRetries]
  /\ held \in [Procs -> SUBSET Locks]

\* join.mjs promises one fabric for the machine through crashes, lost answers
\* and concurrent joins: what its servers redeemed for it, what leases.json
\* lists and what roster.facts says never name two.
OneFabric ==
  usurped \/ Cardinality(({t.fabric : t \in registered} \union {e.fabric : e \in Entries}
                           \union {roster}) \ {NoFabric}) <= 1

\* A registration the server may have made is in the ledger or still in the
\* journal, wherever a join stops: the replay can always finish it.
PendingIsRemembered ==
  usurped \/ \A t \in registered :
    \/ \E e \in Entries : e.server = t.server /\ e.fabric = t.fabric
    \/ journal.server = t.server /\ journal.fabric = t.fabric

\* home.mjs serialises label edits with joins through leases.lock: a label
\* that was written is never lost to a join that read the ledger before.
LabelSurvives ==
  usurped \/ \A s \in labelled : \E e \in Entries : e.server = s /\ e.label

\* The three together: one fabric, no registration forgotten, no label lost
\* (join.mjs, leases.mjs).
JoinHolds == OneFabric /\ PendingIsRemembered /\ LabelSurvives
=============================================================================
