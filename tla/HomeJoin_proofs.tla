--------------------------- MODULE HomeJoin_proofs ---------------------------
(***************************************************************************)
(* One fabric, no registration forgotten, no label lost: for any number of *)
(* joins, servers and fabrics, any number of crashes and restarts.         *)
(*                                                                         *)
(* Until a living process loses a lock file, the two locks exclude, and    *)
(* what a process knows of the disk while it holds one stays so: the       *)
(* invariant says of every place in a join what holds there.               *)
(*                                                                         *)
(* After it: the server command, the admin client, the console's page and  *)
(* the plugin commands.                                                    *)
(***************************************************************************)
EXTENDS HomeJoin, ServerCommand, AdminClient, Console, PluginCli, FiniteSetTheorems, WellFoundedInduction, TLAPS

Codes == {"c1", "c2"}
Admissions == [server : Servers, code : Codes, fabric : Fabrics]
Leases == [server : Servers, fabric : Fabrics, label : BOOLEAN]
Kinds == {"none", "damaged", "partial", "whole"}
Acq == {"create", "stamp", "judge", "break"}
JoinPlaces == {"load", "migrate", "rename", "migrated", "decide", "register", "accepted", "keep", "clear"}
LedgerPlaces == {"read", "write", "merged"}
Places == {"idle", "leave", "visit"} \cup Acq \cup JoinPlaces \cup LedgerPlaces

Acquiring(p, l) == pc[p] \in Acq /\ want[p] = l

\* A join that has not decided yet, one about to migrate, one with its tuple.
Migrating(p) == pc[p] = "migrate" \/ (Acquiring(p, "leases") /\ tuple[p] = NoJournal)
Fresh(p) == Migrating(p) \/ pc[p] \in {"decide", "rename", "migrated"}
Settling(p) == \/ pc[p] \in {"register", "accepted", "keep", "clear"} \cup LedgerPlaces
               \/ Acquiring(p, "leases") /\ tuple[p] # NoJournal

InFabric(p) == p \in Joiners /\ (pc[p] = "load" \/ Fresh(p) \/ Settling(p))
InLeases(p) == pc[p] \in {"migrate", "rename", "migrated"} \cup LedgerPlaces

\* Shapes of the per-process variables, what is on disk, and where a process may be.
FunTyped ==
  /\ pc = [q \in Procs |-> pc[q]] /\ starts = [q \in Procs |-> starts[q]] /\ want = [q \in Procs |-> want[q]]
  /\ tuple = [q \in Procs |-> tuple[q]] /\ view = [q \in Procs |-> view[q]] /\ arg = [q \in Procs |-> arg[q]]
DiskTyped ==
  /\ lock = [l \in Locks |-> lock[l]]
  /\ ledger = NoLedger \/ ledger \subseteq Leases
  /\ journal \in Admissions \cup {NoJournal}
  /\ legacy \in [kind : Kinds, server : Servers, fabric : Fabrics \cup {NoFabric}]
  /\ legacy.kind = "whole" => legacy.fabric \in Fabrics
  /\ roster \in Fabrics \cup {NoFabric}
  /\ registered \subseteq Admissions
PlaceTyped(p) ==
  /\ starts[p] \in Nat /\ pc[p] \in Places /\ want[p] \in Locks
  /\ tuple[p] \in Admissions \cup {NoJournal} /\ view[p] \subseteq Leases
  /\ p = Sidecar => pc[p] \notin JoinPlaces /\ ~Acquiring(p, "fabric")
  /\ p # Sidecar =>
       /\ pc[p] # "visit" /\ ~Acquiring(p, "visits") /\ (pc[p] # "idle" => arg[p] \in Args)
       /\ Acquiring(p, "fabric") \/ pc[p] \in {"load", "decide", "migrate", "rename", "migrated"} => tuple[p] = NoJournal
       /\ pc[p] \in {"register", "accepted", "keep", "clear"} \cup LedgerPlaces => tuple[p] # NoJournal
Typed == FunTyped /\ DiskTyped /\ \A p \in Procs : PlaceTyped(p)

\* Whoever is inside has the lock.
Excl(p) ==
  /\ InFabric(p) => lock["fabric"] = Mine(p)
  /\ InLeases(p) => lock["leases"] = Mine(p)
  /\ pc[p] = "stamp" => lock[want[p]] = MyEmpty(p)

\* What the machine is committed to.
Named == ({t.fabric : t \in registered} \union {e.fabric : e \in Entries} \union {roster}) \ {NoFabric}
InLedger(t) == \E e \in Entries : e.server = t.server /\ e.fabric = t.fabric
Agreed == \A f, g \in Named : f = g
JournalAgrees == journal # NoJournal => \A f \in Named : f = journal.fabric
Pending == \A t \in registered : InLedger(t) \/ (journal.server = t.server /\ journal.fabric = t.fabric)
Labels == \A s \in labelled : \E e \in Entries : e.server = s /\ e.label

\* What a join knows at each of its places.
JoinerStands(p) ==
  /\ Fresh(p) => journal = NoJournal
  /\ Migrating(p) =>
       /\ ledger = NoLedger /\ registered = {}
       /\ \E e \in Leases : view[p] = {e} /\ roster \in {NoFabric, e.fabric}
  /\ Settling(p) => journal = tuple[p]
  /\ pc[p] \in {"merged", "clear"} => InLedger(tuple[p])
Reads(p) == pc[p] = "write" => view[p] = Entries

DataStands ==
  /\ Agreed /\ JournalAgrees /\ Pending /\ Labels
  /\ \A p \in Joiners : JoinerStands(p)
  /\ \A p \in Procs : Reads(p)

JoinInv == Typed /\ (usurped \/ ((\A p \in Procs : Excl(p)) /\ DataStands))

USE JoinAssumption DEF Procs

LEMMA NoJournalApart == NoJournal \notin Admissions
  BY DEF NoJournal, Admissions, Codes

LEMMA NoLedgerApart == ~(NoLedger \subseteq Leases)
<1>1. Lease("none", NoFabric, FALSE) \in NoLedger
  BY DEF NoLedger
<1>2. Lease("none", NoFabric, FALSE) \notin Leases
  BY DEF Lease, Leases
<1> QED
  BY <1>1, <1>2

LEMMA JoinBase == Init => JoinInv
<1> SUFFICES ASSUME Init PROVE JoinInv
  OBVIOUS
<1> USE DEF Init
<1>1. FunTyped
  BY DEF FunTyped
<1>2. DiskTyped
  <2>1. legacy \in [kind : Kinds, server : Servers, fabric : Fabrics \cup {NoFabric}]
    BY DEF Kinds
  <2>2. legacy.kind = "whole" => legacy.fabric \in Fabrics
    OBVIOUS
  <2>3. lock = [l \in Locks |-> lock[l]] /\ ledger = NoLedger /\ journal = NoJournal /\ registered = {}
    OBVIOUS
  <2>4. roster \in Fabrics \cup {NoFabric}
    OBVIOUS
  <2> QED
    BY <2>1, <2>2, <2>3, <2>4 DEF DiskTyped
<1>3. \A p \in Procs : PlaceTyped(p)
  BY DEF PlaceTyped, Places, Locks, Acquiring, JoinPlaces, Acq, LedgerPlaces
<1>4. \A p \in Procs : Excl(p)
  BY DEF Excl, InFabric, InLeases, Fresh, Settling, Migrating, Acquiring, Acq, LedgerPlaces
<1>5. Entries = {}
  BY DEF Entries
<1>6. DataStands
  BY <1>5 DEF DataStands, Agreed, JournalAgrees, Pending, Labels, JoinerStands, Reads, Named, Fresh, Settling, Migrating,
     Acquiring, Acq, LedgerPlaces
<1> QED
  BY <1>1, <1>2, <1>3, <1>4, <1>6 DEF JoinInv, Typed

LEMMA OnlyOneValue ==
  ASSUME NEW S, \A f, g \in S : f = g
  PROVE  IsFiniteSet(S) /\ Cardinality(S) <= 1
<1>1. CASE S = {}
  BY <1>1, FS_EmptySet
<1>2. CASE S # {}
  <2>1. PICK x \in S : TRUE
    BY <1>2
  <2>2. S = {x}
    BY <2>1
  <2> QED
    BY <2>2, FS_Singleton
<1> QED
  BY <1>1, <1>2

LEMMA JoinFollows == JoinInv => JoinHolds
<1> SUFFICES ASSUME JoinInv PROVE JoinHolds
  OBVIOUS
<1>1. CASE usurped
  BY <1>1 DEF JoinHolds, OneFabric, PendingIsRemembered, LabelSurvives
<1>2. CASE ~usurped
  <2>1. OneFabric
    BY <1>2, OnlyOneValue DEF JoinInv, DataStands, Agreed, Named, OneFabric
  <2>2. PendingIsRemembered /\ LabelSurvives
    BY <1>2 DEF JoinInv, DataStands, Pending, InLedger, Labels, PendingIsRemembered, LabelSurvives
  <2> QED
    BY <2>1, <2>2 DEF JoinHolds
<1> QED
  BY <1>1, <1>2

(***************************************************************************)
(* A step is one process's: the others stay where they are, and keep their *)
(* locks, because only a free lock, one's own or a dead one's is touched.  *)
(***************************************************************************)
Others(p) ==
  \A q \in Procs : q # p =>
    /\ pc'[q] = pc[q] /\ starts'[q] = starts[q] /\ want'[q] = want[q]
    /\ tuple'[q] = tuple[q] /\ view'[q] = view[q] /\ arg'[q] = arg[q]
LockSafe(p) ==
  \A l \in Locks : lock'[l] = lock[l] \/ lock[l] \in {Free, MyEmpty(p), Mine(p)} \/ ~Alive(lock[l])
Data == <<ledger, journal, legacy, roster, registered, labelled>>

LEMMA KeepsLocks ==
  ASSUME NEW p \in Procs, NEW q \in Procs, q # p, Others(p), LockSafe(p), PlaceTyped(q), Excl(q)
  PROVE  Excl(q)'
<1>1. pc'[q] = pc[q] /\ Mine(q)' = Mine(q) /\ MyEmpty(q)' = MyEmpty(q) /\ want'[q] = want[q] /\ want[q] \in Locks
  BY DEF Others, Mine, MyEmpty, PlaceTyped
<1>2. (InFabric(q)' <=> InFabric(q)) /\ (InLeases(q)' <=> InLeases(q))
  BY DEF Others, InFabric, InLeases, Fresh, Settling, Migrating, Acquiring
<1>3. ASSUME NEW l \in Locks, pc[q] # "idle", lock[l] = Mine(q) \/ lock[l] = MyEmpty(q)
      PROVE  lock'[l] = lock[l]
  <2>1. lock[l] \notin {Free, MyEmpty(p), Mine(p)}
    BY <1>3 DEF Free, Mine, MyEmpty, Token, EmptyBy
  <2>2. Alive(lock[l])
    BY <1>3 DEF Alive, Mine, MyEmpty, Token, EmptyBy
  <2> QED
    BY <2>1, <2>2 DEF LockSafe
<1>4. InFabric(q) \/ InLeases(q) => pc[q] # "idle"
  BY DEF InFabric, InLeases, Fresh, Settling, Migrating, Acquiring, Acq, LedgerPlaces
<1>5. {"fabric", "leases"} \subseteq Locks
  BY DEF Locks
<1> QED
  BY <1>1, <1>2, <1>3, <1>4, <1>5 DEF Excl

LEMMA KeepsPlace ==
  ASSUME NEW p \in Procs, NEW q \in Procs, q # p, Others(p), PlaceTyped(q)
  PROVE  PlaceTyped(q)'
  BY DEF Others, PlaceTyped, Acquiring

\* Two processes are never inside together.
LEMMA OneInside ==
  ASSUME NEW p \in Procs, NEW q \in Procs, Excl(p), Excl(q),
         (InFabric(p) /\ InFabric(q)) \/ (InLeases(p) /\ InLeases(q))
  PROVE  p = q
  BY DEF Excl, Mine, Token

\* What a step has to show.
LEMMA Carry ==
  ASSUME JoinInv, NEW p \in Procs, FunTyped', DiskTyped', Others(p), PlaceTyped(p)',
         usurped => usurped',
         ~usurped' => LockSafe(p) /\ Excl(p)' /\ DataStands'
  PROVE  JoinInv'
<1>1. \A q \in Procs : PlaceTyped(q)'
  BY KeepsPlace DEF JoinInv, Typed
<1>2. Typed'
  BY <1>1 DEF Typed
<1>3. CASE usurped'
  BY <1>2, <1>3 DEF JoinInv
<1>4. CASE ~usurped'
  <2>1. \A q \in Procs : Excl(q)'
    BY <1>4, KeepsLocks DEF JoinInv, Typed
  <2> QED
    BY <1>2, <1>4, <2>1 DEF JoinInv
<1> QED
  BY <1>3, <1>4

\* A join's knowledge needs the fabric lock; what it knows elsewhere is empty.
LEMMA Outside ==
  ASSUME NEW q \in Joiners, ~InFabric(q)
  PROVE  JoinerStands(q)
<1>1. ~Fresh(q) /\ ~Settling(q)
  BY DEF InFabric
<1>2. ~Migrating(q)
  BY <1>1 DEF Fresh
<1>3. pc[q] \notin {"merged", "clear"}
  BY <1>1 DEF Settling, LedgerPlaces
<1> QED
  BY <1>1, <1>2, <1>3 DEF JoinerStands

\* A step that leaves the data alone.
LEMMA Quiet ==
  ASSUME JoinInv, NEW p \in Procs, FunTyped', lock' = [l \in Locks |-> lock'[l]], Others(p), PlaceTyped(p)',
         UNCHANGED Data, usurped => usurped',
         ~usurped' => LockSafe(p) /\ Excl(p)' /\ (p \in Joiners => JoinerStands(p)') /\ Reads(p)'
  PROVE  JoinInv'
<1>1. DiskTyped'
  BY DEF JoinInv, Typed, DiskTyped, Data
<1>2. ASSUME ~usurped' PROVE DataStands'
  <2>1. DataStands
    BY <1>2 DEF JoinInv
  <2>2. (Agreed /\ JournalAgrees /\ Pending /\ Labels)'
    BY <2>1 DEF DataStands, Agreed, JournalAgrees, Pending, Labels, Named, InLedger, Entries, Data
  <2>3. ASSUME NEW q \in Joiners PROVE JoinerStands(q)'
    <3>1. CASE q = p
      BY <1>2, <3>1
    <3>2. CASE q # p
      BY <2>1, <3>2 DEF DataStands, JoinerStands, Fresh, Migrating, Settling, Acquiring, Others, Data, InLedger, Entries
    <3> QED
      BY <3>1, <3>2
  <2>4. ASSUME NEW q \in Procs PROVE Reads(q)'
    <3>1. CASE q = p
      BY <1>2, <3>1
    <3>2. CASE q # p
      BY <2>1, <3>2 DEF DataStands, Reads, Others, Data, Entries
    <3> QED
      BY <3>1, <3>2
  <2> QED
    BY <2>2, <2>3, <2>4 DEF DataStands
<1> QED
  BY <1>1, <1>2, Carry
LEMMA TryCreateStep ==
  ASSUME JoinInv, NEW p \in Procs, TryCreate(p)
  PROVE  JoinInv'
<1> USE DEF TryCreate
<1>1. FunTyped' /\ Others(p) /\ lock' = [l \in Locks |-> lock'[l]]
  BY DEF JoinInv, Typed, FunTyped, DiskTyped, PlaceTyped, Others, Goto, local
<1>2. PlaceTyped(p)'
  <2>1. starts'[p] = starts[p] /\ want'[p] = want[p] /\ tuple'[p] = tuple[p] /\ arg'[p] = arg[p] /\ view'[p] = view[p]
    BY DEF local
  <2>2. pc[p] \in Acq /\ (pc'[p] \in {"stamp", "judge"} \/ pc'[p] = "leave")
    BY DEF JoinInv, Typed, FunTyped, Goto, Acq
  <2>3. PlaceTyped(p)
    BY DEF JoinInv, Typed
  <2>4. CASE pc'[p] \in {"stamp", "judge"}
    BY <2>1, <2>2, <2>3, <2>4 DEF PlaceTyped, Acquiring, Places, Acq, JoinPlaces, LedgerPlaces
  <2>5. CASE pc'[p] = "leave"
    BY <2>1, <2>3, <2>5 DEF PlaceTyped, Acquiring, Places, Acq, JoinPlaces, LedgerPlaces
  <2> QED
    BY <2>2, <2>4, <2>5
<1>3. UNCHANGED Data /\ (usurped => usurped')
  BY DEF Data, local
<1>4. ASSUME ~usurped' PROVE LockSafe(p)
  BY <1>4 DEF JoinInv, Typed, DiskTyped, PlaceTyped, LockSafe, local, MyEmpty, Mine
<1>5. ASSUME ~usurped' PROVE Excl(p)'
  <2>1. starts'[p] = starts[p] /\ want'[p] = want[p] /\ tuple'[p] = tuple[p] /\ view'[p] = view[p]
    BY DEF local
  <2>2. Typed /\ Excl(p) /\ want[p] \in Locks
    BY <1>3, <1>5 DEF JoinInv, Typed, PlaceTyped
  <2>3. CASE pc'[p] = "leave"
    BY <2>3 DEF Excl, InFabric, InLeases, Fresh, Settling, Migrating, Acquiring, Acq, LedgerPlaces
  <2>4. CASE lock[want[p]] = Free
    <3>1. pc'[p] = "stamp" /\ lock'[want[p]] = MyEmpty(p)'
      BY <2>1, <2>2, <2>4 DEF Typed, FunTyped, DiskTyped, Goto, MyEmpty
    <3>2. InFabric(p)' => InFabric(p) /\ want[p] = "leases"
      BY <2>1, <3>1 DEF InFabric, Fresh, Settling, Migrating, Acquiring, Acq, LedgerPlaces
    <3>3. lock'["fabric"] = lock["fabric"] \/ want[p] = "fabric"
      BY <2>2, <2>4 DEF Typed, DiskTyped, Locks
    <3>4. ~InLeases(p)'
      BY <3>1 DEF InLeases, LedgerPlaces
    <3> QED
      BY <2>1, <2>2, <3>1, <3>2, <3>3, <3>4 DEF Excl, Mine
  <2>5. CASE pc'[p] = "judge" /\ lock' = lock
    <3>1. InFabric(p)' => InFabric(p)
      BY <2>1, <2>5 DEF InFabric, Fresh, Settling, Migrating, Acquiring, Acq, LedgerPlaces
    <3> QED
      BY <2>1, <2>2, <2>5, <3>1 DEF Excl, Mine, InLeases, LedgerPlaces
  <2> QED
    BY <2>2, <2>3, <2>4, <2>5 DEF Typed, FunTyped, Goto
<1>6. ASSUME ~usurped', p \in Joiners PROVE JoinerStands(p)'
  BY <1>3, <1>6 DEF JoinInv, Typed, FunTyped, PlaceTyped, DataStands, JoinerStands, Fresh, Settling, Migrating, Acquiring, Acq, JoinPlaces, LedgerPlaces, Goto, local, InLedger, Entries, Data
<1>7. ASSUME ~usurped' PROVE Reads(p)'
  BY <1>3, <1>7 DEF JoinInv, Typed, FunTyped, PlaceTyped, DataStands, Reads, Goto, local, Entries, Data
<1> QED
  BY <1>1, <1>2, <1>3, <1>4, <1>5, <1>6, <1>7, Quiet

LEMMA StampLockStep ==
  ASSUME JoinInv, NEW p \in Procs, StampLock(p)
  PROVE  JoinInv'
<1> USE DEF StampLock
<1>1. FunTyped' /\ Others(p) /\ lock' = [l \in Locks |-> lock'[l]]
  BY DEF JoinInv, Typed, FunTyped, DiskTyped, PlaceTyped, Others, Goto
<1>2. PlaceTyped(p)'
  <2>1. starts'[p] = starts[p] /\ want'[p] = want[p] /\ tuple'[p] = tuple[p] /\ arg'[p] = arg[p] /\ view'[p] = view[p]
    OBVIOUS
  <2>2. PlaceTyped(p) /\ pc[p] = "stamp" /\ pc'[p] = Entered(p)
    BY DEF JoinInv, Typed, FunTyped, Goto
  <2>3. CASE want[p] = "fabric"
    <3>1. pc'[p] = "load"
      BY <2>2, <2>3 DEF Entered
    <3> QED
      BY <2>1, <2>2, <2>3, <3>1 DEF PlaceTyped, Acquiring, Places, Acq, JoinPlaces, LedgerPlaces
  <2>4. CASE want[p] = "visits"
    <3>1. pc'[p] = "visit"
      BY <2>2, <2>4 DEF Entered
    <3> QED
      BY <2>1, <2>2, <2>4, <3>1 DEF PlaceTyped, Acquiring, Places, Acq, JoinPlaces, LedgerPlaces
  <2>5. CASE want[p] = "leases" /\ p # Sidecar /\ tuple[p] = NoJournal
    <3>1. pc'[p] = "migrate"
      BY <2>2, <2>5 DEF Entered
    <3> QED
      BY <2>1, <2>2, <2>5, <3>1 DEF PlaceTyped, Acquiring, Places, Acq, JoinPlaces, LedgerPlaces
  <2>6. CASE want[p] = "leases" /\ (p = Sidecar \/ tuple[p] # NoJournal)
    <3>1. pc'[p] = "read"
      BY <2>2, <2>6 DEF Entered
    <3> QED
      BY <2>1, <2>2, <2>6, <3>1 DEF PlaceTyped, Acquiring, Places, Acq, JoinPlaces, LedgerPlaces
  <2> QED
    BY <2>2, <2>3, <2>4, <2>5, <2>6 DEF PlaceTyped, Locks
<1>3. UNCHANGED Data /\ (usurped => usurped')
  BY DEF Data
<1>4. ASSUME ~usurped' PROVE LockSafe(p)
  BY <1>4 DEF JoinInv, Typed, DiskTyped, PlaceTyped, LockSafe, MyEmpty, Mine
<1>5. ASSUME ~usurped' PROVE Excl(p)'
  <2>1. starts'[p] = starts[p] /\ want'[p] = want[p] /\ tuple'[p] = tuple[p] /\ view'[p] = view[p]
    OBVIOUS
  <2>2. Excl(p) /\ PlaceTyped(p) /\ pc[p] = "stamp" /\ pc'[p] = Entered(p)
    BY <1>3, <1>5 DEF JoinInv, Typed, FunTyped, Goto
  <2>3. lock'[want[p]] = Mine(p)' /\ \A l \in Locks : l # want[p] => lock'[l] = lock[l]
    BY <2>1, <2>2 DEF JoinInv, Typed, DiskTyped, Excl, PlaceTyped, Mine
  <2>4. Entered(p) \in {"load", "visit", "migrate", "read"}
    BY DEF Entered
  <2>5. InFabric(p)' => want[p] = "fabric" \/ InFabric(p)
    BY <2>1, <2>2 DEF PlaceTyped, Entered, InFabric, Fresh, Settling, Migrating, Acquiring, Acq, LedgerPlaces, Locks
  <2>6. InLeases(p)' => want[p] = "leases"
    BY <2>2 DEF PlaceTyped, Entered, InLeases, LedgerPlaces, Locks
  <2>7. Mine(p)' = Mine(p) /\ {"fabric", "leases"} \subseteq Locks
    BY <2>1 DEF Mine, Locks
  <2>8. InFabric(p)' => lock'["fabric"] = Mine(p)'
    BY <2>2, <2>3, <2>5, <2>7 DEF Excl
  <2> QED
    BY <2>2, <2>3, <2>4, <2>6, <2>8 DEF Excl
<1>6. ASSUME ~usurped', p \in Joiners PROVE JoinerStands(p)'
  <2>1. starts'[p] = starts[p] /\ want'[p] = want[p] /\ tuple'[p] = tuple[p] /\ view'[p] = view[p] /\ UNCHANGED Data
    BY <1>3
  <2>2. JoinerStands(p) /\ PlaceTyped(p) /\ pc[p] = "stamp" /\ pc'[p] = Entered(p) /\ p # Sidecar
    BY <1>3, <1>6 DEF JoinInv, Typed, FunTyped, Goto, DataStands
  <2>3. (Fresh(p)' => Fresh(p)) /\ (Migrating(p)' => Migrating(p))
    BY <2>1, <2>2 DEF PlaceTyped, Entered, Fresh, Migrating, Acquiring, Acq, LedgerPlaces, Locks
  <2>4. Settling(p)' => Settling(p)
    BY <2>1, <2>2 DEF PlaceTyped, Entered, Settling, Acquiring, Acq, LedgerPlaces, Locks
  <2>5. pc'[p] \notin {"merged", "clear"}
    BY <2>2 DEF Entered
  <2> QED
    BY <2>1, <2>2, <2>3, <2>4, <2>5 DEF JoinerStands, Data
<1>7. ASSUME ~usurped' PROVE Reads(p)'
  BY <1>3, <1>7 DEF JoinInv, Typed, FunTyped, PlaceTyped, DataStands, Reads, Goto, Entered, Entries, Data
<1> QED
  BY <1>1, <1>2, <1>3, <1>4, <1>5, <1>6, <1>7, Quiet

LEMMA JudgeHolderStep ==
  ASSUME JoinInv, NEW p \in Procs, JudgeHolder(p)
  PROVE  JoinInv'
<1> USE DEF JudgeHolder
<1>1. FunTyped' /\ Others(p) /\ lock' = [l \in Locks |-> lock'[l]]
  BY DEF JoinInv, Typed, FunTyped, DiskTyped, PlaceTyped, Others, Goto, disk
<1>2. PlaceTyped(p)'
  BY DEF JoinInv, Typed, FunTyped, DiskTyped, PlaceTyped, Acquiring, Goto, disk, Places, Acq, JoinPlaces, LedgerPlaces, Locks
<1>3. UNCHANGED Data /\ (usurped => usurped')
  BY DEF Data, disk
<1>4. ASSUME ~usurped' PROVE LockSafe(p)
  BY <1>4 DEF JoinInv, Typed, DiskTyped, PlaceTyped, LockSafe, disk, MyEmpty, Mine
<1>5. ASSUME ~usurped' PROVE Excl(p)'
  BY <1>3, <1>5 DEF JoinInv, Typed, FunTyped, DiskTyped, PlaceTyped, Excl, InFabric, InLeases, Fresh, Settling, Migrating, Acquiring, Acq, JoinPlaces, LedgerPlaces, Locks, Goto, disk, MyEmpty, Mine
<1>6. ASSUME ~usurped', p \in Joiners PROVE JoinerStands(p)'
  BY <1>3, <1>6 DEF JoinInv, Typed, FunTyped, PlaceTyped, DataStands, JoinerStands, Fresh, Settling, Migrating, Acquiring, Acq, JoinPlaces, LedgerPlaces, Goto, disk, InLedger, Entries, Data
<1>7. ASSUME ~usurped' PROVE Reads(p)'
  BY <1>3, <1>7 DEF JoinInv, Typed, FunTyped, PlaceTyped, DataStands, Reads, Goto, disk, Entries, Data
<1> QED
  BY <1>1, <1>2, <1>3, <1>4, <1>5, <1>6, <1>7, Quiet

LEMMA BreakLockStep ==
  ASSUME JoinInv, NEW p \in Procs, BreakLock(p)
  PROVE  JoinInv'
<1> USE DEF BreakLock
<1>1. FunTyped' /\ Others(p) /\ lock' = [l \in Locks |-> lock'[l]]
  BY DEF JoinInv, Typed, FunTyped, DiskTyped, PlaceTyped, Others, Goto, local
<1>2. PlaceTyped(p)'
  BY DEF JoinInv, Typed, FunTyped, DiskTyped, PlaceTyped, Acquiring, Goto, local, Places, Acq, JoinPlaces, LedgerPlaces, Locks
<1>3. UNCHANGED Data /\ (usurped => usurped')
  BY DEF Data, local
<1>4. ASSUME ~usurped' PROVE LockSafe(p)
  BY <1>4 DEF JoinInv, Typed, DiskTyped, PlaceTyped, LockSafe, local, MyEmpty, Mine
<1>5. ASSUME ~usurped' PROVE Excl(p)'
  BY <1>3, <1>5 DEF JoinInv, Typed, FunTyped, DiskTyped, PlaceTyped, Excl, InFabric, InLeases, Fresh, Settling, Migrating, Acquiring, Acq, JoinPlaces, LedgerPlaces, Locks, Goto, local, MyEmpty, Mine
<1>6. ASSUME ~usurped', p \in Joiners PROVE JoinerStands(p)'
  BY <1>3, <1>6 DEF JoinInv, Typed, FunTyped, PlaceTyped, DataStands, JoinerStands, Fresh, Settling, Migrating, Acquiring, Acq, JoinPlaces, LedgerPlaces, Goto, local, InLedger, Entries, Data
<1>7. ASSUME ~usurped' PROVE Reads(p)'
  BY <1>3, <1>7 DEF JoinInv, Typed, FunTyped, PlaceTyped, DataStands, Reads, Goto, local, Entries, Data
<1> QED
  BY <1>1, <1>2, <1>3, <1>4, <1>5, <1>6, <1>7, Quiet

LEMMA LeaveMigrationStep ==
  ASSUME JoinInv, NEW p \in Procs, LeaveMigration(p)
  PROVE  JoinInv'
<1> USE DEF LeaveMigration
<1>1. FunTyped' /\ Others(p) /\ lock' = [l \in Locks |-> lock'[l]]
  BY DEF JoinInv, Typed, FunTyped, DiskTyped, PlaceTyped, Others, Goto, Released
<1>2. PlaceTyped(p)'
  BY DEF JoinInv, Typed, FunTyped, DiskTyped, PlaceTyped, Acquiring, Goto, Released, Places, Acq, JoinPlaces, LedgerPlaces, Locks
<1>3. UNCHANGED Data /\ (usurped => usurped')
  BY DEF Data
<1>4. ASSUME ~usurped' PROVE LockSafe(p)
  BY <1>4 DEF JoinInv, Typed, DiskTyped, PlaceTyped, LockSafe, Released, MyEmpty, Mine
<1>5. ASSUME ~usurped' PROVE Excl(p)'
  BY <1>3, <1>5 DEF JoinInv, Typed, FunTyped, DiskTyped, PlaceTyped, Excl, InFabric, InLeases, Fresh, Settling, Migrating, Acquiring, Acq, JoinPlaces, LedgerPlaces, Locks, Goto, Released, MyEmpty, Mine
<1>6. ASSUME ~usurped', p \in Joiners PROVE JoinerStands(p)'
  BY <1>3, <1>6 DEF JoinInv, Typed, FunTyped, PlaceTyped, DataStands, JoinerStands, Fresh, Settling, Migrating, Acquiring, Acq, JoinPlaces, LedgerPlaces, Goto, Released, InLedger, Entries, Data
<1>7. ASSUME ~usurped' PROVE Reads(p)'
  BY <1>3, <1>7 DEF JoinInv, Typed, FunTyped, PlaceTyped, DataStands, Reads, Goto, Released, Entries, Data
<1> QED
  BY <1>1, <1>2, <1>3, <1>4, <1>5, <1>6, <1>7, Quiet

LEMMA settleRegisterStep ==
  ASSUME JoinInv, NEW p \in Procs, settleRegister(p)
  PROVE  JoinInv'
<1> USE DEF settleRegister
<1>1. FunTyped' /\ Others(p) /\ lock' = [l \in Locks |-> lock'[l]]
  BY DEF JoinInv, Typed, FunTyped, DiskTyped, PlaceTyped, Others, Goto, Acquire, disk
<1>2. PlaceTyped(p)'
  BY DEF JoinInv, Typed, FunTyped, DiskTyped, PlaceTyped, Acquiring, Goto, Acquire, disk, Places, Acq, JoinPlaces, LedgerPlaces, Locks
<1>3. UNCHANGED Data /\ (usurped => usurped')
  BY DEF Data, disk
<1>4. ASSUME ~usurped' PROVE LockSafe(p)
  BY <1>4 DEF JoinInv, Typed, DiskTyped, PlaceTyped, LockSafe, disk, MyEmpty, Mine
<1>5. ASSUME ~usurped' PROVE Excl(p)'
  BY <1>3, <1>5 DEF JoinInv, Typed, FunTyped, DiskTyped, PlaceTyped, Excl, InFabric, InLeases, Fresh, Settling, Migrating, Acquiring, Acq, JoinPlaces, LedgerPlaces, Locks, Goto, Acquire, disk, MyEmpty, Mine
<1>6. ASSUME ~usurped', p \in Joiners PROVE JoinerStands(p)'
  BY <1>3, <1>6 DEF JoinInv, Typed, FunTyped, PlaceTyped, DataStands, JoinerStands, Fresh, Settling, Migrating, Acquiring, Acq, JoinPlaces, LedgerPlaces, Goto, Acquire, disk, InLedger, Entries, Data
<1>7. ASSUME ~usurped' PROVE Reads(p)'
  BY <1>3, <1>7 DEF JoinInv, Typed, FunTyped, PlaceTyped, DataStands, Reads, Goto, Acquire, disk, Entries, Data
<1> QED
  BY <1>1, <1>2, <1>3, <1>4, <1>5, <1>6, <1>7, Quiet

LEMMA ReadLedgerStep ==
  ASSUME JoinInv, NEW p \in Procs, ReadLedger(p)
  PROVE  JoinInv'
<1> USE DEF ReadLedger
<1>1. FunTyped' /\ Others(p) /\ lock' = [l \in Locks |-> lock'[l]]
  BY DEF JoinInv, Typed, FunTyped, DiskTyped, PlaceTyped, Others, Goto, disk
<1>2. PlaceTyped(p)'
  <2>1. PlaceTyped(p) /\ pc'[p] = "write" /\ view'[p] = Entries /\ UNCHANGED <<starts, want, arg, tuple>>
    BY DEF JoinInv, Typed, FunTyped, Goto
  <2>2. Entries \subseteq Leases
    BY DEF JoinInv, Typed, DiskTyped, Entries
  <2> QED
    BY <2>1, <2>2 DEF PlaceTyped, Acquiring, Places, Acq, JoinPlaces, LedgerPlaces
<1>3. UNCHANGED Data /\ (usurped => usurped')
  BY DEF Data, disk
<1>4. ASSUME ~usurped' PROVE LockSafe(p)
  BY <1>4 DEF JoinInv, Typed, DiskTyped, PlaceTyped, LockSafe, disk, MyEmpty, Mine
<1>5. ASSUME ~usurped' PROVE Excl(p)'
  BY <1>3, <1>5 DEF JoinInv, Typed, FunTyped, DiskTyped, PlaceTyped, Excl, InFabric, InLeases, Fresh, Settling, Migrating, Acquiring, Acq, JoinPlaces, LedgerPlaces, Locks, Goto, disk, MyEmpty, Mine
<1>6. ASSUME ~usurped', p \in Joiners PROVE JoinerStands(p)'
  BY <1>3, <1>6 DEF JoinInv, Typed, FunTyped, PlaceTyped, DataStands, JoinerStands, Fresh, Settling, Migrating, Acquiring, Acq, JoinPlaces, LedgerPlaces, Goto, disk, InLedger, Entries, Data
<1>7. ASSUME ~usurped' PROVE Reads(p)'
  BY <1>3, <1>7 DEF JoinInv, Typed, FunTyped, PlaceTyped, DataStands, Reads, Goto, disk, Entries, Data
<1> QED
  BY <1>1, <1>2, <1>3, <1>4, <1>5, <1>6, <1>7, Quiet

LEMMA LeaveLedgerStep ==
  ASSUME JoinInv, NEW p \in Procs, LeaveLedger(p)
  PROVE  JoinInv'
<1> USE DEF LeaveLedger
<1>1. FunTyped' /\ Others(p) /\ lock' = [l \in Locks |-> lock'[l]]
  BY DEF JoinInv, Typed, FunTyped, DiskTyped, PlaceTyped, Others, Goto, Released
<1>2. PlaceTyped(p)'
  BY DEF JoinInv, Typed, FunTyped, DiskTyped, PlaceTyped, Acquiring, Goto, Released, Places, Acq, JoinPlaces, LedgerPlaces, Locks
<1>3. UNCHANGED Data /\ (usurped => usurped')
  BY DEF Data
<1>4. ASSUME ~usurped' PROVE LockSafe(p)
  BY <1>4 DEF JoinInv, Typed, DiskTyped, PlaceTyped, LockSafe, Released, MyEmpty, Mine
<1>5. ASSUME ~usurped' PROVE Excl(p)'
  BY <1>3, <1>5 DEF JoinInv, Typed, FunTyped, DiskTyped, PlaceTyped, Excl, InFabric, InLeases, Fresh, Settling, Migrating, Acquiring, Acq, JoinPlaces, LedgerPlaces, Locks, Goto, Released, MyEmpty, Mine
<1>6. ASSUME ~usurped', p \in Joiners PROVE JoinerStands(p)'
  BY <1>3, <1>6 DEF JoinInv, Typed, FunTyped, PlaceTyped, DataStands, JoinerStands, Fresh, Settling, Migrating, Acquiring, Acq, JoinPlaces, LedgerPlaces, Goto, Released, InLedger, Entries, Data
<1>7. ASSUME ~usurped' PROVE Reads(p)'
  BY <1>3, <1>7 DEF JoinInv, Typed, FunTyped, PlaceTyped, DataStands, Reads, Goto, Released, Entries, Data
<1> QED
  BY <1>1, <1>2, <1>3, <1>4, <1>5, <1>6, <1>7, Quiet

LEMMA LeaveJoinStep ==
  ASSUME JoinInv, NEW p \in Procs, LeaveJoin(p)
  PROVE  JoinInv'
<1> USE DEF LeaveJoin
<1>1. FunTyped' /\ Others(p) /\ lock' = [l \in Locks |-> lock'[l]]
  BY DEF JoinInv, Typed, FunTyped, DiskTyped, PlaceTyped, Others, Goto, Released
<1>2. PlaceTyped(p)'
  BY DEF JoinInv, Typed, FunTyped, DiskTyped, PlaceTyped, Acquiring, Goto, Released, Places, Acq, JoinPlaces, LedgerPlaces, Locks
<1>3. UNCHANGED Data /\ (usurped => usurped')
  BY DEF Data
<1>4. ASSUME ~usurped' PROVE LockSafe(p)
  BY <1>4 DEF JoinInv, Typed, DiskTyped, PlaceTyped, LockSafe, Released, MyEmpty, Mine
<1>5. ASSUME ~usurped' PROVE Excl(p)'
  BY <1>3, <1>5 DEF JoinInv, Typed, FunTyped, DiskTyped, PlaceTyped, Excl, InFabric, InLeases, Fresh, Settling, Migrating, Acquiring, Acq, JoinPlaces, LedgerPlaces, Locks, Goto, Released, MyEmpty, Mine
<1>6. ASSUME ~usurped', p \in Joiners PROVE JoinerStands(p)'
  BY <1>3, <1>6 DEF JoinInv, Typed, FunTyped, PlaceTyped, DataStands, JoinerStands, Fresh, Settling, Migrating, Acquiring, Acq, JoinPlaces, LedgerPlaces, Goto, Released, InLedger, Entries, Data
<1>7. ASSUME ~usurped' PROVE Reads(p)'
  BY <1>3, <1>7 DEF JoinInv, Typed, FunTyped, PlaceTyped, DataStands, Reads, Goto, Released, Entries, Data
<1> QED
  BY <1>1, <1>2, <1>3, <1>4, <1>5, <1>6, <1>7, Quiet

LEMMA recoverPendingAdmissionStep ==
  ASSUME JoinInv, NEW p \in Procs, recoverPendingAdmission(p)
  PROVE  JoinInv'
<1> USE DEF recoverPendingAdmission
<1>1. FunTyped' /\ Others(p) /\ lock' = [l \in Locks |-> lock'[l]]
  BY DEF JoinInv, Typed, FunTyped, DiskTyped, PlaceTyped, Others, Goto, disk
<1>2. PlaceTyped(p)'
  <2>1. PlaceTyped(p) /\ pc'[p] \in {"register", "leave"} /\ p # Sidecar
    BY DEF JoinInv, Typed, FunTyped, Goto, PlaceTyped, JoinPlaces
  <2>2. tuple'[p] = journal \/ (tuple'[p] = tuple[p] /\ pc'[p] = "leave")
    BY DEF JoinInv, Typed, FunTyped, Goto
  <2>3. journal \in Admissions /\ UNCHANGED <<starts, want, arg, view>>
    BY DEF JoinInv, Typed, DiskTyped
  <2> QED
    BY <2>1, <2>2, <2>3 DEF PlaceTyped, Acquiring, Places, Acq, JoinPlaces, LedgerPlaces
<1>3. UNCHANGED Data /\ (usurped => usurped')
  BY DEF Data, disk
<1>4. ASSUME ~usurped' PROVE LockSafe(p)
  BY <1>4 DEF JoinInv, Typed, DiskTyped, PlaceTyped, LockSafe, disk, MyEmpty, Mine
<1>5. ASSUME ~usurped' PROVE Excl(p)'
  BY <1>3, <1>5 DEF JoinInv, Typed, FunTyped, DiskTyped, PlaceTyped, Excl, InFabric, InLeases, Fresh, Settling, Migrating, Acquiring, Acq, JoinPlaces, LedgerPlaces, Locks, Goto, disk, MyEmpty, Mine
<1>6. ASSUME ~usurped', p \in Joiners PROVE JoinerStands(p)'
  BY <1>3, <1>6 DEF JoinInv, Typed, FunTyped, PlaceTyped, DataStands, JoinerStands, Fresh, Settling, Migrating, Acquiring, Acq, JoinPlaces, LedgerPlaces, Goto, disk, InLedger, Entries, Data
<1>7. ASSUME ~usurped' PROVE Reads(p)'
  BY <1>3, <1>7 DEF JoinInv, Typed, FunTyped, PlaceTyped, DataStands, Reads, Goto, disk, Entries, Data
<1> QED
  BY <1>1, <1>2, <1>3, <1>4, <1>5, <1>6, <1>7, Quiet

LEMMA CrashStep ==
  ASSUME JoinInv, NEW p \in Procs, Crash(p)
  PROVE  JoinInv'
<1> USE DEF Crash
<1>1. FunTyped' /\ Others(p) /\ lock' = [l \in Locks |-> lock'[l]]
  BY DEF JoinInv, Typed, FunTyped, DiskTyped, PlaceTyped, Others, Goto, disk, local
<1>2. PlaceTyped(p)'
  <2>1. PlaceTyped(p) /\ pc'[p] = "idle" /\ p # Sidecar
    BY DEF JoinInv, Typed, FunTyped, Goto
  <2> QED
    BY <2>1 DEF PlaceTyped, Acquiring, Places, Acq, JoinPlaces, LedgerPlaces, local
<1>3. UNCHANGED Data /\ (usurped => usurped')
  BY DEF Data, disk, local
<1>4. ASSUME ~usurped' PROVE LockSafe(p)
  BY <1>4 DEF JoinInv, Typed, DiskTyped, PlaceTyped, LockSafe, disk, local, MyEmpty, Mine
<1>5. ASSUME ~usurped' PROVE Excl(p)'
  BY <1>3, <1>5 DEF JoinInv, Typed, FunTyped, DiskTyped, PlaceTyped, Excl, InFabric, InLeases, Fresh, Settling, Migrating, Acquiring, Acq, JoinPlaces, LedgerPlaces, Locks, Goto, disk, local, MyEmpty, Mine
<1>6. ASSUME ~usurped', p \in Joiners PROVE JoinerStands(p)'
  BY <1>3, <1>6 DEF JoinInv, Typed, FunTyped, PlaceTyped, DataStands, JoinerStands, Fresh, Settling, Migrating, Acquiring, Acq, JoinPlaces, LedgerPlaces, Goto, disk, local, InLedger, Entries, Data
<1>7. ASSUME ~usurped' PROVE Reads(p)'
  BY <1>3, <1>7 DEF JoinInv, Typed, FunTyped, PlaceTyped, DataStands, Reads, Goto, disk, local, Entries, Data
<1> QED
  BY <1>1, <1>2, <1>3, <1>4, <1>5, <1>6, <1>7, Quiet

LEMMA StartJoinStep ==
  ASSUME JoinInv, NEW p \in Procs, StartJoin(p)
  PROVE  JoinInv'
<1> USE DEF StartJoin
<1>1. FunTyped' /\ Others(p) /\ lock' = [l \in Locks |-> lock'[l]]
  BY DEF JoinInv, Typed, FunTyped, DiskTyped, PlaceTyped, Others, Goto, Acquire, disk
<1>2. PlaceTyped(p)'
  <2>1. PlaceTyped(p) /\ pc'[p] = "create" /\ want'[p] = "fabric" /\ tuple'[p] = NoJournal /\ starts'[p] = starts[p] + 1 /\ view'[p] = {} /\ p # Sidecar
    BY DEF JoinInv, Typed, FunTyped, Goto, Acquire
  <2>2. arg'[p] \in Args
    BY DEF JoinInv, Typed, FunTyped
  <2> QED
    BY <2>1, <2>2 DEF PlaceTyped, Acquiring, Places, Acq, JoinPlaces, LedgerPlaces, Locks
<1>3. UNCHANGED Data /\ (usurped => usurped')
  BY DEF Data, disk
<1>4. ASSUME ~usurped' PROVE LockSafe(p)
  BY <1>4 DEF JoinInv, Typed, DiskTyped, PlaceTyped, LockSafe, disk, MyEmpty, Mine
<1>5. ASSUME ~usurped' PROVE Excl(p)'
  BY <1>3, <1>5 DEF JoinInv, Typed, FunTyped, DiskTyped, PlaceTyped, Excl, InFabric, InLeases, Fresh, Settling, Migrating, Acquiring, Acq, JoinPlaces, LedgerPlaces, Locks, Goto, Acquire, disk, MyEmpty, Mine
<1>6. ASSUME ~usurped', p \in Joiners PROVE JoinerStands(p)'
  BY <1>3, <1>6 DEF JoinInv, Typed, FunTyped, PlaceTyped, DataStands, JoinerStands, Fresh, Settling, Migrating, Acquiring, Acq, JoinPlaces, LedgerPlaces, Goto, Acquire, disk, InLedger, Entries, Data
<1>7. ASSUME ~usurped' PROVE Reads(p)'
  BY <1>3, <1>7 DEF JoinInv, Typed, FunTyped, PlaceTyped, DataStands, Reads, Goto, Acquire, disk, Entries, Data
<1> QED
  BY <1>1, <1>2, <1>3, <1>4, <1>5, <1>6, <1>7, Quiet

LEMMA FewAreFinite == \A a, b : IsFiniteSet({a, b})
<1> TAKE a, b
<1>1. IsFiniteSet({a})
  BY FS_Singleton
<1>2. IsFiniteSet({a} \cup {b})
  BY <1>1, FS_AddElement
<1>3. {a} \cup {b} = {a, b}
  OBVIOUS
<1> QED
  BY <1>2, <1>3

LEMMA SmallAgree ==
  ASSUME NEW S, IsFiniteSet(S), Cardinality(S) <= 1
  PROVE  \A f, g \in S : f = g
<1> SUFFICES ASSUME NEW f \in S, NEW g \in S, f # g PROVE FALSE
  OBVIOUS
<1>1. IsFiniteSet({f}) /\ Cardinality({f}) = 1
  BY FS_Singleton
<1>2. IsFiniteSet({f} \cup {g}) /\ Cardinality({f} \cup {g}) = Cardinality({f}) + 1
  BY <1>1, FS_AddElement
<1>3. Cardinality({f} \cup {g}) <= Cardinality(S)
  BY FS_Subset
<1>4. Cardinality({f} \cup {g}) = 2
  <2> DEFINE one == Cardinality({f})
             two == Cardinality({f} \cup {g})
  <2>1. one = 1 /\ two = one + 1
    BY <1>1, <1>2
  <2> HIDE DEF one, two
  <2>2. two = 2
    BY <2>1
  <2> QED
    BY <2>2 DEF two
<1>5. Cardinality(S) \in Nat
  BY FS_CardinalityType
<1> QED
  BY <1>3, <1>4, <1>5

\* A join that reads no journal knows that everything redeemed is listed.
LEMMA NothingPending ==
  ASSUME Typed, Pending, journal = NoJournal
  PROVE  \A t \in registered : InLedger(t)
<1> SUFFICES ASSUME NEW t \in registered PROVE InLedger(t)
  OBVIOUS
<1>1. t.fabric \in Fabrics
  BY DEF Typed, DiskTyped, Admissions
<1>2. journal.fabric = NoFabric
  BY DEF NoJournal
<1> QED
  BY <1>1, <1>2 DEF Pending

LEMMA precheckStep ==
  ASSUME JoinInv, NEW p \in Procs, precheck(p)
  PROVE  JoinInv'
<1> DEFINE small == Cardinality({legacy.fabric, roster} \ {NoFabric}) <= 1
<1>1. /\ pc[p] = "load" /\ journal = NoJournal
      /\ UNCHANGED <<disk, registered, starts, arg, held, tuple, labelled, usurped>>
      /\ \/ Goto(p, "leave") /\ UNCHANGED <<want, tries, view>>
         \/ small /\ Migratable /\ Acquire(p, "leases") /\ BuildEntry(p)
         \/ Goto(p, "decide") /\ UNCHANGED <<want, tries, view>>
  BY DEF precheck
<1> HIDE DEF small
<1>2. FunTyped' /\ Others(p) /\ lock' = [l \in Locks |-> lock'[l]]
  BY <1>1 DEF JoinInv, Typed, FunTyped, DiskTyped, Others, Goto, Acquire, BuildEntry, disk
<1>3. PlaceTyped(p) /\ starts'[p] = starts[p] /\ tuple'[p] = tuple[p] /\ arg'[p] = arg[p]
  BY <1>1 DEF JoinInv, Typed
<1>4. \/ pc'[p] \in {"leave", "decide"} /\ want'[p] = want[p] /\ view'[p] = view[p]
      \/ /\ small /\ Migratable /\ pc'[p] = "create" /\ want'[p] = "leases"
         /\ view'[p] = {Lease(legacy.server, legacy.fabric, FALSE)}
  BY <1>1 DEF JoinInv, Typed, FunTyped, Goto, Acquire, BuildEntry
<1>5. p # Sidecar /\ tuple[p] = NoJournal /\ p \in Joiners
  BY <1>1, <1>3 DEF PlaceTyped, JoinPlaces
<1>6. Migratable => Lease(legacy.server, legacy.fabric, FALSE) \in Leases /\ legacy.fabric # NoFabric
  BY DEF Migratable, JoinInv, Typed, DiskTyped, Lease, Leases
<1>7. PlaceTyped(p)'
  BY <1>1, <1>3, <1>4, <1>5, <1>6 DEF PlaceTyped, Acquiring, Places, Acq, JoinPlaces, LedgerPlaces, Locks
<1>8. UNCHANGED Data /\ lock' = lock /\ usurped' = usurped
  BY <1>1 DEF Data, disk
<1>9. ASSUME ~usurped PROVE Excl(p)'
  <2>1. lock["fabric"] = Mine(p)
    BY <1>1, <1>5, <1>9 DEF JoinInv, Excl, InFabric
  <2>2. pc'[p] # "stamp" /\ ~InLeases(p)'
    BY <1>4 DEF InLeases, LedgerPlaces
  <2> QED
    BY <1>3, <1>8, <2>1, <2>2 DEF Excl, Mine
<1>10. ASSUME ~usurped PROVE JoinerStands(p)'
  <2>1. DataStands /\ Typed
    BY <1>10 DEF JoinInv
  <2>2. ~Settling(p)' /\ pc'[p] \notin {"merged", "clear"}
    BY <1>3, <1>4, <1>5 DEF Settling, Acquiring, LedgerPlaces
  <2>3. SUFFICES ASSUME Migrating(p)'
                 PROVE  /\ ledger = NoLedger /\ registered = {}
                        /\ \E e \in Leases : view'[p] = {e} /\ roster \in {NoFabric, e.fabric}
    BY <1>1, <1>8, <2>2 DEF JoinerStands, Data
  <2>4. small /\ Migratable /\ view'[p] = {Lease(legacy.server, legacy.fabric, FALSE)}
    BY <1>4, <2>3 DEF Migrating, Acquiring, Acq
  <2>5. ledger = NoLedger /\ registered = {}
    <3>1. Entries = {}
      BY <2>4 DEF Entries, Migratable
    <3> QED
      BY <1>1, <2>1, <2>4, <3>1, NothingPending DEF DataStands, InLedger, Migratable
  <2>6. roster \in {NoFabric, legacy.fabric}
    <3>1. IsFiniteSet({legacy.fabric, roster} \ {NoFabric})
      <4>1. IsFiniteSet({legacy.fabric, roster})
        BY FewAreFinite
      <4> QED
        BY <4>1, FS_Difference
    <3>2. \A f, g \in {legacy.fabric, roster} \ {NoFabric} : f = g
      BY <2>4, <3>1, SmallAgree DEF small
    <3> QED
      BY <1>6, <2>4, <3>2
  <2>7. Lease(legacy.server, legacy.fabric, FALSE).fabric = legacy.fabric
    BY DEF Lease
  <2> QED
    BY <1>6, <2>4, <2>5, <2>6, <2>7
<1>11. LockSafe(p) /\ Reads(p)'
  BY <1>4, <1>8 DEF LockSafe, Reads
<1> QED
  BY <1>2, <1>7, <1>8, <1>9, <1>10, <1>11, Quiet

LEMMA StartRequestStep ==
  ASSUME JoinInv, StartRequest
  PROVE  JoinInv'
<1> USE DEF StartRequest
<1>1. FunTyped' /\ Others(Sidecar) /\ lock' = [l \in Locks |-> lock'[l]]
  BY DEF JoinInv, Typed, FunTyped, DiskTyped, Others, Goto, Acquire, disk
<1>2. PlaceTyped(Sidecar) /\ pc'[Sidecar] = "create" /\ want'[Sidecar] \in {"leases", "visits"} /\ tuple' = tuple /\ view' = view
      /\ starts'[Sidecar] = starts[Sidecar] + 1
  BY DEF JoinInv, Typed, FunTyped, Goto, Acquire
<1>3. PlaceTyped(Sidecar)'
  BY <1>2 DEF PlaceTyped, Acquiring, Places, Acq, JoinPlaces, LedgerPlaces, Locks
<1>4. UNCHANGED Data /\ lock' = lock /\ usurped' = usurped
  BY DEF Data, disk
<1>5. LockSafe(Sidecar) /\ Sidecar \notin Joiners
  BY <1>4 DEF LockSafe
<1>6. Excl(Sidecar)' /\ Reads(Sidecar)'
  BY <1>2, <1>5 DEF Excl, Reads, InFabric, InLeases, LedgerPlaces
<1> QED
  BY <1>1, <1>3, <1>4, <1>5, <1>6, Quiet

LEMMA recordVisitStep ==
  ASSUME JoinInv, recordVisit
  PROVE  JoinInv'
<1> USE DEF recordVisit
<1>1. FunTyped' /\ Others(Sidecar) /\ lock' = [l \in Locks |-> lock'[l]]
  BY DEF JoinInv, Typed, FunTyped, DiskTyped, Others, Goto, Released, Locks
<1>2. PlaceTyped(Sidecar) /\ pc'[Sidecar] = "idle" /\ UNCHANGED <<want, tuple, starts, view>>
  BY DEF JoinInv, Typed, FunTyped, Goto
<1>3. PlaceTyped(Sidecar)'
  BY <1>2 DEF PlaceTyped, Acquiring, Places, Acq, JoinPlaces, LedgerPlaces
<1>4. UNCHANGED Data /\ usurped' = usurped
  BY DEF Data
<1>5. LockSafe(Sidecar) /\ Sidecar \notin Joiners
  BY DEF LockSafe, Released, JoinInv, Typed, DiskTyped
<1>6. Excl(Sidecar)' /\ Reads(Sidecar)'
  BY <1>2, <1>5 DEF Excl, Reads, InFabric, InLeases, LedgerPlaces
<1> QED
  BY <1>1, <1>3, <1>4, <1>5, <1>6, Quiet

(***************************************************************************)
(* The steps that write.  While one join is inside, no other join knows    *)
(* anything, and only who holds leases.lock has read the ledger.           *)
(***************************************************************************)
LEMMA OthersStand ==
  ASSUME JoinInv, ~usurped, NEW p \in Joiners, InFabric(p), Others(p)
  PROVE  \A q \in Joiners : q # p => JoinerStands(q)'
<1> SUFFICES ASSUME NEW q \in Joiners, q # p PROVE JoinerStands(q)'
  OBVIOUS
<1>1. ~InFabric(q)
  BY OneInside DEF JoinInv
<1>2. ~Fresh(q)' /\ ~Settling(q)' /\ pc'[q] = pc[q]
  BY <1>1 DEF InFabric, Others, Fresh, Settling, Migrating, Acquiring
<1>3. ~Migrating(q)' /\ pc'[q] \notin {"merged", "clear"}
  BY <1>1, <1>2 DEF InFabric, Fresh, Settling, LedgerPlaces
<1> QED
  BY <1>2, <1>3 DEF JoinerStands

LEMMA OthersRead ==
  ASSUME JoinInv, ~usurped, NEW p \in Procs, InLeases(p) \/ ledger' = ledger, Others(p)
  PROVE  \A q \in Procs : q # p => Reads(q)'
<1> SUFFICES ASSUME NEW q \in Procs, q # p, pc[q] = "write" PROVE view[q] = Entries'
  BY DEF Reads, Others
<1>1. ~InLeases(p)
  <2>1. InLeases(q)
    BY DEF InLeases, LedgerPlaces
  <2> QED
    BY <2>1, OneInside DEF JoinInv
<1> QED
  BY <1>1 DEF JoinInv, DataStands, Reads, Entries

\* What a join that writes has to show.
LEMMA Writes ==
  ASSUME JoinInv, NEW p \in Joiners, FunTyped', DiskTyped', Others(p), PlaceTyped(p)',
         UNCHANGED <<lock, usurped>>, InFabric(p),
         ~usurped => /\ InLeases(p) \/ ledger' = ledger
                     /\ Excl(p)' /\ Agreed' /\ JournalAgrees' /\ Pending' /\ Labels'
                     /\ JoinerStands(p)' /\ Reads(p)'
  PROVE  JoinInv'
<1>1. LockSafe(p)
  BY DEF LockSafe
<1>2. ASSUME ~usurped PROVE DataStands'
  <2>1. \A q \in Joiners : JoinerStands(q)'
    BY <1>2, OthersStand
  <2>2. \A q \in Procs : Reads(q)'
    BY <1>2, OthersRead
  <2> QED
    BY <1>2, <2>1, <2>2 DEF DataStands
<1> QED
  BY <1>1, <1>2, Carry

LEMMA RenameLegacyStep ==
  ASSUME JoinInv, NEW p \in Procs, RenameLegacy(p)
  PROVE  JoinInv'
<1> USE DEF RenameLegacy
<1>1. PlaceTyped(p) /\ pc'[p] = "migrated" /\ UNCHANGED <<starts, want, arg, tuple, view, usurped>>
  BY DEF JoinInv, Typed, FunTyped, Goto, local
<1>2. p \in Joiners /\ InFabric(p) /\ InLeases(p) /\ Fresh(p)
  BY <1>1 DEF PlaceTyped, JoinPlaces, InFabric, InLeases, Fresh
<1>3. FunTyped' /\ Others(p)
  BY DEF JoinInv, Typed, FunTyped, Others, Goto, local
<1>4. PlaceTyped(p)'
  BY <1>1 DEF PlaceTyped, Acquiring, Places, Acq, JoinPlaces, LedgerPlaces
<1>5. DiskTyped'
  <2>1. legacy' \in [kind : Kinds, server : Servers, fabric : Fabrics \cup {NoFabric}] /\ legacy'.kind = "none"
    BY DEF JoinInv, Typed, DiskTyped, Kinds
  <2> QED
    BY <2>1 DEF JoinInv, Typed, DiskTyped
<1>6. ASSUME ~usurped PROVE (Agreed /\ JournalAgrees /\ Pending /\ Labels)'
  BY <1>6 DEF JoinInv, DataStands, Agreed, JournalAgrees, Pending, Labels, Named, InLedger, Entries
<1>7. ASSUME ~usurped PROVE Excl(p)' /\ JoinerStands(p)' /\ Reads(p)'
  <2>1. Excl(p) /\ journal = NoJournal
    BY <1>2, <1>7 DEF JoinInv, DataStands, JoinerStands
  <2>2. ~Settling(p)' /\ ~Migrating(p)'
    BY <1>1 DEF Settling, Migrating, Acquiring, Acq, LedgerPlaces
  <2> QED
    BY <1>1, <1>2, <2>1, <2>2 DEF Excl, JoinerStands, Reads, Mine
<1> QED
  BY <1>1, <1>2, <1>3, <1>4, <1>5, <1>6, <1>7, Writes

LEMMA migrateLegacyRegistrationStep ==
  ASSUME JoinInv, NEW p \in Procs, migrateLegacyRegistration(p)
  PROVE  JoinInv'
<1> USE DEF migrateLegacyRegistration
<1>1. PlaceTyped(p) /\ pc[p] = "migrate" /\ pc'[p] \in {"rename", "migrated"} /\ UNCHANGED <<starts, want, arg, tuple, view, usurped>>
  BY DEF JoinInv, Typed, FunTyped, Goto, local
<1>2. p \in Joiners /\ InFabric(p) /\ InLeases(p) /\ Fresh(p) /\ Migrating(p)
  BY <1>1 DEF PlaceTyped, JoinPlaces, InFabric, InLeases, Fresh, Migrating
<1>3. FunTyped' /\ Others(p)
  BY DEF JoinInv, Typed, FunTyped, Others, Goto, local
<1>4. PlaceTyped(p)'
  BY <1>1 DEF PlaceTyped, Acquiring, Places, Acq, JoinPlaces, LedgerPlaces
<1>5. ledger' \in {view[p], ledger} /\ UNCHANGED <<lock, journal, legacy, roster, registered, labelled>>
  OBVIOUS
<1>6. DiskTyped'
  BY <1>1, <1>5 DEF JoinInv, Typed, DiskTyped, PlaceTyped
<1>7. ASSUME ~usurped PROVE (Agreed /\ JournalAgrees /\ Pending /\ Labels)'
  <2>1. JoinerStands(p) /\ DataStands
    BY <1>2, <1>7 DEF JoinInv, DataStands
  <2>2. journal = NoJournal /\ ledger = NoLedger /\ registered = {} /\ ledger' = view[p]
    BY <1>2, <2>1 DEF JoinerStands
  <2>3. PICK e \in Leases : view[p] = {e} /\ roster \in {NoFabric, e.fabric}
    BY <1>2, <2>1 DEF JoinerStands
  <2>4. Entries' = {e}
    BY <2>2, <2>3, NoLedgerApart DEF Entries
  <2>5. \A f \in Named' : f = e.fabric
    BY <1>5, <2>2, <2>3, <2>4 DEF Named
  <2>6. labelled = {}
    <3>1. Entries = {}
      BY <2>2 DEF Entries
    <3> QED
      BY <2>1, <3>1 DEF DataStands, Labels
  <2> QED
    BY <1>5, <2>2, <2>5, <2>6 DEF Agreed, JournalAgrees, Pending, Labels
<1>8. ASSUME ~usurped PROVE Excl(p)' /\ JoinerStands(p)' /\ Reads(p)'
  <2>1. Excl(p) /\ journal = NoJournal
    BY <1>2, <1>8 DEF JoinInv, DataStands, JoinerStands
  <2>2. ~Settling(p)' /\ ~Migrating(p)'
    BY <1>1 DEF Settling, Migrating, Acquiring, Acq, LedgerPlaces
  <2> QED
    BY <1>1, <1>2, <1>5, <2>1, <2>2 DEF Excl, JoinerStands, Reads, Mine
<1> QED
  BY <1>1, <1>2, <1>3, <1>4, <1>5, <1>6, <1>7, <1>8, Writes

LEMMA performRegisterStep ==
  ASSUME JoinInv, NEW p \in Procs, performRegister(p)
  PROVE  JoinInv'
<1> USE DEF performRegister
<1>1. PlaceTyped(p) /\ pc[p] = "register" /\ pc'[p] \in {"accepted", "keep"} /\ UNCHANGED <<disk, starts, want, arg, tuple, view, usurped>>
  BY DEF JoinInv, Typed, FunTyped, Goto, local
<1>2. p \in Joiners /\ InFabric(p) /\ Settling(p) /\ tuple[p] \in Admissions
  BY <1>1 DEF PlaceTyped, JoinPlaces, InFabric, Settling
<1>3. FunTyped' /\ Others(p)
  BY DEF JoinInv, Typed, FunTyped, Others, Goto, local
<1>4. PlaceTyped(p)'
  BY <1>1 DEF PlaceTyped, Acquiring, Places, Acq, JoinPlaces, LedgerPlaces
<1>5. registered' \in {registered, registered \union {tuple[p]}} /\ UNCHANGED <<lock, ledger, journal, legacy, roster, labelled>>
  BY DEF disk
<1>6. DiskTyped'
  BY <1>2, <1>5 DEF JoinInv, Typed, DiskTyped
<1>7. ASSUME ~usurped PROVE (Agreed /\ JournalAgrees /\ Pending /\ Labels)'
  <2>1. journal = tuple[p] /\ DataStands
    BY <1>2, <1>7 DEF JoinInv, DataStands, JoinerStands
  <2>2. journal # NoJournal
    BY <1>2, <2>1, NoJournalApart
  <2>3. \A f \in Named' : f = journal.fabric
    BY <1>5, <2>1, <2>2 DEF DataStands, JournalAgrees, Named, Entries
  <2> QED
    BY <1>5, <2>1, <2>3 DEF DataStands, Agreed, JournalAgrees, Pending, Labels, InLedger, Entries
<1>8. ASSUME ~usurped PROVE Excl(p)' /\ JoinerStands(p)' /\ Reads(p)'
  <2>1. Excl(p) /\ journal = tuple[p]
    BY <1>2, <1>8 DEF JoinInv, DataStands, JoinerStands
  <2>2. ~Fresh(p)' /\ ~Migrating(p)' /\ ~InLeases(p)'
    BY <1>1 DEF Fresh, Migrating, Acquiring, Acq, InLeases, LedgerPlaces
  <2> QED
    BY <1>1, <1>2, <1>5, <2>1, <2>2 DEF Excl, JoinerStands, Reads, Mine
<1> QED
  BY <1>1, <1>2, <1>3, <1>4, <1>5, <1>6, <1>7, <1>8, Writes

LEMMA failKeepJournalStep ==
  ASSUME JoinInv, NEW p \in Procs, failKeepJournal(p)
  PROVE  JoinInv'
<1> USE DEF failKeepJournal
<1>1. PlaceTyped(p) /\ pc[p] = "keep" /\ pc'[p] = "leave" /\ UNCHANGED <<starts, want, arg, tuple, view, usurped>>
  BY DEF JoinInv, Typed, FunTyped, Goto, local
<1>2. p \in Joiners /\ InFabric(p) /\ Settling(p) /\ tuple[p] \in Admissions
  BY <1>1 DEF PlaceTyped, JoinPlaces, InFabric, Settling
<1>3. FunTyped' /\ Others(p)
  BY DEF JoinInv, Typed, FunTyped, Others, Goto, local
<1>4. PlaceTyped(p)'
  BY <1>1 DEF PlaceTyped, Acquiring, Places, Acq, JoinPlaces, LedgerPlaces
<1>5. journal' = tuple[p] /\ UNCHANGED <<lock, ledger, legacy, roster, registered, labelled>>
  OBVIOUS
<1>6. DiskTyped'
  BY <1>2, <1>5 DEF JoinInv, Typed, DiskTyped
<1>7. ASSUME ~usurped PROVE (Agreed /\ JournalAgrees /\ Pending /\ Labels)'
  <2>1. journal = tuple[p] /\ DataStands
    BY <1>2, <1>7 DEF JoinInv, DataStands, JoinerStands
  <2> QED
    BY <1>5, <2>1 DEF DataStands, Agreed, JournalAgrees, Pending, Labels, InLedger, Entries, Named
<1>8. Excl(p)' /\ JoinerStands(p)' /\ Reads(p)'
  BY <1>1 DEF Excl, JoinerStands, Reads, InFabric, InLeases, Fresh, Settling, Migrating, Acquiring, Acq, LedgerPlaces
<1> QED
  BY <1>1, <1>2, <1>3, <1>4, <1>5, <1>6, <1>7, <1>8, Writes

LEMMA clearAdmissionJournalStep ==
  ASSUME JoinInv, NEW p \in Procs, clearAdmissionJournal(p)
  PROVE  JoinInv'
<1> USE DEF clearAdmissionJournal
<1>1. PlaceTyped(p) /\ pc[p] = "clear" /\ pc'[p] = "leave" /\ UNCHANGED <<starts, want, arg, tuple, view, usurped>>
  BY DEF JoinInv, Typed, FunTyped, Goto, local
<1>2. p \in Joiners /\ InFabric(p) /\ Settling(p)
  BY <1>1 DEF PlaceTyped, JoinPlaces, InFabric, Settling
<1>3. FunTyped' /\ Others(p)
  BY DEF JoinInv, Typed, FunTyped, Others, Goto, local
<1>4. PlaceTyped(p)'
  BY <1>1 DEF PlaceTyped, Acquiring, Places, Acq, JoinPlaces, LedgerPlaces
<1>5. journal' = NoJournal /\ UNCHANGED <<lock, ledger, legacy, roster, registered, labelled>>
  OBVIOUS
<1>6. DiskTyped'
  BY <1>5 DEF JoinInv, Typed, DiskTyped
<1>7. ASSUME ~usurped PROVE (Agreed /\ JournalAgrees /\ Pending /\ Labels)'
  <2>1. journal = tuple[p] /\ InLedger(tuple[p]) /\ DataStands
    BY <1>1, <1>2, <1>7 DEF JoinInv, DataStands, JoinerStands
  <2>2. \A t \in registered : InLedger(t)
    BY <2>1 DEF DataStands, Pending, InLedger
  <2> QED
    BY <1>5, <2>1, <2>2 DEF DataStands, Agreed, JournalAgrees, Pending, Labels, InLedger, Entries, Named
<1>8. Excl(p)' /\ JoinerStands(p)' /\ Reads(p)'
  BY <1>1 DEF Excl, JoinerStands, Reads, InFabric, InLeases, Fresh, Settling, Migrating, Acquiring, Acq, LedgerPlaces
<1> QED
  BY <1>1, <1>2, <1>3, <1>4, <1>5, <1>6, <1>7, <1>8, Writes

\* Before a join decides, every source of a fabric is among those it finds.
LEMMA FoundAll ==
  ASSUME Typed, Pending, Agreed, journal = NoJournal
  PROVE  LET found == resolveExistingFabricId(Entries, legacy)
         IN  Named \subseteq found /\ found \subseteq Fabrics /\ IsFiniteSet(found)
<1> DEFINE recorded == {e.fabric : e \in Entries}
           found == resolveExistingFabricId(Entries, legacy)
<1>1. {t.fabric : t \in registered} \subseteq recorded
  BY NothingPending DEF InLedger
<1>2. found = (recorded \union {legacy.fabric, roster}) \ {NoFabric}
  BY DEF resolveExistingFabricId
<1>3. Named \subseteq found
  BY <1>1, <1>2 DEF Named
<1>4. recorded \subseteq Fabrics
  BY DEF Typed, DiskTyped, Entries, Leases
<1>5. found \subseteq Fabrics
  BY <1>2, <1>4 DEF Typed, DiskTyped
<1>6. \A f, g \in recorded : f = g
  <2>1. recorded \subseteq Named
    BY <1>4 DEF Named
  <2> QED
    BY <2>1 DEF Agreed
<1>7. IsFiniteSet(recorded) /\ IsFiniteSet({legacy.fabric, roster})
  BY <1>6, OnlyOneValue, FewAreFinite
<1> HIDE DEF recorded, found
<1>8. IsFiniteSet(recorded \union {legacy.fabric, roster})
  BY <1>7, FS_Union
<1>9. IsFiniteSet(found)
  BY <1>2, <1>8, FS_Difference
<1> QED
  BY <1>3, <1>5, <1>9 DEF found

LEMMA decideFabricStep ==
  ASSUME JoinInv, NEW p \in Procs, decideFabric(p)
  PROVE  JoinInv'
<1> DEFINE found == resolveExistingFabricId(Entries, legacy)
<1>1. /\ pc[p] = "decide"
      /\ UNCHANGED <<lock, ledger, legacy, roster, visits, registered, starts, arg, want, tries, held, view, labelled, usurped>>
      /\ \/ Goto(p, "leave") /\ UNCHANGED <<journal, tuple>>
         \/ /\ Cardinality(found) <= 1
            /\ \E f \in selectFabricId(p, found) :
                 journal' = [server |-> arg[p].server, code |-> arg[p].code, fabric |-> f]
            /\ tuple' = [tuple EXCEPT ![p] = journal']
            /\ Goto(p, "register")
  BY DEF decideFabric
<1>2. Typed /\ PlaceTyped(p) /\ arg[p] \in Args /\ p \in Joiners /\ tuple[p] = NoJournal
  BY <1>1 DEF JoinInv, Typed, PlaceTyped, JoinPlaces
<1>3. InFabric(p) /\ Fresh(p)
  BY <1>1, <1>2 DEF InFabric, Fresh
<1>4. found \subseteq Fabrics
  BY <1>2 DEF Typed, DiskTyped, Entries, Leases, resolveExistingFabricId
<1> HIDE DEF found
<1>5. FunTyped' /\ Others(p)
  BY <1>1, <1>2 DEF Typed, FunTyped, Others, Goto
<1>6. CASE Goto(p, "leave") /\ UNCHANGED <<journal, tuple>>
  <2>1. pc'[p] = "leave" /\ UNCHANGED <<starts, want, arg, view, tuple>> /\ UNCHANGED Data /\ lock' = lock /\ usurped' = usurped
    BY <1>1, <1>2, <1>6 DEF Typed, FunTyped, Goto, Data
  <2>2. PlaceTyped(p)'
    BY <1>2, <2>1 DEF PlaceTyped, Acquiring, Places, Acq, JoinPlaces, LedgerPlaces
  <2>3. Excl(p)' /\ JoinerStands(p)' /\ Reads(p)' /\ LockSafe(p)
    BY <2>1 DEF Excl, JoinerStands, Reads, InFabric, InLeases, Fresh, Settling, Migrating, Acquiring, Acq, LedgerPlaces, LockSafe
  <2>4. lock' = [l \in Locks |-> lock'[l]]
    BY <1>2, <2>1 DEF Typed, DiskTyped
  <2> QED
    BY <1>5, <2>1, <2>2, <2>3, <2>4, Quiet
<1>7. ASSUME Cardinality(found) <= 1, NEW f \in selectFabricId(p, found),
             journal' = [server |-> arg[p].server, code |-> arg[p].code, fabric |-> f],
             tuple' = [tuple EXCEPT ![p] = journal'], Goto(p, "register")
      PROVE  JoinInv'
  <2>1. f \in Fabrics /\ (found # {} => f \in found)
    BY <1>2, <1>4, <1>7 DEF selectFabricId
  <2>2. journal' \in Admissions /\ journal'.fabric = f
    BY <1>2, <1>7, <2>1 DEF Admissions, Codes
  <2>3. journal' # NoJournal
    BY <2>2, NoJournalApart
  <2>4. pc'[p] = "register" /\ tuple'[p] = journal' /\ UNCHANGED <<starts, want, arg, view>>
    BY <1>1, <1>2, <1>7 DEF Typed, FunTyped, Goto
  <2>5. PlaceTyped(p)'
    BY <1>2, <2>2, <2>3, <2>4 DEF PlaceTyped, Acquiring, Places, Acq, JoinPlaces, LedgerPlaces
  <2>6. DiskTyped'
    BY <1>1, <1>2, <2>2 DEF Typed, DiskTyped
  <2>7. ASSUME ~usurped PROVE (Agreed /\ JournalAgrees /\ Pending /\ Labels)'
    <3>1. journal = NoJournal /\ DataStands
      BY <1>2, <1>3, <2>7 DEF JoinInv, DataStands, JoinerStands
    <3>2. Named \subseteq found /\ IsFiniteSet(found)
      BY <1>2, <3>1, FoundAll DEF DataStands, found
    <3>3. \A g \in Named : g = f
      BY <1>7, <2>1, <3>2, SmallAgree
    <3>4. \A t \in registered : InLedger(t)
      BY <1>2, <3>1, NothingPending DEF DataStands
    <3> QED
      BY <1>1, <2>2, <3>1, <3>3, <3>4 DEF DataStands, Agreed, JournalAgrees, Pending, Labels, Named, Entries, InLedger
  <2>8. ASSUME ~usurped PROVE Excl(p)' /\ JoinerStands(p)' /\ Reads(p)'
    <3>1. Excl(p)
      BY <2>8 DEF JoinInv
    <3>2. ~Fresh(p)' /\ ~Migrating(p)' /\ ~InLeases(p)'
      BY <2>4 DEF Fresh, Migrating, Acquiring, Acq, InLeases, LedgerPlaces
    <3> QED
      BY <1>1, <1>3, <2>4, <3>1, <3>2 DEF Excl, JoinerStands, Reads, Mine
  <2> QED
    BY <1>1, <1>2, <1>3, <1>5, <2>5, <2>6, <2>7, <2>8, Writes
<1> QED
  BY <1>1, <1>6, <1>7

LEMMA upsertLeaseStep ==
  ASSUME JoinInv, NEW p \in Procs, upsertLease(p)
  PROVE  JoinInv'
<1> DEFINE old == view[p]
           new == Merge(view[p], tuple[p].server, tuple[p].fabric)
<1> USE DEF upsertLease
<1>1. PlaceTyped(p) /\ pc[p] = "write" /\ pc'[p] = "merged" /\ UNCHANGED <<starts, want, arg, tuple, view, usurped>>
  BY DEF JoinInv, Typed, FunTyped, Goto, local
<1>2. p \in Joiners /\ InFabric(p) /\ InLeases(p) /\ Settling(p) /\ tuple[p] \in Admissions
  BY <1>1 DEF PlaceTyped, InFabric, InLeases, Settling, LedgerPlaces
<1>3. FunTyped' /\ Others(p)
  BY DEF JoinInv, Typed, FunTyped, Others, Goto, local
<1>4. PlaceTyped(p)'
  BY <1>1 DEF PlaceTyped, Acquiring, Places, Acq, JoinPlaces, LedgerPlaces
<1>5. ledger' = new /\ UNCHANGED <<lock, journal, legacy, roster, registered, labelled>>
  OBVIOUS
<1>6. /\ new \subseteq Leases /\ old \subseteq new
      /\ \E e \in new : e.server = tuple[p].server /\ e.fabric = tuple[p].fabric
      /\ \A e \in new : e \in old \/ e.fabric = tuple[p].fabric
  <2>1. old \subseteq Leases
    BY <1>1 DEF PlaceTyped
  <2>2. CASE \E e \in old : e.server = tuple[p].server /\ e.fabric = tuple[p].fabric
    BY <2>1, <2>2 DEF Merge
  <2>3. CASE ~ \E e \in old : e.server = tuple[p].server /\ e.fabric = tuple[p].fabric
    <3> DEFINE e0 == Lease(tuple[p].server, tuple[p].fabric, FALSE)
    <3>1. new = old \union {e0}
      BY <2>3 DEF Merge
    <3>2. e0 \in Leases /\ e0.server = tuple[p].server /\ e0.fabric = tuple[p].fabric
      BY <1>2 DEF Lease, Leases, Admissions
    <3> HIDE DEF e0, new
    <3> QED
      BY <2>1, <3>1, <3>2
  <2> QED
    BY <2>2, <2>3
<1> HIDE DEF new
<1>7. DiskTyped' /\ Entries' = new
  BY <1>5, <1>6, NoLedgerApart DEF JoinInv, Typed, DiskTyped, Entries
<1>8. ASSUME ~usurped PROVE (Agreed /\ JournalAgrees /\ Pending /\ Labels)'
  <2>1. journal = tuple[p] /\ DataStands /\ old = Entries
    BY <1>1, <1>2, <1>8 DEF JoinInv, DataStands, JoinerStands, Reads
  <2>2. journal # NoJournal
    BY <1>2, <2>1, NoJournalApart
  <2>3. \A f \in Named' : f = journal.fabric
    <3>1. \A f \in Named : f = journal.fabric
      BY <2>1, <2>2 DEF DataStands, JournalAgrees
    <3> QED
      BY <1>5, <1>6, <1>7, <2>1, <3>1 DEF Named
  <2>4. \A t : InLedger(t) => InLedger(t)'
    BY <1>6, <1>7, <2>1 DEF InLedger
  <2>5. Pending'
    BY <1>5, <2>1, <2>4 DEF DataStands, Pending
  <2>6. Labels'
    BY <1>5, <1>6, <1>7, <2>1 DEF DataStands, Labels
  <2> QED
    BY <1>5, <2>3, <2>5, <2>6 DEF Agreed, JournalAgrees
<1>9. ASSUME ~usurped PROVE Excl(p)' /\ JoinerStands(p)' /\ Reads(p)'
  <2>1. Excl(p) /\ journal = tuple[p]
    BY <1>2, <1>9 DEF JoinInv, DataStands, JoinerStands
  <2>2. ~Fresh(p)' /\ ~Migrating(p)'
    BY <1>1 DEF Fresh, Migrating, Acquiring, Acq
  <2>3. InLedger(tuple[p])'
    BY <1>1, <1>6, <1>7 DEF InLedger
  <2> QED
    BY <1>1, <1>2, <1>5, <2>1, <2>2, <2>3 DEF Excl, JoinerStands, Reads, Mine
<1> QED
  BY <1>1, <1>2, <1>3, <1>4, <1>5, <1>7, <1>8, <1>9, Writes

LEMMA setLeaseLabelStep ==
  ASSUME JoinInv, setLeaseLabel
  PROVE  JoinInv'
<1> DEFINE s == arg[Sidecar].server
<1>1. /\ pc[Sidecar] = "write" /\ Goto(Sidecar, "merged")
      /\ UNCHANGED <<lock, journal, legacy, roster, visits, registered, local, usurped>>
      /\ \/ UNCHANGED <<ledger, labelled>>
         \/ \E e \in view[Sidecar] : /\ e.server = s
                                     /\ ledger' = (view[Sidecar] \ {e}) \union {[e EXCEPT !.label = TRUE]}
                                     /\ labelled' = labelled \union {s}
  BY DEF setLeaseLabel
<1>2. PlaceTyped(Sidecar) /\ pc'[Sidecar] = "merged" /\ UNCHANGED <<starts, want, arg, tuple, view>>
  BY <1>1 DEF JoinInv, Typed, FunTyped, Goto, local
<1>3. Sidecar \in Procs /\ InLeases(Sidecar) /\ ~InFabric(Sidecar)
  BY <1>1 DEF InLeases, LedgerPlaces, InFabric
<1>4. FunTyped' /\ Others(Sidecar)
  BY <1>1 DEF JoinInv, Typed, FunTyped, Others, Goto, local
<1>5. PlaceTyped(Sidecar)'
  BY <1>2 DEF PlaceTyped, Acquiring, Places, Acq, JoinPlaces, LedgerPlaces
<1>6. LockSafe(Sidecar)
  BY <1>1 DEF LockSafe
<1>7. ASSUME ~usurped PROVE Excl(Sidecar)' /\ Reads(Sidecar)'
  <2>1. Excl(Sidecar)
    BY <1>3, <1>7 DEF JoinInv
  <2> QED
    BY <1>1, <1>2, <1>3, <2>1 DEF Excl, Reads, InFabric, Mine
<1>8. CASE UNCHANGED <<ledger, labelled>>
  <2>1. UNCHANGED Data /\ lock' = [l \in Locks |-> lock'[l]] /\ usurped' = usurped
    BY <1>1, <1>8 DEF Data, JoinInv, Typed, DiskTyped
  <2> QED
    BY <1>3, <1>4, <1>5, <1>6, <1>7, <2>1, Quiet
<1>9. ASSUME NEW e \in view[Sidecar], e.server = s,
             ledger' = (view[Sidecar] \ {e}) \union {[e EXCEPT !.label = TRUE]},
             labelled' = labelled \union {s}
      PROVE  JoinInv'
  <2> DEFINE m == [e EXCEPT !.label = TRUE]
  <2>1. e \in Leases /\ view[Sidecar] \subseteq Leases
    BY <1>2 DEF PlaceTyped
  <2>2. m \in Leases /\ m.server = e.server /\ m.fabric = e.fabric /\ m.label
    BY <2>1 DEF Leases
  <2> HIDE DEF m
  <2>3. ledger' = (view[Sidecar] \ {e}) \union {m} /\ ledger' \subseteq Leases
    BY <1>9, <2>1, <2>2 DEF m
  <2>4. DiskTyped' /\ Entries' = (view[Sidecar] \ {e}) \union {m}
    BY <1>1, <2>3, NoLedgerApart DEF JoinInv, Typed, DiskTyped, Entries
  <2>5. ASSUME ~usurped PROVE DataStands'
    <3>1. DataStands /\ view[Sidecar] = Entries /\ Excl(Sidecar)
      BY <1>1, <1>3, <2>5 DEF JoinInv, DataStands, Reads
    <3>2. \A t : InLedger(t)' <=> InLedger(t)
      BY <2>2, <2>4, <3>1 DEF InLedger
    <3>3. {x.fabric : x \in Entries'} = {x.fabric : x \in Entries}
      BY <2>2, <2>4, <3>1
    <3>4. Named' = Named
      BY <1>1, <3>3 DEF Named
    <3>5. (Agreed /\ JournalAgrees /\ Pending)'
      BY <1>1, <3>1, <3>2, <3>4 DEF DataStands, Agreed, JournalAgrees, Pending
    <3>6. Labels'
      BY <1>9, <2>2, <2>4, <3>1 DEF DataStands, Labels
    <3>7. ASSUME NEW q \in Joiners PROVE JoinerStands(q)'
      <4>1. ~Migrating(q)
        BY <1>9, <3>1 DEF DataStands, JoinerStands, Entries
      <4>2. JoinerStands(q)
        BY <3>1 DEF DataStands
      <4>3. (Fresh(q)' <=> Fresh(q)) /\ (Settling(q)' <=> Settling(q)) /\ ~Migrating(q)' /\ pc'[q] = pc[q] /\ tuple'[q] = tuple[q]
        BY <1>4, <4>1 DEF Others, Fresh, Settling, Migrating, Acquiring
      <4> QED
        BY <1>1, <3>2, <4>2, <4>3 DEF JoinerStands
    <3>8. \A q \in Procs : Reads(q)'
      BY <1>3, <1>4, <1>7, <2>5, OthersRead
    <3> QED
      BY <3>5, <3>6, <3>7, <3>8 DEF DataStands
  <2> QED
    BY <1>1, <1>3, <1>4, <1>5, <1>6, <1>7, <2>4, <2>5, Carry
<1> QED
  BY <1>1, <1>8, <1>9

LEMMA JoinStutter == JoinInv /\ UNCHANGED vars => JoinInv'
<1> SUFFICES ASSUME JoinInv, UNCHANGED vars PROVE JoinInv'
  OBVIOUS
<1> USE DEF vars, disk, local
<1>1. FunTyped' /\ lock' = [l \in Locks |-> lock'[l]] /\ UNCHANGED Data /\ usurped' = usurped
  BY DEF JoinInv, Typed, FunTyped, DiskTyped, Data
<1>2. Sidecar \in Procs /\ Others(Sidecar) /\ LockSafe(Sidecar)
  BY DEF Others, LockSafe
<1>3. PlaceTyped(Sidecar)'
  BY <1>2 DEF JoinInv, Typed, PlaceTyped, Acquiring
<1>4. ASSUME ~usurped PROVE Excl(Sidecar)' /\ Reads(Sidecar)'
  BY <1>2, <1>4 DEF JoinInv, DataStands, Excl, Reads, InFabric, InLeases, Mine, MyEmpty, Entries
<1> QED
  BY <1>1, <1>2, <1>3, <1>4, Quiet

LEMMA JoinNext == JoinInv /\ [Next]_vars => JoinInv'
<1> SUFFICES ASSUME JoinInv, [Next]_vars PROVE JoinInv'
  OBVIOUS
<1>1. ASSUME NEW p \in Procs, Steps(p) PROVE JoinInv'
  BY <1>1, TryCreateStep, StampLockStep, JudgeHolderStep, BreakLockStep, recoverPendingAdmissionStep, precheckStep,
     migrateLegacyRegistrationStep, RenameLegacyStep, LeaveMigrationStep, decideFabricStep, performRegisterStep,
     failKeepJournalStep, settleRegisterStep, ReadLedgerStep, upsertLeaseStep, LeaveLedgerStep,
     clearAdmissionJournalStep, LeaveJoinStep DEF Steps
<1>2. ASSUME NEW p \in Joiners, StartJoin(p) \/ Crash(p) PROVE JoinInv'
  BY <1>2, StartJoinStep, CrashStep
<1>3. CASE StartRequest \/ setLeaseLabel \/ recordVisit
  BY <1>3, StartRequestStep, setLeaseLabelStep, recordVisitStep
<1> QED
  BY <1>1, <1>2, <1>3, JoinStutter DEF Next

\* As long as no living process loses a lock file, whatever crashes and however
\* many joins run at once: the machine has one fabric, every registration a
\* server may have made is listed or can be replayed, and no label is lost
\* (join.mjs, leases.mjs, home.mjs).
THEOREM JoinAlwaysHolds == Spec => []JoinHolds
<1>1. Init => JoinInv
  BY JoinBase
<1>2. JoinInv /\ [Next]_vars => JoinInv'
  BY JoinNext
<1>3. JoinInv => JoinHolds
  BY JoinFollows
<1> QED
  BY <1>1, <1>2, <1>3, PTL DEF Spec

-----------------------------------------------------------------------------
(***************************************************************************)
(* The server command, for any settings, plugins, hooks and overrides, any *)
(* number of signals and of ends of the server by itself.  The plugins     *)
(* that are loaded have different names, so a place names a plugin; of     *)
(* every place a shutdown has to call, one of three things is so, and what *)
(* the history says of its plugin goes with it.                            *)
(***************************************************************************)
Verdicts == {"missing", "invalid", "npm", "local"}
Signals == 1..MaxSignals
Hooked == Having("preStop")
Untouched == [begun |-> 0, done |-> 0]
Begun == [begun |-> 1, done |-> 0]
Concluded == [begun |-> 1, done |-> 1]

LoadedStand ==
  /\ \A p \in DeclaredPlugins : entry[p].is \in Verdicts
  /\ loaded \in Seq(DeclaredPlugins) /\ Len(loaded) <= Len(Declared)
  /\ \A i, j \in DOMAIN loaded : i # j => entry[loaded[i]].name # entry[loaded[j]].name

FlowTyped ==
  /\ flow = [n \in Signals |-> flow[n]]
  /\ \A n \in Signals :
       /\ flow[n] = [at |-> flow[n].at, rest |-> flow[n].rest, calling |-> flow[n].calling]
       /\ flow[n].at \in {"none", "preStop", "stop"} /\ flow[n].calling \in BOOLEAN
  /\ \A n, m \in Signals : flow[n].at # "none" /\ flow[m].at # "none" => n = m
  /\ InFlight => stage \in {"serving", "ended"}

\* What was asked of the plugin at this place.
PlaceStands(f, i) ==
  stopped[loaded[i]] = IF i \notin f.rest THEN Concluded
                       ELSE IF f.calling /\ i = Foremost(f.rest) THEN Begun ELSE Untouched
FlowStands(f) ==
  /\ f.rest \subseteq Hooked
  /\ \A i \in Hooked : PlaceStands(f, i)
  /\ \A p \in DeclaredPlugins : (\A i \in Hooked : p # loaded[i]) => stopped[p] = Untouched
  /\ f.rest = {} => ~f.calling
  /\ f.at = "stop" => f.rest = {}
StopsStand ==
  /\ stopped = [p \in DeclaredPlugins |-> stopped[p]]
  /\ ~InFlight => \A p \in DeclaredPlugins : stopped[p] = Untouched
  /\ \A n \in Signals : flow[n].at # "none" => FlowStands(flow[n])

\* Who was told to stop, and when there is a server at all.
KillStands ==
  /\ kill = "sent" => stage \in {"giveUp", "ended"} \/ InFlight
  /\ kill = "sent" /\ InFlight => \E n \in Signals : flow[n].at = "stop"
  /\ stage \in {"config", "load", "setup", "preStart"} => server = "none"
  /\ signals \in Nat

ServerInv == LoadedStand /\ FlowTyped /\ StopsStand /\ KillStands /\ NoServerLeft
ServerAssumption ==
  /\ MaxSignals \in Nat /\ Declared \in Seq(DeclaredPlugins)
  /\ \A e \in EntryKinds : e.is \in Verdicts

LEMMA ForemostIs ==
  ASSUME NEW S \in SUBSET Nat, S # {}
  PROVE  Foremost(S) \in S /\ \A j \in S : Foremost(S) <= j
<1>1. PICK i \in S : \A j \in S : <<j, i>> \notin OpToRel(<, Nat)
  BY NatLessThanWellFounded, WFMin
<1>2. \A j \in S : i <= j
  <2> SUFFICES ASSUME NEW j \in S PROVE i <= j
    OBVIOUS
  <2>1. <<j, i>> \notin OpToRel(<, Nat)
    BY <1>1
  <2>2. i \in Nat /\ j \in Nat
    OBVIOUS
  <2>3. ~(j < i)
    BY <2>1, <2>2, Zenon DEF OpToRel
  <2> QED
    BY <2>2, <2>3
<1> QED
  BY <1>2 DEF Foremost

LEMMA ServerStarts == ASSUME ServerAssumption, ServerInit PROVE ServerInv
<1>1. \A n \in Signals : flow[n] = NoFlow
  BY DEF ServerInit, Signals
<1>2. ~InFlight /\ FlowTyped
  BY <1>1 DEF FlowTyped, NoFlow, InFlight, Signals, ServerInit
<1>3. LoadedStand
  <2>1. loaded = <<>> /\ entry \in [DeclaredPlugins -> EntryKinds]
    BY Zenon DEF ServerInit
  <2>2. <<>> \in Seq(DeclaredPlugins) /\ Len(<<>>) = 0 /\ DOMAIN <<>> = {} /\ Len(Declared) \in Nat
    BY DEF ServerAssumption
  <2> QED
    BY <2>1, <2>2 DEF LoadedStand, ServerAssumption
<1>4. StopsStand
  <2>1. stopped = [p \in DeclaredPlugins |-> Untouched]
    BY Zenon DEF ServerInit, Untouched
  <2>2. \A n \in Signals : flow[n].at = "none"
    BY <1>1 DEF NoFlow
  <2> QED
    BY <1>2, <2>1, <2>2 DEF StopsStand
<1> QED
  BY <1>2, <1>3, <1>4 DEF ServerInv, KillStands, NoServerLeft, ServerInit

\* A step that leaves the plugins and the shutdowns alone.
LEMMA CalmKeeps ==
  ASSUME ServerInv, UNCHANGED <<entry, loaded, flow, stopped, signals>>,
         InFlight => stage' \in {"serving", "ended"},
         kill' = "sent" => stage' \in {"giveUp", "ended"} \/ InFlight,
         kill' = "sent" /\ InFlight => kill = "sent",
         stage' \in {"config", "load", "setup", "preStart"} => server' = "none",
         NoServerLeft'
  PROVE  ServerInv'
<1>1. InFlight' <=> InFlight
  BY DEF InFlight
<1>2. LoadedStand'
  BY DEF ServerInv, LoadedStand
<1>3. FlowTyped'
  BY <1>1 DEF ServerInv, FlowTyped
<1>4. StopsStand'
  <2>1. Hooked' = Hooked
    BY DEF Hooked, Having, HasHook
  <2>2. ASSUME NEW n \in Signals, FlowStands(flow[n]) PROVE FlowStands(flow[n])'
    BY <2>1, <2>2 DEF FlowStands, PlaceStands
  <2> QED
    BY <1>1, <2>2 DEF ServerInv, StopsStand
<1>5. KillStands'
  BY <1>1 DEF ServerInv, KillStands
<1> QED
  BY <1>2, <1>3, <1>4, <1>5 DEF ServerInv

\* No shutdown is under way before the command serves.
LEMMA NotYet ==
  ASSUME ServerInv, stage \notin {"serving", "ended"}
  PROVE  ~InFlight /\ (kill = "sent" => stage = "giveUp")
BY DEF ServerInv, FlowTyped, KillStands

LEMMA ConfigureKeeps == ASSUME ServerInv, Configure PROVE ServerInv'
<1>1. ~InFlight /\ kill # "sent" /\ server = "none"
  BY NotYet DEF Configure, ServerInv, KillStands
<1>2. UNCHANGED <<entry, loaded, flow, stopped, signals, server, kill>> /\ stage' \in {"ended", "load"}
  BY DEF Configure, childVars, stopVars, Exits
<1> QED
  BY <1>1, <1>2, CalmKeeps DEF NoServerLeft, ChildAlive

LEMMA LoadKeeps == ASSUME ServerAssumption, ServerInv, LoadPlugin PROVE ServerInv'
<1> DEFINE e == entry[NextDeclared]
           twin == \E i \in DOMAIN loaded : entry[loaded[i]].name = e.name
<1>1. ~InFlight /\ kill # "sent" /\ server = "none" /\ stage = "load" /\ Len(loaded) < Len(Declared)
  BY NotYet DEF LoadPlugin, ServerInv, KillStands
<1>2. UNCHANGED <<entry, flow, stopped, signals, server, kill>>
  BY DEF LoadPlugin, childVars, stopVars
<1>3. NextDeclared \in DeclaredPlugins
  BY <1>1 DEF NextDeclared, DeclaredPlugins, ServerAssumption, ServerInv, LoadedStand
<1>4. e.is \in Verdicts
  BY <1>3 DEF ServerInv, LoadedStand
<1>5. CASE stage' = "ended" /\ UNCHANGED loaded
  BY <1>1, <1>2, <1>5, CalmKeeps DEF NoServerLeft, ChildAlive
<1>6. CASE loaded' = Append(loaded, NextDeclared) /\ stage' = stage /\ ~twin
  <2>1. ~InFlight'
    BY <1>1, <1>2 DEF InFlight
  <2>2. LoadedStand'
    <3>1. /\ Len(loaded') = Len(loaded) + 1 /\ Len(loaded) \in Nat /\ loaded' \in Seq(DeclaredPlugins)
          /\ loaded'[Len(loaded) + 1] = NextDeclared
          /\ \A i \in 1..Len(loaded) : loaded'[i] = loaded[i]
          /\ DOMAIN loaded = 1..Len(loaded) /\ DOMAIN loaded' = 1..Len(loaded) + 1
      BY <1>3, <1>6 DEF ServerInv, LoadedStand
    <3>2. Len(loaded') <= Len(Declared)
      BY <1>1, <3>1 DEF ServerAssumption
    <3>3. ASSUME NEW i \in DOMAIN loaded', NEW j \in DOMAIN loaded', i # j
          PROVE  entry[loaded'[i]].name # entry[loaded'[j]].name
      <4>1. \A k \in 1..Len(loaded) : entry[loaded'[k]].name # entry[loaded'[Len(loaded) + 1]].name
        BY <1>6, <3>1
      <4>2. i \in 1..Len(loaded) /\ j \in 1..Len(loaded) => entry[loaded'[i]].name # entry[loaded'[j]].name
        BY <3>1, <3>3 DEF ServerInv, LoadedStand
      <4> QED
        BY <3>1, <3>3, <4>1, <4>2
    <3> QED
      BY <1>2, <3>1, <3>2, <3>3 DEF ServerInv, LoadedStand
  <2>3. FlowTyped' /\ StopsStand' /\ KillStands' /\ NoServerLeft'
    <3>1. FlowTyped'
      BY <1>1, <1>2, <2>1 DEF ServerInv, FlowTyped
    <3>2. StopsStand'
      BY <1>1, <1>2, <2>1 DEF ServerInv, StopsStand, InFlight, Signals
    <3>3. KillStands' /\ NoServerLeft'
      BY <1>1, <1>2, <1>6, <2>1 DEF ServerInv, KillStands, NoServerLeft
    <3> QED
      BY <3>1, <3>2, <3>3
  <2> QED
    BY <2>2, <2>3 DEF ServerInv
<1> QED
  BY <1>4, <1>5, <1>6 DEF LoadPlugin, Exits, Verdicts

\* The steps between loading and serving, and the child's own.
LEMMA HooksKeep ==
  ASSUME ServerInv, PluginsLoaded \/ Calls \/ Answers \/ SetupDone \/ StartServer \/ ServerReady
  PROVE  ServerInv'
<1>1. CASE PluginsLoaded
  <2>1. ~InFlight /\ kill # "sent" /\ server = "none"
    BY <1>1, NotYet DEF PluginsLoaded, ServerInv, KillStands
  <2>2. UNCHANGED <<entry, loaded, flow, stopped, signals, server, kill>> /\ stage' \in {"setup", "preStart"}
    BY <1>1 DEF PluginsLoaded, childVars, stopVars, Fire
  <2> QED
    BY <2>1, <2>2, CalmKeeps DEF NoServerLeft
<1>2. CASE Calls \/ Answers
  <2>1. UNCHANGED <<entry, loaded, flow, stopped, signals, server, kill, stage, early>>
    BY <1>2 DEF Calls, Answers, childVars, stopVars
  <2> QED
    BY <2>1, CalmKeeps DEF ServerInv, KillStands, FlowTyped, NoServerLeft, ChildAlive
<1>3. CASE SetupDone
  <2>1. ~InFlight /\ kill # "sent" /\ server = "none"
    BY <1>3, NotYet DEF SetupDone, Fired, ServerInv, KillStands
  <2>2. UNCHANGED <<entry, loaded, flow, stopped, signals, server, kill>> /\ stage' = "ended"
    BY <1>3 DEF SetupDone, childVars, stopVars, Exits
  <2> QED
    BY <2>1, <2>2, CalmKeeps DEF NoServerLeft, ChildAlive
<1>4. CASE StartServer
  <2>1. ~InFlight /\ kill # "sent" /\ server = "none"
    BY <1>4, NotYet DEF StartServer, Fired, ServerInv, KillStands
  <2>2. /\ UNCHANGED <<entry, loaded, flow, stopped, signals, kill>>
        /\ stage' = "probe" \/ (stage' = "ended" /\ server' = server)
    BY <1>4 DEF StartServer, stopVars, Exits
  <2> QED
    BY <2>1, <2>2, CalmKeeps DEF NoServerLeft, ChildAlive
<1>5. CASE ServerReady
  <2>1. UNCHANGED <<entry, loaded, flow, stopped, signals, kill, stage, early>> /\ server = "up"
    BY <1>5 DEF ServerReady, stopVars
  <2> QED
    BY <2>1, CalmKeeps DEF ServerInv, KillStands, FlowTyped, NoServerLeft, ChildAlive
<1> QED
  BY <1>1, <1>2, <1>3, <1>4, <1>5

LEMMA ChildKeeps ==
  ASSUME ServerInv, ServerEnds \/ Ready \/ EndedEarly \/ ProbeFails \/ GivenUp \/ Serves \/ ServerEnded
  PROVE  ServerInv'
<1>1. CASE ServerEnds
  <2>1. UNCHANGED <<entry, loaded, flow, stopped, signals, kill, stage, early>> /\ ChildAlive /\ server' = "ended"
    BY <1>1 DEF ServerEnds, stopVars
  <2> QED
    BY <2>1, CalmKeeps DEF ServerInv, KillStands, FlowTyped, NoServerLeft, ChildAlive
<1>2. CASE Ready \/ Serves
  <2>1. ~InFlight /\ kill # "sent"
    BY <1>2, NotYet DEF Ready, Serves, Fired
  <2>2. UNCHANGED <<entry, loaded, flow, stopped, signals, kill>> /\ stage' \in {"postReady", "serving"}
    BY <1>2 DEF Ready, Serves, childVars, stopVars, Fire
  <2> QED
    BY <2>1, <2>2, CalmKeeps DEF NoServerLeft
<1>3. CASE EndedEarly \/ GivenUp \/ ServerEnded
  <2>1. UNCHANGED <<entry, loaded, flow, stopped, signals, kill, server>> /\ stage' = "ended" /\ server = "ended"
    BY <1>3 DEF EndedEarly, GivenUp, ServerEnded, childVars, stopVars, Exits
  <2> QED
    BY <2>1, CalmKeeps DEF NoServerLeft, ChildAlive
<1>4. CASE ProbeFails
  <2>1. ~InFlight
    BY <1>4, NotYet DEF ProbeFails
  <2>2. UNCHANGED <<entry, loaded, flow, stopped, signals>> /\ stage' = "giveUp"
    BY <1>4 DEF ProbeFails, stopVars
  <2> QED
    BY <2>1, <2>2, CalmKeeps DEF NoServerLeft
<1> QED
  BY <1>1, <1>2, <1>3, <1>4

LEMMA SignalKeeps == ASSUME ServerAssumption, ServerInv, NEW group, Signal(group) PROVE ServerInv'
<1>1. /\ UNCHANGED <<entry, loaded, stopped, kill>> /\ Running
      /\ signals < MaxSignals /\ signals' = signals + 1
      /\ server' = server \/ (ChildAlive /\ server' = "interrupted")
  BY DEF Signal
<1>2. signals \in Nat /\ signals' \in Signals
  BY <1>1 DEF ServerInv, KillStands, Signals, ServerAssumption
<1>3. stage' \in {"config", "load", "setup", "preStart"} => server' = "none"
  BY <1>1 DEF Signal, ServerInv, KillStands, ChildAlive, Exits
<1>4. CASE stage # "serving"
  <2>1. stage' = "ended" /\ early' = TRUE /\ flow' = flow
    BY <1>4 DEF Signal, Exits
  <2>2. ~InFlight
    BY <1>1, <1>4, NotYet DEF Running
  <2>3. ~InFlight' /\ Hooked' = Hooked
    BY <1>1, <2>1, <2>2 DEF InFlight, Hooked, Having, HasHook
  <2>4. LoadedStand' /\ FlowTyped' /\ StopsStand' /\ KillStands' /\ NoServerLeft'
    <3>1. LoadedStand'
      BY <1>1 DEF ServerInv, LoadedStand
    <3>2. FlowTyped'
      BY <2>1, <2>3 DEF ServerInv, FlowTyped
    <3>3. StopsStand'
      BY <1>1, <2>1, <2>2, <2>3 DEF ServerInv, StopsStand, InFlight, Signals
    <3>4. KillStands' /\ NoServerLeft'
      BY <1>1, <1>2, <1>3, <2>1, <2>3 DEF KillStands, NoServerLeft
    <3> QED
      BY <3>1, <3>2, <3>3, <3>4
  <2> QED
    BY <2>4 DEF ServerInv
<1>5. CASE stage = "serving" /\ InFlight
  <2>1. stage' = stage /\ flow' = flow
    BY <1>5 DEF Signal
  <2>2. InFlight' /\ Hooked' = Hooked
    BY <1>1, <1>5, <2>1 DEF InFlight, Hooked, Having, HasHook
  <2>3. LoadedStand'
    BY <1>1 DEF ServerInv, LoadedStand
  <2>4. FlowTyped'
    BY <1>5, <2>1, <2>2 DEF ServerInv, FlowTyped
  <2>5. StopsStand'
    <3>1. ASSUME NEW n \in Signals, FlowStands(flow[n]) PROVE FlowStands(flow[n])'
      BY <1>1, <2>1, <2>2, <3>1 DEF FlowStands, PlaceStands
    <3> QED
      BY <1>1, <2>1, <2>2, <3>1 DEF ServerInv, StopsStand
  <2>6. KillStands' /\ NoServerLeft'
    BY <1>1, <1>2, <1>3, <1>5, <2>1, <2>2 DEF ServerInv, KillStands, NoServerLeft
  <2> QED
    BY <2>3, <2>4, <2>5, <2>6 DEF ServerInv
<1>6. CASE stage = "serving" /\ ~InFlight
  <2> SUFFICES ASSUME NEW n, n = signals', NEW f, f = [at |-> "preStop", rest |-> Hooked, calling |-> FALSE]
               PROVE  ServerInv'
    OBVIOUS
  <2>1. stage' = stage /\ flow' = [flow EXCEPT ![n] = f]
    BY <1>6 DEF Signal, Hooked
  <2>2. f.at = "preStop" /\ f.rest = Hooked /\ f.calling = FALSE
        /\ f = [at |-> f.at, rest |-> f.rest, calling |-> f.calling]
    OBVIOUS
  <2>3. \A m \in Signals : flow[m].at = "none"
    BY <1>6 DEF InFlight, Signals
  <2>4. /\ flow' = [m \in Signals |-> flow'[m]] /\ flow'[n] = f
        /\ \A m \in Signals \ {n} : flow'[m] = flow[m]
    BY <1>2, <2>1 DEF ServerInv, FlowTyped
  <2>5. InFlight' /\ Hooked' = Hooked /\ kill # "sent"
    <3>1. kill # "sent"
      BY <1>6 DEF ServerInv, KillStands
    <3>2. InFlight'
      BY <1>2, <2>2, <2>4 DEF InFlight, Signals
    <3> QED
      BY <1>1, <3>1, <3>2 DEF Hooked, Having, HasHook
  <2>6. LoadedStand'
    BY <1>1 DEF ServerInv, LoadedStand
  <2>7. FlowTyped'
    <3>1. \A m \in Signals : /\ flow'[m] = [at |-> flow'[m].at, rest |-> flow'[m].rest, calling |-> flow'[m].calling]
                             /\ flow'[m].at \in {"none", "preStop", "stop"} /\ flow'[m].calling \in BOOLEAN
      BY <2>2, <2>4 DEF ServerInv, FlowTyped
    <3>2. \A m, k \in Signals : flow'[m].at # "none" /\ flow'[k].at # "none" => m = k
      BY <2>3, <2>4
    <3> QED
      BY <1>6, <2>1, <2>4, <3>1, <3>2 DEF FlowTyped
  <2>8. StopsStand'
    <3>1. \A p \in DeclaredPlugins : stopped[p] = Untouched
      BY <1>6 DEF ServerInv, StopsStand
    <3>2. \A i \in Hooked : loaded[i] \in DeclaredPlugins
      BY DEF ServerInv, LoadedStand, Hooked, Having
    <3>3. \A i \in Hooked : stopped'[loaded'[i]] = Untouched
      BY <1>1, <3>1, <3>2
    <3>4. FlowStands(f)'
      BY <1>1, <2>2, <2>5, <3>1, <3>3 DEF FlowStands, PlaceStands
    <3>5. \A m \in Signals : flow'[m].at # "none" => m = n
      BY <2>3, <2>4
    <3>6. FlowStands(flow[n])'
      BY <2>4, <3>4
    <3> QED
      BY <1>1, <2>5, <3>5, <3>6 DEF ServerInv, StopsStand
  <2>9. KillStands' /\ NoServerLeft'
    BY <1>1, <1>2, <1>3, <1>6, <2>1, <2>5 DEF KillStands, NoServerLeft
  <2> QED
    BY <2>6, <2>7, <2>8, <2>9 DEF ServerInv
<1> QED
  BY <1>4, <1>5, <1>6

\* A step of one shutdown: its own record changes, and the plugin it calls.
LEMMA StopHookKeeps == ASSUME ServerInv, NEW n \in Signals, StopHook(n) PROVE ServerInv'
<1> SUFFICES ASSUME NEW f, f = flow[n], NEW g, g = flow'[n], NEW i, i = Foremost(flow[n].rest)
             PROVE  ServerInv'
  OBVIOUS
<1>1. /\ UNCHANGED <<entry, loaded, kill, server, stage, signals, early>>
      /\ Running /\ f.at = "preStop" /\ f.rest # {}
  BY DEF StopHook, childVars
<1>2. FlowStands(f) /\ f = [at |-> f.at, rest |-> f.rest, calling |-> f.calling] /\ f.calling \in BOOLEAN
  BY <1>1 DEF ServerInv, StopsStand, FlowTyped
<1>3. /\ i \in f.rest /\ i \in Hooked /\ f.rest \subseteq Hooked /\ loaded[i] \in DeclaredPlugins
      /\ Hooked \subseteq Nat
  <2>1. f.rest \subseteq Hooked /\ Hooked \subseteq DOMAIN loaded /\ DOMAIN loaded = 1..Len(loaded)
    BY <1>2 DEF FlowStands, Hooked, Having, ServerInv, LoadedStand
  <2>2. f.rest \in SUBSET Nat
    BY <2>1
  <2>3. i \in f.rest
    BY <1>1, <2>2, ForemostIs
  <2>4. \A k \in DOMAIN loaded : loaded[k] \in DeclaredPlugins
    BY DEF ServerInv, LoadedStand
  <2> QED
    BY <2>1, <2>2, <2>3, <2>4
<1>4. /\ flow' = [flow EXCEPT ![n] = g]
      /\ \/ /\ f.calling /\ g = [f EXCEPT !.rest = f.rest \ {i}, !.calling = FALSE]
            /\ stopped' = [stopped EXCEPT ![loaded[i]] = [stopped[loaded[i]] EXCEPT !.done = @ + 1]]
         \/ /\ ~f.calling /\ g = [f EXCEPT !.calling = TRUE]
            /\ stopped' = [stopped EXCEPT ![loaded[i]] = [stopped[loaded[i]] EXCEPT !.begun = @ + 1]]
  <2>1. DOMAIN flow = Signals
    BY DEF ServerInv, FlowTyped
  <2>2. CASE f.calling
    <3>1. /\ flow' = [flow EXCEPT ![n] = [f EXCEPT !.rest = f.rest \ {i}, !.calling = FALSE]]
          /\ stopped' = [stopped EXCEPT ![loaded[i]] = [stopped[loaded[i]] EXCEPT !.done = @ + 1]]
      BY <1>2, <2>1, <2>2 DEF StopHook
    <3>2. g = [f EXCEPT !.rest = f.rest \ {i}, !.calling = FALSE]
      BY <2>1, <3>1
    <3> QED
      BY <2>2, <3>1, <3>2
  <2>3. CASE ~f.calling
    <3>1. /\ flow' = [flow EXCEPT ![n] = [f EXCEPT !.calling = TRUE]]
          /\ stopped' = [stopped EXCEPT ![loaded[i]] = [stopped[loaded[i]] EXCEPT !.begun = @ + 1]]
      BY <1>2, <2>1, <2>3 DEF StopHook
    <3>2. g = [f EXCEPT !.calling = TRUE]
      BY <2>1, <3>1
    <3> QED
      BY <2>3, <3>1, <3>2
  <2> QED
    BY <1>2, <2>2, <2>3
<1>5. /\ g.at = "preStop" /\ g = [at |-> g.at, rest |-> g.rest, calling |-> g.calling]
      /\ f.calling => g.rest = f.rest \ {i} /\ g.calling = FALSE
      /\ ~f.calling => g.rest = f.rest /\ g.calling = TRUE
  <2>1. CASE f.calling
    BY <1>1, <1>2, <1>4, <2>1
  <2>2. CASE ~f.calling
    BY <1>1, <1>2, <1>4, <2>2
  <2> QED
    BY <2>1, <2>2
<1>6. /\ flow' = [m \in Signals |-> flow'[m]]
      /\ \A m \in Signals \ {n} : flow'[m] = flow[m] /\ flow[m].at = "none"
      /\ InFlight /\ InFlight' /\ Hooked' = Hooked
  <2>1. flow' = [m \in Signals |-> flow'[m]] /\ \A m \in Signals \ {n} : flow'[m] = flow[m]
    BY <1>4 DEF ServerInv, FlowTyped
  <2>2. \A m \in Signals \ {n} : flow[m].at = "none"
    BY <1>1 DEF ServerInv, FlowTyped
  <2>3. InFlight /\ InFlight'
    BY <1>1, <1>5 DEF InFlight, Signals
  <2> QED
    BY <1>1, <2>1, <2>2, <2>3 DEF Hooked, Having, HasHook
<1>7. LoadedStand'
  BY <1>1 DEF ServerInv, LoadedStand
<1>8. FlowTyped'
  <2>1. ASSUME NEW m \in Signals
        PROVE  /\ flow'[m] = [at |-> flow'[m].at, rest |-> flow'[m].rest, calling |-> flow'[m].calling]
               /\ flow'[m].at \in {"none", "preStop", "stop"} /\ flow'[m].calling \in BOOLEAN
               /\ flow'[m].at # "none" => m = n
    <3>1. CASE m = n
      BY <1>2, <1>5, <3>1
    <3>2. CASE m # n
      BY <1>6, <3>2 DEF ServerInv, FlowTyped
    <3> QED
      BY <3>1, <3>2
  <2> QED
    BY <1>1, <1>6, <2>1 DEF ServerInv, FlowTyped
<1>9. StopsStand'
  <2>1. stopped[loaded[i]] = IF f.calling THEN Begun ELSE Untouched
    BY <1>2, <1>3 DEF FlowStands, PlaceStands
  <2>2. /\ stopped' = [p \in DeclaredPlugins |-> stopped'[p]]
        /\ stopped'[loaded[i]] = IF f.calling THEN Concluded ELSE Begun
        /\ \A p \in DeclaredPlugins \ {loaded[i]} : stopped'[p] = stopped[p]
    <3>1. stopped = [p \in DeclaredPlugins |-> stopped[p]]
      BY DEF ServerInv, StopsStand
    <3>2. [Begun EXCEPT !.done = @ + 1] = Concluded /\ [Untouched EXCEPT !.begun = @ + 1] = Begun
      BY DEF Begun, Concluded, Untouched
    <3>3. CASE f.calling
      <4>1. stopped' = [stopped EXCEPT ![loaded[i]] = Concluded]
        BY <1>4, <2>1, <3>2, <3>3
      <4> QED
        BY <1>3, <3>1, <3>3, <4>1
    <3>4. CASE ~f.calling
      <4>1. stopped' = [stopped EXCEPT ![loaded[i]] = Begun]
        BY <1>4, <2>1, <3>2, <3>4
      <4> QED
        BY <1>3, <3>1, <3>4, <4>1
    <3> QED
      BY <3>3, <3>4
  <2>3. \A k \in Hooked \ {i} : loaded[k] # loaded[i] /\ loaded[k] \in DeclaredPlugins
    BY <1>3 DEF ServerInv, LoadedStand, Hooked, Having
  <2>4. FlowStands(g)'
    <3>1. g.rest \subseteq Hooked /\ (g.rest = {} => ~g.calling) /\ g.at # "stop"
      BY <1>1, <1>3, <1>5, <1>2
    <3>2. ASSUME NEW k \in Hooked
          PROVE  stopped'[loaded[k]] = IF k \notin g.rest THEN Concluded
                                       ELSE IF g.calling /\ k = Foremost(g.rest) THEN Begun ELSE Untouched
      <4>1. CASE k = i
        BY <1>2, <1>3, <1>5, <2>2, <4>1
      <4>2. CASE k # i
        <5>1. stopped'[loaded[k]] = stopped[loaded[k]]
          BY <2>2, <2>3, <4>2
        <5>2. stopped[loaded[k]] = IF k \notin f.rest THEN Concluded ELSE Untouched
          BY <1>2, <4>2 DEF FlowStands, PlaceStands
        <5>3. k \in g.rest <=> k \in f.rest
          BY <1>2, <1>5, <4>2
        <5>4. g.calling => k # Foremost(g.rest)
          BY <1>2, <1>5, <4>2
        <5> QED
          BY <5>1, <5>2, <5>3, <5>4
      <4> QED
        BY <4>1, <4>2
    <3>3. ASSUME NEW p \in DeclaredPlugins, \A k \in Hooked : p # loaded[k] PROVE stopped'[p] = Untouched
      BY <1>2, <1>3, <2>2, <3>3 DEF FlowStands
    <3> QED
      BY <1>1, <1>6, <3>1, <3>2, <3>3 DEF FlowStands, PlaceStands
  <2>5. FlowStands(flow[n])'
    BY <2>4
  <2> QED
    BY <1>6, <2>2, <2>5 DEF StopsStand
<1>10. KillStands' /\ NoServerLeft'
  <2>1. kill # "sent"
    BY <1>1, <1>6 DEF ServerInv, KillStands
  <2> QED
    BY <1>1, <2>1 DEF ServerInv, KillStands, NoServerLeft, ChildAlive
<1> QED
  BY <1>7, <1>8, <1>9, <1>10 DEF ServerInv

LEMMA StopServerKeeps == ASSUME ServerInv, NEW n \in Signals, StopServer(n) PROVE ServerInv'
<1> SUFFICES ASSUME NEW f, f = flow[n], NEW g, g = [flow[n] EXCEPT !.at = "stop"] PROVE ServerInv'
  OBVIOUS
<1>1. /\ UNCHANGED <<entry, loaded, stopped, stage, signals, early>>
      /\ Running /\ f.at = "preStop" /\ f.rest = {} /\ flow' = [flow EXCEPT ![n] = g]
  BY DEF StopServer, ServerInv, FlowTyped
<1>2. FlowStands(f) /\ f = [at |-> f.at, rest |-> f.rest, calling |-> f.calling] /\ f.calling \in BOOLEAN
  BY <1>1 DEF ServerInv, StopsStand, FlowTyped
<1>3. g.at = "stop" /\ g.rest = {} /\ g.calling = f.calling /\ g = [at |-> g.at, rest |-> g.rest, calling |-> g.calling]
  BY <1>1, <1>2
<1>4. /\ flow' = [m \in Signals |-> flow'[m]] /\ flow'[n] = g
      /\ \A m \in Signals \ {n} : flow'[m] = flow[m] /\ flow[m].at = "none"
  BY <1>1 DEF ServerInv, FlowTyped
<1>5. InFlight /\ InFlight' /\ Hooked' = Hooked
  BY <1>1, <1>3, <1>4 DEF InFlight, Signals, Hooked, Having, HasHook
<1>6. LoadedStand'
  BY <1>1 DEF ServerInv, LoadedStand
<1>7. FlowTyped'
  <2>1. ASSUME NEW m \in Signals
        PROVE  /\ flow'[m] = [at |-> flow'[m].at, rest |-> flow'[m].rest, calling |-> flow'[m].calling]
               /\ flow'[m].at \in {"none", "preStop", "stop"} /\ flow'[m].calling \in BOOLEAN
               /\ flow'[m].at # "none" => m = n
    <3>1. CASE m = n
      BY <1>2, <1>3, <1>4, <3>1
    <3>2. CASE m # n
      BY <1>4, <3>2 DEF ServerInv, FlowTyped
    <3> QED
      BY <3>1, <3>2
  <2> QED
    BY <1>1, <1>4, <1>5, <2>1 DEF ServerInv, FlowTyped
<1>8. StopsStand'
  <2>1. FlowStands(g)'
    BY <1>1, <1>2, <1>3, <1>5 DEF FlowStands, PlaceStands
  <2>2. FlowStands(flow[n])'
    BY <1>4, <2>1
  <2> QED
    BY <1>1, <1>4, <1>5, <2>2 DEF ServerInv, StopsStand
<1>9. KillStands' /\ NoServerLeft'
  <2>1. stage = "serving"
    BY <1>1, <1>5 DEF ServerInv, FlowTyped, Running
  <2>2. \E m \in Signals : flow'[m].at = "stop"
    BY <1>3, <1>4
  <2> QED
    BY <1>1, <1>5, <2>1, <2>2 DEF ServerInv, KillStands, NoServerLeft
<1> QED
  BY <1>6, <1>7, <1>8, <1>9 DEF ServerInv

LEMMA ServerKeeps == ServerAssumption /\ ServerInv /\ [ServerNext]_serverVars => ServerInv'
<1> SUFFICES ASSUME ServerAssumption, ServerInv, [ServerNext]_serverVars PROVE ServerInv'
  OBVIOUS
<1>1. CASE UNCHANGED serverVars
  <2>1. UNCHANGED <<entry, loaded, flow, stopped, signals, kill, stage, server, early>>
    BY <1>1 DEF serverVars
  <2> QED
    BY <2>1, CalmKeeps DEF ServerInv, KillStands, FlowTyped, NoServerLeft, ChildAlive
<1>2. CASE ServerSteps
  <2>1. ASSUME NEW n \in Signals, StopHook(n) \/ StopServer(n) PROVE ServerInv'
    BY <2>1, StopHookKeeps, StopServerKeeps
  <2> QED
    BY <1>2, <2>1, ConfigureKeeps, LoadKeeps, HooksKeep, ChildKeeps DEF ServerSteps, Signals
<1> QED
  BY <1>1, <1>2, ChildKeeps, SignalKeeps DEF ServerNext

LEMMA ServerFollows == ServerInv => ServerHolds
<1> SUFFICES ASSUME ServerInv PROVE ServerHolds
  OBVIOUS
<1>1. ASSUME NEW p \in DeclaredPlugins PROVE stopped[p].begun <= 1
  <2>1. stopped[p] \in {Untouched, Begun, Concluded}
    BY DEF ServerInv, StopsStand, FlowStands, PlaceStands, InFlight, Signals
  <2> QED
    BY <2>1 DEF Untouched, Begun, Concluded
<1>2. ASSUME kill = "sent", InFlight, NEW i \in Hooked PROVE stopped[loaded[i]].done = 1
  <2>1. PICK n \in Signals : flow[n].at = "stop"
    BY <1>2 DEF ServerInv, KillStands
  <2>2. stopped[loaded[i]] = Concluded
    BY <2>1 DEF ServerInv, StopsStand, FlowStands, PlaceStands
  <2> QED
    BY <2>2 DEF Concluded
<1>3. OneShutdown
  BY <1>1, <1>2 DEF OneShutdown, Hooked
<1> QED
  BY <1>3 DEF ServerHolds, ServerInv

\* The server's and the plugins' shutdown happens once, each plugin has
\* answered before the server is told to stop, and a command that ended leaves
\* no server: for any plugins, settings, overrides, signals and failures
\* (server-chain.mjs, bin/opendweb.mjs).
THEOREM ServerAlwaysHolds == ASSUME ServerAssumption PROVE ServerSpec => []ServerHolds
<1>1. ServerInit => ServerInv
  BY ServerStarts
<1>2. ServerInv /\ [ServerNext]_serverVars => ServerInv'
  BY ServerKeeps
<1> QED
  BY <1>1, <1>2, ServerFollows, PTL DEF ServerSpec

-----------------------------------------------------------------------------
(***************************************************************************)
(* The SDK's admin client: what a call has been answered goes with what    *)
(* the server has done; a receipt's bytes are read back field by field.    *)
(***************************************************************************)
CallSteps == {"idle", "sent", "body", "ended"}
Bodies == {"none", "json", "envelope", "other"}
Told == {"network", "timeout", "enabled", "admin-not-enabled", "unauthorized", "http-400", "http-401", "http-404",
         "http-500", "server", "result", "invalid-response", "thrown"}
CallCodes == Told \cup {"none", "invalid-request"}
Answers1 == Statuses \cup {0}
Calls1 == [step : CallSteps, probe : BOOLEAN, status : Answers1, body : Bodies, code : CallCodes,
           told : Answers1, did : BOOLEAN]
CallInv ==
  /\ call \in Calls1
  /\ call.did <=> call.status = 200 /\ ~call.probe
  /\ call.step = "body" => call.status # 0
  /\ OutcomeTells
AdminInv == CallInv /\ (given = NoReceipt \/ given \in Receipts)

\* How a call ends: the verdict and the status told follow from what came.
LEMMA TellKeeps ==
  ASSUME CallInv,
         NEW code \in Told, NEW status \in Answers1,
         Tell(code, status),
         code = "result" => call.did,
         status \in {400, 401, 404, 500} => ~call.did,
         code = "admin-not-enabled" => call.probe /\ call.status = 404,
         code = "enabled" <=> (call.probe /\ status = 200)
  PROVE  CallInv'
<1>1. call \in Calls1 /\ call' = [call EXCEPT !.step = "ended", !.code = code, !.told = status]
      /\ "ended" \in CallSteps /\ code \in CallCodes
  BY DEF CallInv, Tell, CallSteps, CallCodes
<1>2. call' \in Calls1 /\ call'.code = code /\ call'.told = status /\ call'.did = call.did
      /\ call'.probe = call.probe /\ call'.status = call.status /\ call'.step = "ended"
  BY <1>1 DEF Calls1
<1> QED
  BY <1>2 DEF CallInv, OutcomeTells

LEMMA NoCallIs == NoCall \in Calls1 /\ NoCall.probe = FALSE /\ NoCall.status = 0 /\ NoCall.told = 0 /\ NoCall.did = FALSE
BY DEF NoCall, Calls1, CallSteps, Bodies, CallCodes, Answers1

LEMMA CodesOfStatus ==
  ASSUME NEW s \in Statuses
  PROVE  HttpCode[s] \in {"http-400", "http-401", "http-404", "http-500"}
BY DEF Statuses, HttpCode

LEMMA CallStepKeeps ==
  ASSUME CallInv, AdminNext
  PROVE  CallInv'
<1>1. CASE requireHex64
  <2>1. call' = [NoCall EXCEPT !.step = "ended", !.code = "invalid-request"]
    BY <1>1 DEF requireHex64
  <2>2. call' \in Calls1 /\ call'.probe = NoCall.probe /\ call'.status = NoCall.status /\ call'.told = NoCall.told
        /\ call'.did = NoCall.did /\ call'.step = "ended" /\ call'.code = "invalid-request"
    BY <2>1, NoCallIs DEF Calls1, CallSteps, CallCodes
  <2> QED
    BY <2>2, NoCallIs DEF CallInv, OutcomeTells
<1>2. CASE Send
  <2>1. PICK p \in BOOLEAN : call' = [NoCall EXCEPT !.step = "sent", !.probe = p]
    BY <1>2 DEF Send
  <2>2. call' \in Calls1 /\ call'.status = NoCall.status /\ call'.did = NoCall.did /\ call'.step = "sent"
    BY <2>1, NoCallIs DEF Calls1, CallSteps
  <2> QED
    BY <2>2, NoCallIs DEF CallInv, OutcomeTells
<1>3. CASE ServerAnswers
  <2>1. PICK s \in Statuses, b \in {"json", "envelope", "other"} :
          call' = [call EXCEPT !.status = s, !.body = b, !.did = s = 200 /\ ~call.probe]
    <3>1. \E s \in Statuses, b \in {"json", "envelope", "other"} :
            /\ b = "envelope" => s # 200
            /\ call' = [call EXCEPT !.status = s, !.body = b, !.did = s = 200 /\ ~call.probe]
            /\ applied' = IF s = 200 /\ ~call.probe THEN applied + 1 ELSE applied
      BY <1>3 DEF ServerAnswers
    <3> QED
      BY <3>1, Zenon
  <2>2. call.step = "sent"
    BY <1>3 DEF ServerAnswers
  <2> DEFINE done == s = 200 /\ ~call.probe
  <2>3. done \in BOOLEAN /\ (done <=> s = 200 /\ ~call.probe)
    OBVIOUS
  <2>4. call' = [call EXCEPT !.status = s, !.body = b, !.did = done]
    BY <2>1
  <2> HIDE DEF done
  <2>5. call' \in Calls1
    BY <2>3, <2>4 DEF CallInv, Calls1, Bodies, Answers1
  <2>6. call'.status = s /\ call'.did = done /\ call'.probe = call.probe /\ call'.step = "sent"
    BY <2>2, <2>4 DEF CallInv, Calls1
  <2> QED
    BY <2>3, <2>5, <2>6 DEF CallInv, OutcomeTells
<1>4. CASE transportError
  <2>1. PICK code \in {"network", "timeout"} : Tell(code, 0)
    BY <1>4 DEF transportError
  <2> QED
    BY <2>1, TellKeeps DEF Told, Answers1
<1>5. CASE Answered
  BY <1>5 DEF Answered, CallInv, Calls1, CallSteps, OutcomeTells
<1>6. CASE Body \/ BodyFails
  <2>1. call.step = "body" /\ call.status \in Statuses /\ call.probe \in BOOLEAN
    BY <1>6 DEF Body, BodyFails, CallInv, Calls1, Answers1
  <2>2. CASE call.probe /\ call.status = 200
    BY <1>6, <2>1, <2>2, TellKeeps DEF Body, BodyFails, CallInv, Statuses, Told, Answers1
  <2>3. CASE call.probe /\ call.status # 200
    <3>1. Tell(probeEnabled, call.status)
      BY <1>6, <2>3 DEF Body, BodyFails
    <3>2. probeEnabled \in {"admin-not-enabled", "unauthorized", "http-400", "http-401", "http-404", "http-500"}
          /\ (probeEnabled = "admin-not-enabled" => call.status = 404)
      BY <2>1, CodesOfStatus DEF probeEnabled
    <3> HIDE DEF probeEnabled
    <3> QED
      BY <2>1, <2>3, <3>1, <3>2, TellKeeps DEF CallInv, Told, Answers1
  <2>4. CASE ~call.probe /\ call.status # 200
    <3>1. \E code \in {"server", "http-400", "http-401", "http-404", "http-500"} : Tell(code, call.status)
      BY <1>6, <2>1, <2>4, CodesOfStatus DEF Body, BodyFails, fromResponse
    <3> QED
      BY <2>1, <2>4, <3>1, TellKeeps DEF CallInv, Told, Answers1
  <2>5. CASE ~call.probe /\ call.status = 200
    <3>1. Tell("result", 200) \/ Tell("invalid-response", 200) \/ Tell("thrown", 0)
      BY <1>6, <2>5 DEF Body, BodyFails
    <3> QED
      BY <2>1, <2>5, <3>1, TellKeeps DEF CallInv, Statuses, Told, Answers1
  <2> QED
    BY <2>1, <2>2, <2>3, <2>4, <2>5
<1>7. CASE Receive
  BY <1>7 DEF Receive, CallInv, OutcomeTells
<1> QED
  BY <1>1, <1>2, <1>3, <1>4, <1>5, <1>6, <1>7 DEF AdminNext

\* The table of operations has each of them once.
LEMMA OpByteTells ==
  ASSUME NEW o \in Operations, NEW p \in Operations, OpByte(o) = OpByte(p)
  PROVE  o = p
<1> DEFINE names == <<"register", "unregister", "disconnect", "renew", "visitor-grant", "visitor-revoke",
           "code-issue", "code-revoke", "block-add", "block-remove", "knock-dismiss",
           "knock-undismiss", "owner-meta", "visitor-meta">>
<1>1. \A q \in Operations : \E i \in 1..14 : q = names[i]
  <2> SUFFICES ASSUME NEW q \in Operations PROVE \E i \in 1..14 : q = names[i]
    OBVIOUS
  <2>1. /\ names[1] = "register" /\ names[2] = "unregister" /\ names[3] = "disconnect" /\ names[4] = "renew"
        /\ names[5] = "visitor-grant" /\ names[6] = "visitor-revoke" /\ names[7] = "code-issue"
        /\ names[8] = "code-revoke" /\ names[9] = "block-add" /\ names[10] = "block-remove"
        /\ names[11] = "knock-dismiss" /\ names[12] = "knock-undismiss" /\ names[13] = "owner-meta"
        /\ names[14] = "visitor-meta"
    OBVIOUS
  <2> HIDE DEF names
  <2> QED
    BY <2>1 DEF Operations
<1>2. \A q \in Operations : OpByte(q) = CHOOSE i \in 1..14 : q = names[i]
  BY DEF OpByte
<1> HIDE DEF names
<1>3. o = names[OpByte(o)] /\ p = names[OpByte(p)]
  BY <1>1, <1>2
<1> QED
  BY <1>3

\* The field an operation is about is where the server writes its target.
LEMMA TargetIsNamed ==
  ASSUME NEW g, g.op \in Operations
  PROVE  /\ Wire(g)[TargetField(Wire(g).op)] = g.target /\ Wire(g).op = g.op
         /\ Wire(g).fabric_id = g.fabric_id /\ Wire(g).ts = g.ts /\ Wire(g).generation = g.generation
<1>1. TargetField(g.op) \in Fields /\ g.op \in About[TargetField(g.op)]
  BY DEF Operations, TargetField, Fields, About
<1>2. Wire(g).op = g.op /\ Wire(g).fabric_id = g.fabric_id /\ Wire(g).ts = g.ts /\ Wire(g).generation = g.generation
  BY DEF Wire, Fields
<1>3. \A fld \in Fields : g.op \in About[fld] => Wire(g)[fld] = g.target
  BY DEF Wire, Fields
<1> QED
  BY <1>1, <1>2, <1>3

LEMMA CanonicalIs ==
  ASSUME NEW g, g.op \in Operations
  PROVE  receiptCanonical(Wire(g)) =
           IF Malformed \in {g.fabric_id, g.target} THEN Throws
           ELSE <<"dweb/admin-receipt/v1", OpByte(g.op), g.fabric_id.id, g.target.id, g.ts, g.generation>>
<1> DEFINE w == Wire(g)
<1>1. w[TargetField(w.op)] = g.target /\ w.op = g.op /\ w.fabric_id = g.fabric_id /\ w.ts = g.ts
      /\ w.generation = g.generation
  BY TargetIsNamed
<1> HIDE DEF w
<1>2. receiptCanonical(w) =
           IF Malformed \in {g.fabric_id, g.target} THEN Throws
           ELSE <<"dweb/admin-receipt/v1", OpByte(g.op), g.fabric_id.id, g.target.id, g.ts, g.generation>>
  BY <1>1 DEF receiptCanonical
<1> QED
  BY <1>2 DEF w

LEMMA BytesBind ==
  ASSUME 0 \notin Ids, AdminInv
  PROVE  ReceiptBinds
<1> SUFFICES ASSUME given # NoReceipt,
                    NEW o \in Operations, NEW t \in Hex \cup {Malformed}, NEW s \in Stamps, NEW n \in Stamps,
                    receiptCanonical(Wire(given)) # Throws
             PROVE  LET bytes == receiptCanonical(Wire(given))
                        h == [given EXCEPT !.op = o, !.target = t, !.ts = s, !.generation = n]
                    IN  /\ bytes = receiptCanonical(Wire(h)) <=> Says(given) = Says(h)
                        /\ bytes # registerReceiptCanonical(Wire(h))
  BY DEF ReceiptBinds
<1> DEFINE op == given.op
           f == given.fabric_id
           q == given.target
           stamp == given.ts
<1>1. given \in Receipts /\ op \in Operations /\ f \in Hex /\ q \in Hex \cup {Malformed} /\ given.generation = 1
  BY DEF AdminInv, Receipts
<1> DEFINE h == [given EXCEPT !.op = o, !.target = t, !.ts = s, !.generation = n]
<1>2. given.op = op /\ given.fabric_id = f /\ given.target = q /\ given.ts = stamp /\ given.generation = 1
  BY <1>1
<1> HIDE DEF op, f, q, stamp
<1>3. h.op = o /\ h.fabric_id = f /\ h.target = t /\ h.ts = s /\ h.generation = n
  BY <1>1, <1>2 DEF Receipts
<1> HIDE DEF h
<1>4. receiptCanonical(Wire(given)) = <<"dweb/admin-receipt/v1", OpByte(op), f.id, q.id, stamp, 1>> /\ q # Malformed
      /\ f # Malformed
  <2>1. given.op \in Operations
    BY <1>1, <1>2
  <2>2. receiptCanonical(Wire(given)) =
           IF Malformed \in {f, q} THEN Throws
           ELSE <<"dweb/admin-receipt/v1", OpByte(op), f.id, q.id, stamp, 1>>
    BY <2>1, <1>2, CanonicalIs
  <2> QED
    BY <2>2
<1>5. receiptCanonical(Wire(h)) =
        IF t = Malformed THEN Throws ELSE <<"dweb/admin-receipt/v1", OpByte(o), f.id, t.id, s, n>>
  <2>1. h.op \in Operations
    BY <1>3
  <2>2. receiptCanonical(Wire(h)) =
           IF Malformed \in {f, t} THEN Throws
           ELSE <<"dweb/admin-receipt/v1", OpByte(o), f.id, t.id, s, n>>
    BY <2>1, <1>3, CanonicalIs
  <2> QED
    BY <2>2, <1>4
<1>6. Says(given) = <<op, f.id, q.id, stamp, 1>> /\ Says(h) = <<o, f.id, t.id, s, n>>
  BY <1>2, <1>3 DEF Says
<1>7. q.id # Malformed.id
  <2>1. q \in Hex
    BY <1>1, <1>4
  <2>2. q.id \in Ids
    BY <2>1 DEF Hex
  <2> QED
    BY <2>2 DEF Malformed
<1>8. receiptCanonical(Wire(given)) = receiptCanonical(Wire(h)) <=> Says(given) = Says(h)
  <2>1. CASE t = Malformed
    <3>1. Says(given) # Says(h)
      BY <1>6, <1>7, <2>1
    <3> QED
      BY <1>4, <1>5, <2>1, <3>1
  <2>2. CASE t # Malformed
    <3>1. OpByte(op) = OpByte(o) <=> op = o
      BY <1>1, OpByteTells
    <3> QED
      BY <1>4, <1>5, <1>6, <2>2, <3>1
  <2> QED
    BY <2>1, <2>2
<1>9. receiptCanonical(Wire(given)) # registerReceiptCanonical(Wire(h))
  BY <1>4 DEF registerReceiptCanonical, Throws
<1> QED
  BY <1>8, <1>9 DEF h

\* Two characters of a signature are read as one byte and four bits left over.
LEMMA TwoCharacters ==
  ASSUME NEW c \in 0..63, NEW d \in 0..63, NEW k, k = c * 64 + d
  PROVE  FromBase64(<<c, d>>) = IF k % 16 = 0 THEN [ok |-> TRUE, bytes |-> <<(k \div 16) % 256>>]
                                              ELSE [ok |-> FALSE, bytes |-> <<>>]
<1> DEFINE s == <<c, d>>
           Onward(g, i) ==
             LET acc == g[i - 1].acc * 64 + s[i]
                 bits == g[i - 1].bits + 6
             IN IF bits >= 8 THEN [acc |-> acc, bits |-> bits - 8,
                                   out |-> Append(g[i - 1].out, (acc \div Power[bits - 8]) % 256)]
                             ELSE [acc |-> acc, bits |-> bits, out |-> g[i - 1].out]
           Read1(g) == [i \in 0..Len(s) |-> IF i = 0 THEN [acc |-> 0, bits |-> 0, out |-> <<>>] ELSE Onward(g, i)]
           r0 == [acc |-> 0, bits |-> 0, out |-> <<>>]
           r1 == [acc |-> c, bits |-> 6, out |-> <<>>]
           r2 == [acc |-> k, bits |-> 4, out |-> <<(k \div 16) % 256>>]
           w == [i \in 0..2 |-> IF i = 0 THEN r0 ELSE IF i = 1 THEN r1 ELSE r2]
<1>1. Len(s) = 2 /\ s[1] = c /\ s[2] = d /\ Power[4] = 16
  BY DEF Power
<1>2. \A g : g[0] = r0 => Onward(g, 1) = r1
  BY <1>1
<1>3. \A g : g[1] = r1 => Onward(g, 2) = r2
  <2> SUFFICES ASSUME NEW g, g[1] = r1 PROVE Onward(g, 2) = r2
    OBVIOUS
  <2>1. g[2 - 1].acc * 64 + s[2] = k /\ g[2 - 1].bits + 6 = 12 /\ g[2 - 1].out = <<>>
    BY <1>1
  <2>2. Onward(g, 2) = IF 12 >= 8 THEN [acc |-> k, bits |-> 12 - 8,
                                       out |-> Append(<<>>, (k \div Power[12 - 8]) % 256)]
                                 ELSE [acc |-> k, bits |-> 12, out |-> <<>>]
    BY <2>1
  <2>3. 12 - 8 = 4 /\ 12 >= 8 /\ Append(<<>>, (k \div 16) % 256) = <<(k \div 16) % 256>>
    OBVIOUS
  <2>4. Power[12 - 8] = 16
    BY <1>1, <2>3
  <2> HIDE DEF Onward
  <2>5. Onward(g, 2) = [acc |-> k, bits |-> 4, out |-> <<(k \div 16) % 256>>]
    BY <2>2, <2>3, <2>4
  <2> QED
    BY <2>5
<1>4. w[0] = r0 /\ w[1] = r1 /\ w[2] = r2
  OBVIOUS
<1>5. 0..2 = {0, 1, 2}
  OBVIOUS
<1> DEFINE chosen == CHOOSE g : g = Read1(g)
<1>6. FromBase64(s) = IF Leftover(chosen[Len(s)].acc, chosen[Len(s)].bits)
                      THEN [ok |-> TRUE, bytes |-> chosen[Len(s)].out] ELSE [ok |-> FALSE, bytes |-> <<>>]
  BY DEF FromBase64
<1> HIDE DEF s, Onward, r0, r1, r2, w
<1>7. w = Read1(w)
  BY <1>1, <1>2, <1>3, <1>4, <1>5 DEF r0, w
<1>8. chosen = Read1(chosen)
  BY <1>7, Zenon
<1> HIDE DEF chosen
<1>9. chosen[0] = r0
  BY <1>1, <1>8 DEF r0
<1>10. chosen[1] = r1
  BY <1>1, <1>2, <1>8, <1>9
<1>11. chosen[2] = r2
  BY <1>1, <1>3, <1>8, <1>10
<1>12. FromBase64(s) = IF k % 16 = 0 THEN [ok |-> TRUE, bytes |-> <<(k \div 16) % 256>>]
                                     ELSE [ok |-> FALSE, bytes |-> <<>>]
  <2>1. r2.acc = k /\ r2.bits = 4 /\ r2.out = <<(k \div 16) % 256>>
    BY DEF r2
  <2>2. chosen[Len(s)] = r2
    BY <1>1, <1>11
  <2>3. FromBase64(s) = IF k % Power[4] = 0 THEN [ok |-> TRUE, bytes |-> <<(k \div 16) % 256>>]
                                           ELSE [ok |-> FALSE, bytes |-> <<>>]
    BY <1>6, <2>1, <2>2 DEF Leftover
  <2> QED
    BY <1>1, <2>3
<1> QED
  BY <1>12 DEF s

\* One character holds no byte.
LEMMA OneCharacter ==
  ASSUME NEW c \in 0..63
  PROVE  FromBase64(<<c>>).bytes = <<>>
<1> DEFINE s == <<c>>
           Onward(g, i) ==
             LET acc == g[i - 1].acc * 64 + s[i]
                 bits == g[i - 1].bits + 6
             IN IF bits >= 8 THEN [acc |-> acc, bits |-> bits - 8,
                                   out |-> Append(g[i - 1].out, (acc \div Power[bits - 8]) % 256)]
                             ELSE [acc |-> acc, bits |-> bits, out |-> g[i - 1].out]
           Read1(g) == [i \in 0..Len(s) |-> IF i = 0 THEN [acc |-> 0, bits |-> 0, out |-> <<>>] ELSE Onward(g, i)]
           r0 == [acc |-> 0, bits |-> 0, out |-> <<>>]
           r1 == [acc |-> c, bits |-> 6, out |-> <<>>]
           w == [i \in 0..1 |-> IF i = 0 THEN r0 ELSE r1]
<1>1. Len(s) = 1 /\ s[1] = c
  OBVIOUS
<1>2. \A g : g[0] = r0 => Onward(g, 1) = r1
  <2> SUFFICES ASSUME NEW g, g[0] = r0 PROVE Onward(g, 1) = r1
    OBVIOUS
  <2>1. g[1 - 1] = r0
    OBVIOUS
  <2>2. 0 * 64 + c = c /\ 0 + 6 = 6 /\ ~(6 >= 8)
    OBVIOUS
  <2> QED
    BY <1>1, <2>1, <2>2
<1>4. w[0] = r0 /\ w[1] = r1
  OBVIOUS
<1>5. 0..1 = {0, 1}
  OBVIOUS
<1> DEFINE chosen == CHOOSE g : g = Read1(g)
<1>6. FromBase64(s).bytes = chosen[Len(s)].out \/ FromBase64(s).bytes = <<>>
  BY DEF FromBase64
<1> HIDE DEF s, Onward, r0, r1, w
<1>7. w = Read1(w)
  BY <1>1, <1>2, <1>4, <1>5 DEF r0, w
<1>8. chosen = Read1(chosen)
  BY <1>7, Zenon
<1> HIDE DEF chosen
<1>9. chosen[0] = r0
  BY <1>1, <1>8 DEF r0
<1>10. chosen[1] = r1
  BY <1>1, <1>2, <1>8, <1>9
<1> QED
  BY <1>1, <1>6, <1>10 DEF r1, s

\* Characters that leave no bits over and give the same byte are the same.
LEMMA OneText ==
  ASSUME Characters \subseteq 0..63
  PROVE  OneSignatureText
<1>1. ASSUME NEW c \in Characters, NEW d \in Characters, verifies(given, <<c, d>>, <<"some">>)
      PROVE  c * 64 + d = 1232
  <2> DEFINE k == c * 64 + d
  <2>1. k \in 0..4095
    OBVIOUS
  <2>2. FromBase64(<<c, d>>) = IF k % 16 = 0 THEN [ok |-> TRUE, bytes |-> <<(k \div 16) % 256>>]
                                             ELSE [ok |-> FALSE, bytes |-> <<>>]
    BY TwoCharacters
  <2> HIDE DEF k
  <2>3. k % 16 = 0 /\ (k \div 16) % 256 = 77
    BY <1>1, <2>2 DEF verifies, Signature
  <2> QED
    BY <2>1, <2>3 DEF k
<1>2. ASSUME NEW c \in Characters, verifies(given, <<c>>, <<"some">>) PROVE FALSE
  <2>1. FromBase64(<<c>>).bytes = <<>>
    BY OneCharacter
  <2>2. FromBase64(<<c>>).bytes = <<77>>
    BY <1>2 DEF verifies, Signature
  <2> QED
    BY <2>1, <2>2
<1>3. ASSUME NEW c \in Characters, NEW d \in Characters, NEW e \in Characters, NEW f \in Characters,
             verifies(given, <<c, d>>, <<"some">>), verifies(given, <<e, f>>, <<"some">>)
      PROVE  <<c, d>> = <<e, f>>
  <2>1. c * 64 + d = e * 64 + f
    BY <1>1, <1>3
  <2>2. c \in 0..63 /\ d \in 0..63 /\ e \in 0..63 /\ f \in 0..63
    OBVIOUS
  <2>3. c = e /\ d = f
    BY <2>1, <2>2
  <2> QED
    BY <2>3
<1> QED
  BY <1>2, <1>3 DEF OneSignatureText

LEMMA AdminInductive == AdminSpec => []AdminInv
<1>1. AdminInit => AdminInv
  BY DEF AdminInit, AdminInv, CallInv, Calls1, CallSteps, Bodies, CallCodes, Answers1, NoCall, OutcomeTells
<1>2. AdminInv /\ [AdminNext]_adminVars => AdminInv'
  <2> SUFFICES ASSUME AdminInv, [AdminNext]_adminVars PROVE AdminInv'
    OBVIOUS
  <2>1. CASE AdminNext
    <3>1. given' = given \/ given' \in Receipts
      BY <2>1 DEF AdminNext, requireHex64, Send, ServerAnswers, transportError, Answered, Body, BodyFails, Receive
    <3> QED
      BY <2>1, <3>1, CallStepKeeps DEF AdminInv
  <2>2. CASE UNCHANGED adminVars
    BY <2>2 DEF adminVars, AdminInv, CallInv, OutcomeTells
  <2> QED
    BY <2>1, <2>2
<1> QED
  BY <1>1, <1>2, PTL DEF AdminSpec

\* What the caller of the admin client is told is what the server has done,
\* a receipt's bytes say what the receipt says, and a signature has one text:
\* for any identifiers (none of which is what malformed text is read as), times,
\* characters of six bits and calls (client-sdk/admin/index.mjs).
THEOREM AdminAlwaysHolds ==
  ASSUME 0 \notin Ids, Characters \subseteq 0..63 PROVE AdminSpec => []AdminHolds
<1>1. AdminInv => AdminHolds
  BY BytesBind, OneText DEF AdminHolds, AdminInv, CallInv
<1> QED
  BY <1>1, AdminInductive, PTL

-----------------------------------------------------------------------------
(***************************************************************************)
(* The console's page for any operations offered and any number of tasks.  *)
(* The flag of an exclusive operation is raised as long as it runs, so the *)
(* next one that asks for it is refused; credentials are numbered as they  *)
(* are typed, and the number in the form is not one that has been spent.   *)
(***************************************************************************)
TaskInv ==
  /\ DOMAIN task = Tasks
  /\ \A t \in Tasks : /\ DOMAIN task[t] = {"op", "step", "left", "arg"}
                      /\ task[t].op \in DOMAIN Rows \cup {"idle"}
                      /\ task[t].op = "idle" => task[t].left = {}
FlagInv == \A t \in Tasks : Exclusive(task[t].op) => Info(task[t].op).flag \in busy
CredInv ==
  /\ typed \in Nat /\ form \in 0..typed /\ spent \subseteq 1..typed
  /\ \A t \in Tasks : task[t].op \in DOMAIN CredentialOps => task[t].arg \in 1..typed
  /\ CredentialsGone
ConsoleInv == TaskInv /\ FlagInv /\ OneAtATime /\ CredInv

\* A task that goes on with the operation it is at.
GoesOn ==
  /\ DOMAIN task' = Tasks
  /\ \A t \in Tasks : /\ DOMAIN task'[t] = {"op", "step", "left", "arg"}
                      /\ task'[t].op = task[t].op /\ task'[t].arg = task[t].arg
                      /\ task'[t].op = "idle" => task'[t].left = {}
  /\ UNCHANGED busy

\* The operations of the families, which are no two the same; "idle" is none.
Apart == {"idle", "submitConnect", "submitAddNode"}
LEMMA FamiliesApart ==
  /\ DOMAIN CredentialOps = {"submitConnect", "submitAddNode"}
  /\ \A f \in Families : f = CredentialOps \/ DOMAIN f \cap Apart = {}
<1>1. DOMAIN CredentialOps = {"submitConnect", "submitAddNode"}
  BY DEF CredentialOps
<1>2. DOMAIN PortsOps \cap Apart = {}
  BY DEF PortsOps, Apart
<1>3. DOMAIN FilesOps \cap Apart = {}
  BY DEF FilesOps, Apart
<1>4. DOMAIN SyncOps \cap Apart = {}
  BY DEF SyncOps, Apart
<1>5. DOMAIN PluginOps \cap Apart = {}
  BY DEF PluginOps, Apart
<1>6. DOMAIN ProviderOps \cap Apart = {}
  BY DEF ProviderOps, Apart
<1>7. DOMAIN ConsumerOps \cap Apart = {}
  BY DEF ConsumerOps, Apart
<1>8. DOMAIN OwnerOps \cap Apart = {}
  BY DEF OwnerOps, Apart
<1>9. DOMAIN AliasOps \cap Apart = {}
  BY DEF AliasOps, Apart
<1>10. DOMAIN KnockOps \cap Apart = {}
  BY DEF KnockOps, Apart
<1>11. DOMAIN VisitorOps \cap Apart = {}
  BY DEF VisitorOps, Apart
<1>12. DOMAIN CodeOps \cap Apart = {}
  BY DEF CodeOps, Apart
<1>13. DOMAIN LocalOps \cap Apart = {}
  BY DEF LocalOps, Apart
<1>14. DOMAIN SwitchOps \cap Apart = {}
  BY DEF SwitchOps, Apart
<1>15. DOMAIN Polls \cap Apart = {}
  BY DEF Polls, Apart
<1>16. DOMAIN Pages \cap Apart = {}
  BY DEF Pages, Apart
<1>17. DOMAIN FlowOps \cap Apart = {}
  BY DEF FlowOps, Apart
<1> QED
  BY <1>1, <1>2, <1>3, <1>4, <1>5, <1>6, <1>7, <1>8, <1>9, <1>10, <1>11, <1>12, <1>13, <1>14, <1>15, <1>16,
     <1>17 DEF Families

LEMMA InRows ==
  ASSUME NEW f \in Families, NEW o \in DOMAIN f
  PROVE  o \in DOMAIN Rows
BY DEF Rows

LEMMA IdleIsNone == "idle" \notin DOMAIN Rows
<1>1. SUFFICES ASSUME NEW f \in Families, "idle" \in DOMAIN f PROVE FALSE
  BY DEF Rows
<1>2. f = CredentialOps
  BY <1>1, FamiliesApart DEF Apart
<1> QED
  BY <1>1, <1>2, FamiliesApart

\* What a page's buttons and forms start, but for the credentials' forms.
LEMMA PlainOps ==
  ASSUME NEW f \in Families, f # CredentialOps, NEW o \in DOMAIN f
  PROVE  o \in DOMAIN Rows /\ o \notin DOMAIN CredentialOps
BY InRows, FamiliesApart DEF Apart

LEMMA UserOpsPlain ==
  ASSUME NEW o \in UserOps
  PROVE  \E f \in Families : f # CredentialOps /\ o \in DOMAIN f
<1> DEFINE F == {OwnerOps, CodeOps, KnockOps, VisitorOps, ProviderOps, ConsumerOps, PortsOps, SyncOps, PluginOps,
                 LocalOps, SwitchOps, Pages, FilesOps}
<1>1. DOMAIN SyncOps = {"createSyncGroup", "deleteSyncGroup", "syncNow", "resolveSyncConflicts", "resolveSyncSeedBlock"}
  BY DEF SyncOps
<1>2. DOMAIN LocalOps = {"submitLeaseLabelEdit", "probeServerTarget", "confirmDeleteNode"}
  BY DEF LocalOps
<1>3. DOMAIN SwitchOps = {"confirmSwitchNode", "connectNodeFromSetup", "startLocalHub"}
  BY DEF SwitchOps
<1>4. GroupsPage \cup ConflictPage \subseteq DOMAIN SyncOps
  BY <1>1 DEF GroupsPage, ConflictPage
<1>5. LeaseView \cup VisitsView \subseteq DOMAIN LocalOps
  BY <1>2 DEF LeaseView, VisitsView
<1>6. NodeBook \cup SetupWizard \subseteq DOMAIN LocalOps \cup DOMAIN SwitchOps
  BY <1>2, <1>3 DEF NodeBook, SetupWizard
<1>7. PICK f \in F : o \in DOMAIN f
  <2> DEFINE V == {TenantsView, VisitorsView, ProviderPage, ConsumerPage, MappingsPage, GroupsPage, ConflictPage,
                   PluginPanel, LeaseView, VisitsView, NodeBook, SetupWizard, DOMAIN Pages}
  <2>1. UserOps = (UNION V) \cup DOMAIN FilesOps
    BY DEF UserOps
  <2>2. \A v \in V : v \subseteq UNION {DOMAIN f : f \in F}
    <3>1. TenantsView \subseteq UNION {DOMAIN f : f \in F} /\ VisitorsView \subseteq UNION {DOMAIN f : f \in F}
      BY DEF TenantsView, VisitorsView
    <3>2. /\ ProviderPage \subseteq UNION {DOMAIN f : f \in F} /\ ConsumerPage \subseteq UNION {DOMAIN f : f \in F}
          /\ MappingsPage \subseteq UNION {DOMAIN f : f \in F} /\ PluginPanel \subseteq UNION {DOMAIN f : f \in F}
      BY DEF ProviderPage, ConsumerPage, MappingsPage, PluginPanel
    <3>3. DOMAIN SyncOps \subseteq UNION {DOMAIN f : f \in F} /\ DOMAIN LocalOps \subseteq UNION {DOMAIN f : f \in F}
          /\ DOMAIN SwitchOps \subseteq UNION {DOMAIN f : f \in F} /\ DOMAIN Pages \subseteq UNION {DOMAIN f : f \in F}
      OBVIOUS
    <3> QED
      BY <1>4, <1>5, <1>6, <3>1, <3>2, <3>3
  <2>3. DOMAIN FilesOps \subseteq UNION {DOMAIN f : f \in F}
    OBVIOUS
  <2> DEFINE W == UNION {DOMAIN f : f \in F}
  <2> HIDE DEF F, V, W
  <2>4. o \in DOMAIN FilesOps \/ \E v \in V : o \in v
    BY <2>1
  <2>5. DOMAIN FilesOps \subseteq W /\ \A v \in V : v \subseteq W
    BY <2>2, <2>3 DEF W
  <2>6. o \in W
    BY <2>4, <2>5
  <2> QED
    BY <2>6 DEF W
<1>8. F \subseteq Families
  BY DEF Families
<1>9. \A g \in F : g # CredentialOps
  <2>1. \A g \in F : DOMAIN g # {"submitConnect", "submitAddNode"}
    <3> DEFINE C == {"submitConnect", "submitAddNode"}
    <3>1. DOMAIN OwnerOps # C /\ DOMAIN CodeOps # C /\ DOMAIN KnockOps # C
      BY DEF OwnerOps, CodeOps, KnockOps
    <3>2. DOMAIN VisitorOps # C /\ DOMAIN ProviderOps # C /\ DOMAIN ConsumerOps # C /\ DOMAIN PortsOps # C
      BY DEF VisitorOps, ProviderOps, ConsumerOps, PortsOps
    <3>3. DOMAIN SyncOps # C /\ DOMAIN PluginOps # C /\ DOMAIN LocalOps # C /\ DOMAIN SwitchOps # C
      BY DEF SyncOps, PluginOps, LocalOps, SwitchOps
    <3>4. DOMAIN Pages # C /\ DOMAIN FilesOps # C
      BY DEF Pages, FilesOps
    <3> QED
      BY <3>1, <3>2, <3>3, <3>4
  <2> QED
    BY <2>1, FamiliesApart
<1> QED
  BY <1>7, <1>8, <1>9

LEMMA ExclusiveWorks == \A o : Exclusive(o) => o # "idle"
BY IdleIsNone DEF Exclusive

LEMMA ExclusiveShare ==
  ASSUME NEW o, Exclusive(o), NEW p \in DOMAIN Rows, Info(p).flag = Info(o).flag
  PROVE  Exclusive(p) /\ Info(p).guarded /\ Info(p).flag # "free"
BY DEF Exclusive

LEMMA GoesOnKeeps ==
  ASSUME TaskInv, FlagInv, OneAtATime, GoesOn
  PROVE  TaskInv' /\ FlagInv' /\ OneAtATime'
BY DEF TaskInv, FlagInv, OneAtATime, GoesOn

LEMMA EndKeeps ==
  ASSUME TaskInv, FlagInv, OneAtATime, NEW t \in Tasks, task[t].op # "idle", Ends1(t)
  PROVE  /\ TaskInv' /\ FlagInv' /\ OneAtATime'
         /\ \A u \in Tasks : task'[u].op = "idle" \/ (task'[u].op = task[u].op /\ task'[u].arg = task[u].arg)
<1>1. task' = [task EXCEPT ![t] = Idle] /\ busy' = busy \ {Info(task[t].op).flag}
  BY DEF Ends1, Falls
<1>2. DOMAIN Idle = {"op", "step", "left", "arg"} /\ Idle.op = "idle" /\ Idle.left = {}
  BY DEF Idle
<1>3. task'[t] = Idle /\ \A u \in Tasks \ {t} : task'[u] = task[u]
  BY <1>1 DEF TaskInv
<1>5. TaskInv'
  BY <1>1, <1>2, <1>3 DEF TaskInv
<1>6. FlagInv'
  <2> SUFFICES ASSUME NEW u \in Tasks, Exclusive(task'[u].op) PROVE Info(task'[u].op).flag \in busy'
    BY DEF FlagInv
  <2>1. u # t
    BY <1>2, <1>3, IdleIsNone DEF Exclusive
  <2>2. task'[u] = task[u]
    BY <1>3, <2>1
  <2>3. Info(task[u].op).flag # Info(task[t].op).flag
    BY <2>1, <2>2, ExclusiveWorks DEF OneAtATime
  <2> QED
    BY <1>1, <2>2, <2>3 DEF FlagInv
<1>7. OneAtATime'
  <2> SUFFICES ASSUME NEW u \in Tasks, NEW v \in Tasks, u # v, Exclusive(task'[u].op), task'[v].op # "idle"
               PROVE  Info(task'[v].op).flag # Info(task'[u].op).flag
    BY DEF OneAtATime
  <2>1. u # t /\ v # t
    BY <1>2, <1>3, IdleIsNone DEF Exclusive
  <2> QED
    BY <1>3, <2>1, ExclusiveWorks DEF OneAtATime
<1> QED
  BY <1>2, <1>3, <1>5, <1>6, <1>7

LEMMA StartKeeps ==
  ASSUME TaskInv, FlagInv, OneAtATime, NEW t \in Tasks, NEW o \in DOMAIN Rows, NEW what, Start(t, o, what)
  PROVE  /\ TaskInv' /\ FlagInv' /\ OneAtATime'
         /\ task'[t].op = o /\ task'[t].arg = what /\ \A u \in Tasks \ {t} : task'[u] = task[u]
<1> DEFINE begun == [op |-> o, step |-> 0, left |-> {}, arg |-> what]
<1>1. DOMAIN begun = {"op", "step", "left", "arg"} /\ begun.op = o /\ begun.arg = what /\ begun.left = {}
  OBVIOUS
<1>2. task' = [task EXCEPT ![t] = begun] /\ busy' = busy \cup ({Info(o).flag} \ {"free"})
      /\ task[t] = Idle /\ ~(Info(o).guarded /\ Info(o).flag \in busy)
  BY DEF Start, Raise, Refused
<1> HIDE DEF begun
<1>3. task'[t] = begun /\ (\A u \in Tasks \ {t} : task'[u] = task[u]) /\ DOMAIN task' = Tasks
  BY <1>2 DEF TaskInv
<1>4. TaskInv'
  BY <1>1, <1>3 DEF TaskInv
<1>5. FlagInv'
  BY <1>1, <1>2, <1>3 DEF FlagInv, Exclusive
<1>6. \A u \in Tasks \ {t} : task[u].op # "idle" /\ (Exclusive(o) \/ Exclusive(task[u].op))
        => Info(task[u].op).flag # Info(o).flag
  <2> SUFFICES ASSUME NEW u \in Tasks \ {t}, task[u].op # "idle", Exclusive(o) \/ Exclusive(task[u].op),
                      Info(task[u].op).flag = Info(o).flag
               PROVE  FALSE
    OBVIOUS
  <2>1. task[u].op \in DOMAIN Rows
    BY DEF TaskInv
  <2>2. Exclusive(task[u].op) /\ Info(o).guarded
    BY <2>1, ExclusiveShare
  <2>3. Info(task[u].op).flag \in busy
    BY <2>2 DEF FlagInv
  <2> QED
    BY <1>2, <2>2, <2>3
<1>7. OneAtATime'
  <2> SUFFICES ASSUME NEW u \in Tasks, NEW v \in Tasks, u # v, Exclusive(task'[u].op), task'[v].op # "idle"
               PROVE  Info(task'[v].op).flag # Info(task'[u].op).flag
    BY DEF OneAtATime
  <2>1. CASE u # t /\ v # t
    BY <1>3, <2>1, ExclusiveWorks DEF OneAtATime
  <2>2. CASE u = t
    BY <1>1, <1>3, <1>6, <2>2
  <2>3. CASE v = t
    <3>1. task[u].op # "idle" /\ Exclusive(task[u].op)
      BY <1>3, <2>3, IdleIsNone DEF Exclusive
    <3> QED
      BY <1>1, <1>3, <1>6, <2>3, <3>1
  <2> QED
    BY <2>1, <2>2, <2>3
<1> QED
  BY <1>1, <1>3, <1>4, <1>5, <1>7

\* The three ways in which a task's record changes while it is at work.
LEMMA StepTo ==
  ASSUME TaskInv, NEW t \in Tasks, task[t].op # "idle", NEW n, NEW S, UNCHANGED busy,
         \/ task' = [task EXCEPT ![t].step = n, ![t].left = S]
         \/ task' = [task EXCEPT ![t].step = n]
         \/ task' = [task EXCEPT ![t].left = S]
  PROVE  GoesOn
<1> DEFINE r == task[t]
           a == [r EXCEPT !.step = n, !.left = S]
           b == [r EXCEPT !.step = n]
           c == [r EXCEPT !.left = S]
<1>1. DOMAIN r = {"op", "step", "left", "arg"}
  BY DEF TaskInv
<1>2. \A q \in {a, b, c} : DOMAIN q = {"op", "step", "left", "arg"} /\ q.op = r.op /\ q.arg = r.arg
  BY <1>1
<1>3. \E q \in {a, b, c} : task' = [task EXCEPT ![t] = q]
  OBVIOUS
<1> HIDE DEF r, a, b, c
<1>4. r = task[t]
  BY DEF r
<1>5. PICK q \in {a, b, c} : task' = [task EXCEPT ![t] = q]
  BY <1>3
<1>6. DOMAIN q = {"op", "step", "left", "arg"} /\ q.op = task[t].op /\ q.arg = task[t].arg
  BY <1>2, <1>4, <1>5
<1> QED
  BY <1>5, <1>6 DEF TaskInv, GoesOn

LEMMA NextKinds ==
  ASSUME TaskInv, NEW t \in Tasks, task[t].op # "idle", Next1(t)
  PROVE  GoesOn \/ Ends1(t)
BY StepTo DEF Next1

LEMMA SettledKinds ==
  ASSUME TaskInv, NEW t \in Tasks, task[t].op # "idle", NEW x, Settled(t, x)
  PROVE  GoesOn \/ Ends1(t)
BY StepTo, NextKinds DEF Settled

LEMMA Asking ==
  ASSUME TaskInv, NEW t \in Tasks, NEW x \in task[t].left
  PROVE  task[t].op # "idle"
BY DEF TaskInv

\* What each of the steps of a task at work is.
LEMMA StepKinds ==
  ASSUME TaskInv, NEW t \in Tasks,
         TaskSteps(t) \/ CallFails(t) \/ RefreshFails(t) \/ DispatchFails(t) \/ ObserveFails(t)
  PROVE  task[t].op # "idle" /\ (GoesOn \/ Ends1(t))
<1>1. CASE Call(t) \/ Switch(t)
  BY <1>1, NextKinds DEF Call, Switch, Called
<1>2. CASE Paired(t)
  BY <1>2, NextKinds DEF Paired, Called
<1>3. CASE Serve(t)
  <2>1. PICK x \in task[t].left : task' = [task EXCEPT ![t].left = (@ \ {x}) \cup {<<x[1], Now(x[1])>>}] /\ UNCHANGED busy
    BY <1>3 DEF Serve
  <2> DEFINE S == (task[t].left \ {x}) \cup {<<x[1], Now(x[1])>>}
  <2>2. task' = [task EXCEPT ![t].left = S]
    BY <2>1
  <2> HIDE DEF S
  <2> QED
    BY <2>1, <2>2, Asking, StepTo
<1>4. CASE Deliver(t) \/ RefreshFails(t)
  BY <1>4, Asking, SettledKinds DEF Deliver, RefreshFails
<1>5. CASE Dispatched(t)
  BY <1>5, StepTo DEF Dispatched, On, flowRest
<1>6. CASE Observe(t) \/ ObserveFails(t)
  <2>1. task[t].op # "idle" /\ (Ends1(t) \/ Unseen(t))
    BY <1>6 DEF Observe, ObserveFails, On
  <2>2. Unseen(t) => GoesOn \/ Ends1(t)
    <3> SUFFICES ASSUME task' = [task EXCEPT ![t].step = @ + 1], UNCHANGED busy PROVE GoesOn
      BY DEF Unseen
    <3> DEFINE n == task[t].step + 1
    <3>1. task' = [task EXCEPT ![t].step = n]
      OBVIOUS
    <3> HIDE DEF n
    <3> QED
      BY <2>1, <3>1, StepTo
  <2> QED
    BY <2>1, <2>2
<1>7. CASE Listed(t) \/ Land(t) \/ CallFails(t) \/ DispatchFails(t)
  BY <1>7 DEF Listed, Land, CallFails, DispatchFails, On, Called
<1>8. CASE settleInitialRoute(t)
  BY <1>8, StepTo DEF settleInitialRoute, On
<1> QED
  BY <1>1, <1>2, <1>3, <1>4, <1>5, <1>6, <1>7, <1>8 DEF TaskSteps

LEMMA ConsoleStarts == ConsoleInit => ConsoleInv
<1> SUFFICES ASSUME ConsoleInit PROVE ConsoleInv
  OBVIOUS
<1>1. \A t \in Tasks : task[t] = Idle
  BY DEF ConsoleInit
<1>2. DOMAIN Idle = {"op", "step", "left", "arg"} /\ Idle.op = "idle" /\ Idle.left = {}
  BY DEF Idle
<1>3. TaskInv
  BY <1>1, <1>2 DEF TaskInv, ConsoleInit
<1>4. FlagInv /\ OneAtATime
  BY <1>1, <1>2, IdleIsNone DEF FlagInv, OneAtATime, Exclusive
<1>5. CredInv
  BY <1>1, <1>2, InRows, IdleIsNone DEF CredInv, CredentialsGone, ConsoleInit, Families
<1> QED
  BY <1>3, <1>4, <1>5 DEF ConsoleInv

\* What a step that starts an operation keeps of the credentials.
LEMMA CredStarts ==
  ASSUME ConsoleInv, NEW t \in Tasks, NEW o \in DOMAIN Rows, NEW what, Start(t, o, what), UNCHANGED credVars,
         o \in DOMAIN CredentialOps => what \in 1..typed
  PROVE  ConsoleInv'
<1>1. TaskInv' /\ FlagInv' /\ OneAtATime' /\ task'[t].op = o /\ task'[t].arg = what
      /\ \A u \in Tasks \ {t} : task'[u] = task[u]
  BY StartKeeps DEF ConsoleInv
<1>2. CredInv'
  BY <1>1 DEF ConsoleInv, CredInv, CredentialsGone, credVars
<1> QED
  BY <1>1, <1>2 DEF ConsoleInv

\* And one of a task at work, which leaves or fulfils what it was started with.
LEMMA WorkKeeps ==
  ASSUME ConsoleInv, NEW t \in Tasks, task[t].op # "idle", GoesOn \/ Ends1(t)
  PROVE  /\ TaskInv' /\ FlagInv' /\ OneAtATime'
         /\ \A u \in Tasks : task'[u].op \in DOMAIN CredentialOps
              => task'[u].op = task[u].op /\ task'[u].arg = task[u].arg
<1>1. CASE GoesOn
  BY <1>1, GoesOnKeeps DEF ConsoleInv, GoesOn
<1>2. CASE Ends1(t)
  BY <1>2, EndKeeps, FamiliesApart DEF ConsoleInv
<1> QED
  BY <1>1, <1>2

LEMMA ConsoleKeeps == ConsoleInv /\ [ConsoleNext]_consoleVars => ConsoleInv'
<1> SUFFICES ASSUME ConsoleInv, [ConsoleNext]_consoleVars PROVE ConsoleInv'
  OBVIOUS
<1>1. ASSUME NEW t \in Tasks, TaskSteps(t) \/ CallFails(t) \/ RefreshFails(t) \/ DispatchFails(t) \/ ObserveFails(t)
      PROVE  ConsoleInv'
  <2>1. /\ TaskInv' /\ FlagInv' /\ OneAtATime'
        /\ \A u \in Tasks : task'[u].op \in DOMAIN CredentialOps
             => task'[u].op = task[u].op /\ task'[u].arg = task[u].arg
    BY <1>1, StepKinds, WorkKeeps DEF ConsoleInv
  <2>2. CASE Paired(t)
    <3>1. typed' = typed /\ form' = 0 /\ spent' = spent \cup {task[t].arg} /\ task[t].arg \in 1..typed
      BY <2>2 DEF Paired, Forgets, ConsoleInv, CredInv
    <3>2. typed \in Nat /\ spent \subseteq 1..typed
      BY DEF ConsoleInv, CredInv
    <3>3. typed' \in Nat /\ form' \in 0..typed' /\ spent' \subseteq 1..typed'
      <4>1. \A x \in spent' : x \in 1..typed
        BY <3>1, <3>2
      <4>2. 0 \in 0..typed
        BY <3>2
      <4> QED
        BY <3>1, <3>2, <4>1, <4>2
    <3>4. CredentialsGone'
      BY <3>1, <3>3 DEF CredentialsGone
    <3>5. \A u \in Tasks : task'[u].op \in DOMAIN CredentialOps => task'[u].arg \in 1..typed'
      BY <2>1, <3>1 DEF ConsoleInv, CredInv
    <3> QED
      BY <2>1, <3>3, <3>4, <3>5 DEF ConsoleInv, CredInv
  <2>3. CASE ~Paired(t)
    <3>1. UNCHANGED credVars
      BY <1>1, <2>3 DEF TaskSteps, Call, Switch, Serve, Deliver, Dispatched, Observe, Listed, settleInitialRoute, Land,
                        CallFails, RefreshFails, DispatchFails, ObserveFails, flowRest
    <3> QED
      BY <2>1, <3>1 DEF ConsoleInv, CredInv, CredentialsGone, credVars
  <2> QED
    BY <2>2, <2>3
<1>2. ASSUME NEW t \in Tasks, Use(t) PROVE ConsoleInv'
  <2>1. PICK o \in UserOps : Start(t, o, "none") /\ UNCHANGED credVars
    BY <1>2 DEF Use
  <2>2. o \in DOMAIN Rows /\ o \notin DOMAIN CredentialOps
    BY UserOpsPlain, PlainOps
  <2> QED
    BY <2>1, <2>2, CredStarts
<1>3. ASSUME NEW t \in Tasks, Poll(t) PROVE ConsoleInv'
  <2>1. PICK o \in DOMAIN Polls : Start(t, o, "none") /\ UNCHANGED credVars
    BY <1>3 DEF Poll
  <2>2. Polls \in Families /\ "tickStatus" \in DOMAIN Polls
    BY DEF Families, Polls
  <2>3. o \in DOMAIN Rows /\ o \notin DOMAIN CredentialOps
    BY <2>2, PlainOps, FamiliesApart
  <2> QED
    BY <2>1, <2>3, CredStarts
<1>4. ASSUME NEW t \in Tasks, Submit(t) PROVE ConsoleInv'
  <2>1. PICK o \in DOMAIN CredentialOps : form # 0 /\ Start(t, o, form) /\ UNCHANGED credVars
    BY <1>4 DEF Submit
  <2>2. o \in DOMAIN Rows
    BY InRows DEF Families
  <2>3. form \in 1..typed
    BY <2>1 DEF ConsoleInv, CredInv
  <2> QED
    BY <2>1, <2>2, <2>3, CredStarts
<1>5. ASSUME NEW t \in Tasks, NEW o \in {"submitAliasEdit", "boot", "confirmDisconnect", "reload"}, NEW what, Start(t, o, what),
             UNCHANGED credVars
      PROVE  ConsoleInv'
  <2>1. AliasOps \in Families /\ FlowOps \in Families
    BY DEF Families
  <2>2. "submitAliasEdit" \in DOMAIN AliasOps /\ {"boot", "confirmDisconnect", "reload"} \subseteq DOMAIN FlowOps
    BY DEF AliasOps, FlowOps
  <2>3. o \in DOMAIN Rows /\ o \notin DOMAIN CredentialOps
    BY <2>1, <2>2, InRows, FamiliesApart
  <2> QED
    BY <1>5, <2>3, CredStarts
<1>6. ASSUME NEW t \in Tasks, SubmitEdit(t) \/ start(t) PROVE ConsoleInv'
  BY <1>5, <1>6 DEF SubmitEdit, start
<1>7. ASSUME NEW t \in Tasks, NEW e, Disconnect(t, e) PROVE ConsoleInv'
  BY <1>5, <1>7 DEF Disconnect, flowRest
<1>8. ASSUME NEW t \in Tasks, NEW d, OpenDir(t, d) PROVE ConsoleInv'
  BY <1>5, <1>8 DEF OpenDir
<1>9. CASE Type
  BY <1>9 DEF Type, ConsoleInv, TaskInv, FlagInv, OneAtATime, CredInv, CredentialsGone
<1>10. ASSUME UNCHANGED <<task, busy, credVars>> PROVE ConsoleInv'
  BY <1>10 DEF ConsoleInv, TaskInv, FlagInv, OneAtATime, CredInv, CredentialsGone, credVars
<1>11. CASE Visibility \/ Dismiss \/ BeginEdit("a") \/ BeginEdit("b")
  BY <1>10, <1>11 DEF Visibility, Dismiss, BeginEdit, flowRest, credVars
<1>12. CASE \E e \in Ends : Vanish(e)
  BY <1>10, <1>12 DEF Vanish, flowRest, credVars
<1>13. CASE \E p \in {"hub", "lease", "visits"} : switchPerspective(p)
  BY <1>10, <1>13 DEF switchPerspective
<1>14. CASE UNCHANGED consoleVars
  BY <1>10, <1>14 DEF consoleVars
<1> QED
  BY <1>1, <1>2, <1>3, <1>4, <1>6, <1>7, <1>8, <1>9, <1>11, <1>12, <1>13, <1>14 DEF ConsoleNext

\* Of the operations whose flag is always asked one runs at a time, whatever
\* is offered, however many tasks run and whatever fails; and a credential
\* that was submitted and answered is not in the form (console.svelte.ts).
THEOREM ConsoleAlwaysHolds == ConsoleSpec => []ConsoleHolds
<1>1. ConsoleInv => ConsoleHolds
  BY DEF ConsoleInv, CredInv, ConsoleHolds
<1> QED
  BY ConsoleStarts, ConsoleKeeps, <1>1, PTL DEF ConsoleSpec

(***************************************************************************)
(* The plugin commands.                                                    *)
(*                                                                         *)
(* Nothing orders two processes over the lock file, so the invariant says  *)
(* of each only what no other can undo: what its records say some project  *)
(* had, and that a running `use` knows whatever the lock says of its alias.*)
(***************************************************************************)
LockEntries == [pkg : Packages, version : Nat] \cup {NoEntry}
Verbs == {"none", "add", "remove", "update", "use", "market"}
WithPackage == {"install", "version", "ask", "upgrade", "uninstall", "save", "fill"}
CommandPlaces == {"idle", "globs", "edit", "fillGlobs", "lock", "resolve", "heal", "again"} \cup WithPackage
CommandRecords ==
  [at : CommandPlaces, verb : Verbs, alias : Aliases \cup {"none"}, project : Projects \cup {"none"},
   name : ByName \cup {NoPackage}, force : BOOLEAN, globs : Seq(Globs), seen : [Aliases -> LockEntries],
   pkg : Packages \cup {NoPackage}, version : Nat, code : {"none", "0", "1", "2", "died"},
   ran : Packages \cup {NoPackage}, wrote : BOOLEAN, known : SUBSET (Packages \cup {NoPackage})]

\* What a copy of the lock file says, some project had.
ToldBy(records, h) == \A a \in Aliases : records[a] # NoEntry => <<records[a].pkg, records[a].version>> \in h
RanLocked(p) ==
  p.ran # NoPackage => \/ p.ran \in p.known
                       \/ (NoPackage \in p.known \/ p.wrote) /\ p.ran \in {<<g, p.alias>> : g \in Globs}

\* A command p beside the lock file's content lk and what projects had.
CommandStands(p, lk, h) ==
  /\ p.at # "idle" => p.alias \in Aliases /\ p.project \in Projects
  /\ p.at \notin {"idle", "globs", "fillGlobs"} /\ p.verb \notin {"remove", "update"} => p.globs # <<>>
  /\ p.at \in {"resolve", "heal", "again"} => p.verb = "use"
  /\ p.at = "uninstall" => p.verb = "remove"
  /\ p.at \in WithPackage => p.pkg \in Packages
  /\ p.at \in {"save", "fill"} /\ p.verb # "remove" => <<p.pkg, p.version>> \in h
  /\ p.at = "resolve" => p.pkg \in p.known
  /\ p.at \in {"fill", "again"} => p.wrote
  /\ p.verb = "use" /\ p.at # "idle" /\ lk # Torn => lk[p.alias].pkg \in p.known
  /\ ToldBy(p.seen, h)
  /\ RanLocked(p)

FilesTyped ==
  /\ locked \in [Aliases -> LockEntries] \cup {Torn}
  /\ locked # Torn => ToldBy(locked, had)
  /\ globs \in Seq(Globs)
  /\ installed \in [Projects -> [Packages -> Nat]]
  /\ \A p \in Projects, k \in Packages : installed[p][k] # 0 => <<k, installed[p][k]>> \in had
  /\ latest \in [Packages -> Nat]
CommandsStand == cli \in [Clis -> CommandRecords] /\ \A c \in Clis : CommandStands(cli[c], locked, had)
CliInv == FilesTyped /\ CommandsStand

\* Only the command of c moves, and no file it did not know changes under it.
LEMMA CommandMoves ==
  ASSUME CliInv, NEW c \in Clis, NEW r \in CommandRecords, cli' = [cli EXCEPT ![c] = r],
         locked' = locked, had \subseteq had', CommandStands(r, locked, had')
  PROVE  CommandsStand'
<1>1. cli' \in [Clis -> CommandRecords]
  BY DEF CliInv, CommandsStand
<1>2. ASSUME NEW d \in Clis PROVE CommandStands(cli'[d], locked', had')
  <2>1. CASE d = c
    BY <2>1 DEF CliInv, CommandsStand
  <2>2. CASE d # c
    <3>1. cli'[d] = cli[d] /\ CommandStands(cli[d], locked, had) /\ locked' = locked
      BY <2>2 DEF CliInv, CommandsStand
    <3>2. CommandStands(cli[d], locked, had')
      BY <3>1 DEF CommandStands, ToldBy
    <3> QED
      BY <3>1, <3>2
  <2> QED
    BY <2>1, <2>2
<1> QED
  BY <1>1, <1>2 DEF CommandsStand

LEMMA CommandTyped ==
  ASSUME CliInv, NEW c \in Clis
  PROVE  cli[c] \in CommandRecords /\ CommandStands(cli[c], locked, had)
BY DEF CliInv, CommandsStand

LEMMA NoLockTyped == NoLock \in [Aliases -> LockEntries] /\ \A h : ToldBy(NoLock, h)
BY DEF NoLock, LockEntries, ToldBy

LEMMA BlankTyped ==
  NoCommand \in CommandRecords /\ NoCommand.at = "idle" /\ NoCommand.seen = NoLock /\ NoCommand.ran = NoPackage
<1>1. 0 \in Nat /\ <<>> \in Seq(Globs)
  OBVIOUS
<1> QED
  BY <1>1, NoLockTyped DEF NoCommand, CommandRecords, CommandPlaces, Verbs

\* A command that is over, whether or not it ran a plugin.
LEMMA EndStands ==
  ASSUME CliInv, NEW c \in Clis, NEW code \in {"none", "0", "1", "2", "died"},
         NEW k \in Packages \cup {NoPackage},
         k # NoPackage => \/ k \in cli[c].known
                          \/ (NoPackage \in cli[c].known \/ cli[c].wrote) /\ k \in {<<g, cli[c].alias>> : g \in Globs}
  PROVE  Ended(c, code, k) \in CommandRecords /\ \A lk, h : CommandStands(Ended(c, code, k), lk, h)
<1>1. cli[c] \in CommandRecords
  BY CommandTyped
<1> DEFINE r == Ended(c, code, k)
<1>2. NoCommand \in CommandRecords /\ NoCommand.at = "idle" /\ NoCommand.seen = NoLock
  BY BlankTyped
<1>3. r \in CommandRecords
  <2>1. cli[c].verb \in Verbs /\ cli[c].alias \in Aliases \cup {"none"} /\ cli[c].wrote \in BOOLEAN
        /\ cli[c].known \in SUBSET (Packages \cup {NoPackage})
    BY <1>1 DEF CommandRecords
  <2> QED
    BY <1>2, <2>1 DEF Ended, CommandRecords
<1>4. /\ r.at = "idle" /\ r.alias = cli[c].alias /\ r.seen = NoLock /\ r.ran = k
      /\ r.wrote = cli[c].wrote /\ r.known = cli[c].known
  BY <1>2 DEF Ended, CommandRecords
<1> HIDE DEF r
<1>5. ASSUME NEW lk, NEW h PROVE CommandStands(r, lk, h)
  BY <1>4, NoLockTyped DEF CommandStands, RanLocked, WithPackage
<1> QED
  BY <1>3, <1>5 DEF r

LEMMA ExitKeeps ==
  ASSUME CliInv, NEW c \in Clis, NEW code \in {"none", "0", "1", "2", "died"}, Exit(c, code),
         locked' = locked, had' = had
  PROVE  CommandsStand'
<1>1. cli' = [cli EXCEPT ![c] = Ended(c, code, NoPackage)]
  BY DEF Exit, Done, Set
<1> QED
  BY <1>1, EndStands, CommandMoves

LEMMA CliStarts == ASSUME CliInit PROVE CliInv
<1>1. 1 \in Nat /\ 0 \in Nat
  OBVIOUS
<1>2. locked \in [Aliases -> LockEntries] /\ ToldBy(locked, had)
  BY NoLockTyped DEF CliInit
<1>3. FilesTyped
  BY <1>1, <1>2, CliAssumption DEF CliInit, FilesTyped
<1>4. NoCommand \in CommandRecords
  BY BlankTyped
<1>5. CommandStands(NoCommand, locked, had)
  BY NoLockTyped DEF NoCommand, CommandStands, RanLocked, WithPackage
<1>6. cli = [c \in Clis |-> NoCommand]
  BY DEF CliInit
<1> QED
  BY <1>3, <1>4, <1>5, <1>6 DEF CliInv, CommandsStand

\* What leaves the files alone keeps them typed.
LEMMA FilesRest ==
  ASSUME CliInv, UNCHANGED <<locked, globs, installed, had, latest>> PROVE FilesTyped'
BY DEF CliInv, FilesTyped

LEMMA RunKeeps == ASSUME CliInv, NEW c \in Clis, Run(c) PROVE CliInv'
<1>1. PICK verb \in {"add", "remove", "update", "use", "market"}, a \in Aliases, p \in Projects,
           n \in ByName \union {NoPackage}, f \in BOOLEAN :
        /\ verb # "add" => n = NoPackage /\ ~f
        /\ Set(c, [NoCommand EXCEPT !.at = IF verb \in {"remove", "update"} THEN "lock" ELSE "globs",
                     !.verb = verb, !.alias = a, !.project = p, !.name = n, !.force = f,
                     !.known = IF verb = "use" THEN {LockedNow(a)} ELSE {}])
  BY Zenon DEF Run
<1> DEFINE r == [NoCommand EXCEPT !.at = IF verb \in {"remove", "update"} THEN "lock" ELSE "globs",
                   !.verb = verb, !.alias = a, !.project = p, !.name = n, !.force = f,
                   !.known = IF verb = "use" THEN {LockedNow(a)} ELSE {}]
<1>3. LockedNow(a) \in Packages \cup {NoPackage} /\ (locked # Torn => LockedNow(a) = locked[a].pkg)
  BY DEF LockedNow, CliInv, FilesTyped, LockEntries, NoEntry
<1>4. r \in CommandRecords
  <2>1. /\ verb \in Verbs /\ (IF verb \in {"remove", "update"} THEN "lock" ELSE "globs") \in CommandPlaces
        /\ (IF verb = "use" THEN {LockedNow(a)} ELSE {}) \in SUBSET (Packages \cup {NoPackage})
    BY <1>3 DEF CommandPlaces, Verbs
  <2>2. /\ a \in Aliases \cup {"none"} /\ p \in Projects \cup {"none"}
        /\ n \in ByName \cup {NoPackage} /\ f \in BOOLEAN
    OBVIOUS
  <2> DEFINE w == IF verb \in {"remove", "update"} THEN "lock" ELSE "globs"
             m == IF verb = "use" THEN {LockedNow(a)} ELSE {}
  <2>3. w \in CommandPlaces /\ m \in SUBSET (Packages \cup {NoPackage})
    BY <2>1
  <2>4. r = [NoCommand EXCEPT !.at = w, !.verb = verb, !.alias = a, !.project = p, !.name = n, !.force = f, !.known = m]
    OBVIOUS
  <2> HIDE DEF r, w, m
  <2>5. \A q \in CommandRecords : [q EXCEPT !.at = w, !.verb = verb, !.alias = a] \in CommandRecords
    <3>1. verb \in Verbs /\ w \in CommandPlaces /\ a \in Aliases \cup {"none"}
      BY <2>1, <2>2, <2>3
    <3> QED
      BY ONLY <3>1 DEF CommandRecords
  <2>6. \A q \in CommandRecords : [q EXCEPT !.project = p, !.name = n, !.force = f, !.known = m] \in CommandRecords
    BY <2>2, <2>3 DEF CommandRecords
  <2>7. r = [[NoCommand EXCEPT !.at = w, !.verb = verb, !.alias = a]
               EXCEPT !.project = p, !.name = n, !.force = f, !.known = m]
    BY <2>4
  <2> QED
    BY <2>5, <2>6, <2>7, BlankTyped
<1>5. /\ r.at = (IF verb \in {"remove", "update"} THEN "lock" ELSE "globs") /\ r.verb = verb /\ r.alias = a
      /\ r.project = p /\ r.seen = NoLock /\ r.ran = NoPackage
      /\ r.known = IF verb = "use" THEN {LockedNow(a)} ELSE {}
  BY BlankTyped DEF CommandRecords
<1>6. UNCHANGED <<locked, globs, installed, had, latest>>
  BY DEF Run, machineVars
<1>7. cli' = [cli EXCEPT ![c] = r]
  BY <1>1 DEF Set
<1> HIDE DEF r
<1>8. CommandStands(r, locked, had')
  BY <1>3, <1>5, NoLockTyped DEF CommandStands, RanLocked, WithPackage
<1>9. CommandsStand'
  BY <1>4, <1>6, <1>7, <1>8, CommandMoves
<1> QED
  BY <1>6, <1>9, FilesRest DEF CliInv

LEMMA PublishesKeeps == ASSUME CliInv, Publishes PROVE CliInv'
<1>1. latest' \in [Packages -> Nat]
  BY DEF Publishes, CliInv, FilesTyped
<1> QED
  BY <1>1 DEF Publishes, CliInv, FilesTyped, CommandsStand

LEMMA LoadMarketplaceKeeps == ASSUME CliInv, NEW c \in Clis, LoadMarketplace(c) PROVE CliInv'
<1>1. UNCHANGED <<locked, globs, installed, had, latest>>
  BY DEF LoadMarketplace, machineVars
<1>2. CASE globs = Torn
  <2>1. Exit(c, "1")
    BY <1>2 DEF LoadMarketplace
  <2> QED
    BY <1>1, <2>1, ExitKeeps, FilesRest DEF CliInv
<1>3. CASE globs # Torn
  <2> DEFINE r == [cli[c] EXCEPT !.globs = globs, !.at = IF cli[c].verb = "market" THEN "edit" ELSE "lock"]
  <2>1. cli' = [cli EXCEPT ![c] = r]
    BY <1>3 DEF LoadMarketplace, Set
  <2>2. cli[c] \in CommandRecords /\ CommandStands(cli[c], locked, had) /\ cli[c].at = "globs"
    BY CommandTyped DEF LoadMarketplace, CommandAt
  <2>3. r \in CommandRecords
    <3> DEFINE w == IF cli[c].verb = "market" THEN "edit" ELSE "lock"
    <3>1. globs \in Seq(Globs) /\ w \in CommandPlaces
      BY DEF CommandPlaces, CliInv, FilesTyped
    <3>2. r = [cli[c] EXCEPT !.globs = globs, !.at = w]
      OBVIOUS
    <3> HIDE DEF r, w
    <3>3. \A q \in CommandRecords : [q EXCEPT !.globs = globs, !.at = w] \in CommandRecords
      BY ONLY <3>1 DEF CommandRecords
    <3> QED
      BY <2>2, <3>2, <3>3
  <2>4. CommandStands(r, locked, had')
    BY <1>1, <1>3, <2>2 DEF CommandStands, CommandRecords, RanLocked, WithPackage, Torn
  <2> QED
    BY <1>1, <2>1, <2>3, <2>4, CommandMoves, FilesRest DEF CliInv
<1> QED
  BY <1>2, <1>3

LEMMA WithoutTyped ==
  ASSUME NEW list \in Seq(Globs), NEW i \in DOMAIN list PROVE Without(list, i) \in Seq(Globs)
<1>1. i \in 1..Len(list) /\ Len(list) \in Nat
  OBVIOUS
<1>2. SubSeq(list, 1, i - 1) \in Seq(Globs)
  <2>1. i - 1 \in 0..Len(list)
    BY <1>1
  <2> QED
    BY <2>1
<1>3. SubSeq(list, i + 1, Len(list)) \in Seq(Globs)
  <2>1. i + 1 \in 1..(Len(list) + 1)
    BY <1>1
  <2> QED
    BY <1>1, <2>1
<1> QED
  BY <1>2, <1>3 DEF Without

LEMMA EditMarketplaceKeeps == ASSUME CliInv, NEW c \in Clis, EditMarketplace(c) PROVE CliInv'
<1>1. UNCHANGED <<locked, installed, had, latest>> /\ cli[c].at = "edit"
  BY DEF EditMarketplace, CommandAt
<1>2. cli[c] \in CommandRecords /\ CommandStands(cli[c], locked, had)
  BY CommandTyped
<1>3. cli[c].globs \in Seq(Globs)
  BY <1>2 DEF CommandRecords
<1>4. ASSUME NEW kept \in Seq(Globs), SaveGlobs(c, kept) PROVE CliInv'
  <2> DEFINE r == [cli[c] EXCEPT !.at = "fillGlobs", !.globs = kept]
  <2>1. cli' = [cli EXCEPT ![c] = r] /\ globs' = Torn
    BY <1>4 DEF SaveGlobs, Set
  <2>2. r \in CommandRecords
    BY <1>2 DEF CommandRecords, CommandPlaces
  <2>3. CommandStands(r, locked, had')
    BY <1>1, <1>2 DEF CommandStands, CommandRecords, RanLocked, WithPackage
  <2>4. FilesTyped'
    <3>1. <<>> \in Seq(Globs)
      OBVIOUS
    <3> QED
      BY <1>1, <2>1, <3>1 DEF CliInv, FilesTyped, Torn
  <2> QED
    BY <1>1, <2>1, <2>2, <2>3, <2>4, CommandMoves DEF CliInv
<1>5. CASE \E g \in Globs : SaveGlobs(c, IF \E i \in DOMAIN cli[c].globs : cli[c].globs[i] = g
                                          THEN cli[c].globs ELSE Append(cli[c].globs, g))
  <2>1. ASSUME NEW g \in Globs PROVE Append(cli[c].globs, g) \in Seq(Globs)
    BY <1>3
  <2> QED
    BY <1>3, <1>4, <1>5, <2>1
<1>6. CASE \E i \in DOMAIN cli[c].globs : SaveGlobs(c, Without(cli[c].globs, i))
  BY <1>3, <1>4, <1>6, WithoutTyped
<1>7. CASE Exit(c, "2") /\ UNCHANGED globs
  BY <1>1, <1>7, ExitKeeps, FilesRest DEF CliInv
<1> QED
  BY <1>5, <1>6, <1>7 DEF EditMarketplace

LEMMA FillMarketplaceKeeps == ASSUME CliInv, NEW c \in Clis, FillMarketplace(c) PROVE CliInv'
<1>1. UNCHANGED <<locked, installed, had, latest>> /\ Exit(c, "0") /\ globs' = cli[c].globs
  BY DEF FillMarketplace
<1>2. globs' \in Seq(Globs)
  BY <1>1, CommandTyped DEF CommandRecords
<1>3. FilesTyped'
  BY <1>1, <1>2 DEF CliInv, FilesTyped
<1> QED
  BY <1>1, <1>3, ExitKeeps DEF CliInv

\* A step that moves one command and leaves the files alone.
LEMMA OnlyMoves ==
  ASSUME CliInv, NEW c \in Clis, NEW r \in CommandRecords, Set(c, r), CommandStands(r, locked, had),
         UNCHANGED <<locked, globs, installed, had, latest>>
  PROVE  CliInv'
<1>1. cli' = [cli EXCEPT ![c] = r] /\ locked' = locked /\ had' = had
  BY DEF Set
<1>2. CommandStands(r, locked, had')
  BY <1>1
<1> QED
  BY <1>1, <1>2, CommandMoves, FilesRest DEF CliInv

LEMMA OnlyExits ==
  ASSUME CliInv, NEW c \in Clis, NEW code \in {"none", "0", "1", "2", "died"}, Exit(c, code),
         UNCHANGED <<locked, globs, installed, had, latest>>
  PROVE  CliInv'
BY ExitKeeps, FilesRest DEF CliInv

\* The first package that the marketplace makes of an alias.
LEMMA FirstCandidate ==
  ASSUME CliInv, NEW c \in Clis, cli[c].globs # <<>>, cli[c].at # "idle"
  PROVE  /\ candidatesFor(c)[1] \in Packages
         /\ \A i \in DOMAIN candidatesFor(c) : candidatesFor(c)[i] \in {<<g, cli[c].alias>> : g \in Globs}
<1>1. cli[c].globs \in Seq(Globs) /\ cli[c].alias \in Aliases
  BY CommandTyped DEF CommandRecords, CommandStands
<1>2. 1 \in 1..Len(cli[c].globs) /\ \A i \in 1..Len(cli[c].globs) : cli[c].globs[i] \in Globs
  BY <1>1
<1> QED
  BY <1>1, <1>2 DEF candidatesFor, Packages

LEMMA AfterLockStands ==
  ASSUME CliInv, NEW c \in Clis, cli[c].at = "lock", locked # Torn
  PROVE  AfterLock(c, locked) \in CommandRecords /\ CommandStands(AfterLock(c, locked), locked, had)
<1> DEFINE e == locked[cli[c].alias]
           v == cli[c].verb
           r == AfterLock(c, locked)
<1>1. cli[c] \in CommandRecords /\ CommandStands(cli[c], locked, had)
  BY CommandTyped
<1>2. /\ locked \in [Aliases -> LockEntries] /\ ToldBy(locked, had) /\ cli[c].alias \in Aliases
      /\ cli[c].project \in Projects
  BY <1>1 DEF CliInv, FilesTyped, CommandStands
<1>3. /\ e \in LockEntries /\ e.pkg \in Packages \cup {NoPackage} /\ e.version \in Nat
      /\ (e # NoEntry => e.pkg \in Packages)
  <2>1. e \in LockEntries
    BY <1>2
  <2>2. NoEntry.pkg = NoPackage /\ NoEntry.version = 0
    BY DEF NoEntry
  <2> QED
    BY <2>1, <2>2 DEF LockEntries
<1>4. CASE r = Ended(c, "0", NoPackage) \/ r = Ended(c, "2", NoPackage)
  BY <1>4, EndStands
<1>5. CASE v = "remove" /\ r = [cli[c] EXCEPT !.at = "uninstall", !.seen = locked, !.pkg = e.pkg] /\ e # NoEntry
  <2>1. r \in CommandRecords
    BY <1>1, <1>2, <1>3, <1>5 DEF CommandRecords, CommandPlaces, WithPackage
  <2> QED
    BY <2>1, <1>1, <1>2, <1>3, <1>5 DEF CommandStands, CommandRecords, RanLocked, WithPackage
<1>6. CASE /\ v = "update" /\ e # NoEntry
           /\ r = [cli[c] EXCEPT !.at = "ask", !.seen = locked, !.pkg = e.pkg, !.version = e.version]
  <2>1. r \in CommandRecords
    BY <1>1, <1>2, <1>3, <1>6 DEF CommandRecords, CommandPlaces, WithPackage
  <2>2. /\ r.at = "ask" /\ r.verb = "update" /\ r.seen = locked /\ r.pkg = e.pkg /\ r.alias = cli[c].alias
        /\ r.project = cli[c].project /\ r.ran = cli[c].ran /\ r.known = cli[c].known /\ r.wrote = cli[c].wrote
    BY <1>1, <1>6 DEF CommandRecords
  <2>3. e.pkg \in Packages
    BY <1>3, <1>6
  <2> HIDE DEF r, e
  <2>4. RanLocked(r)
    BY <1>1, <2>2 DEF CommandStands, RanLocked
  <2>5. ToldBy(r.seen, had) /\ r.alias \in Aliases /\ r.project \in Projects /\ r.pkg \in Packages
    BY <1>2, <2>2, <2>3
  <2>6. CommandStands(r, locked, had)
    BY ONLY <2>2, <2>4, <2>5 DEF CommandStands, WithPackage
  <2> QED
    BY <2>1, <2>6 DEF r
<1>7. CASE v = "use" /\ r = [cli[c] EXCEPT !.at = "resolve", !.seen = locked, !.pkg = e.pkg]
  <2>1. r \in CommandRecords
    BY <1>1, <1>2, <1>3, <1>7 DEF CommandRecords, CommandPlaces
  <2> QED
    BY <2>1, <1>1, <1>2, <1>3, <1>7 DEF CommandStands, CommandRecords, RanLocked, WithPackage
<1>8. CASE /\ v \notin {"remove", "update", "use"}
           /\ r = [cli[c] EXCEPT !.at = "install", !.seen = locked,
                     !.pkg = IF cli[c].name # NoPackage THEN cli[c].name ELSE candidatesFor(c)[1]]
  <2> DEFINE k == IF cli[c].name # NoPackage THEN cli[c].name ELSE candidatesFor(c)[1]
  <2>1. k \in Packages
    <3>1. cli[c].globs # <<>> /\ cli[c].at # "idle"
      BY <1>1, <1>8 DEF CommandStands
    <3>2. cli[c].name \in ByName \cup {NoPackage}
      BY <1>1 DEF CommandRecords
    <3> QED
      BY <3>1, <3>2, FirstCandidate DEF Packages
  <2>2. r = [cli[c] EXCEPT !.at = "install", !.seen = locked, !.pkg = k]
    BY <1>8
  <2> HIDE DEF r, k
  <2>3. r \in CommandRecords
    BY <1>1, <1>2, <2>1, <2>2 DEF CommandRecords, CommandPlaces, WithPackage
  <2>4. CommandStands(r, locked, had)
    BY <2>1, <2>2, <1>1, <1>2, <1>8 DEF CommandStands, CommandRecords, RanLocked, WithPackage
  <2> QED
    BY <2>3, <2>4 DEF r
<1>9. \/ r = Ended(c, "0", NoPackage) \/ r = Ended(c, "2", NoPackage)
      \/ v = "remove" /\ r = [cli[c] EXCEPT !.at = "uninstall", !.seen = locked, !.pkg = e.pkg] /\ e # NoEntry
      \/ /\ v = "update" /\ e # NoEntry
         /\ r = [cli[c] EXCEPT !.at = "ask", !.seen = locked, !.pkg = e.pkg, !.version = e.version]
      \/ v = "use" /\ r = [cli[c] EXCEPT !.at = "resolve", !.seen = locked, !.pkg = e.pkg]
      \/ /\ v \notin {"remove", "update", "use"}
         /\ r = [cli[c] EXCEPT !.at = "install", !.seen = locked,
                   !.pkg = IF cli[c].name # NoPackage THEN cli[c].name ELSE candidatesFor(c)[1]]
  BY DEF AfterLock
<1> QED
  BY <1>4, <1>5, <1>6, <1>7, <1>8, <1>9

LEMMA LoadLockKeeps == ASSUME CliInv, NEW c \in Clis, loadLockfile(c) PROVE CliInv'
<1>1. UNCHANGED <<locked, globs, installed, had, latest>> /\ cli[c].at = "lock"
  BY DEF loadLockfile, machineVars, CommandAt
<1>2. CASE locked = Torn
  BY <1>1, <1>2, OnlyExits DEF loadLockfile
<1>3. CASE locked # Torn
  BY <1>1, <1>3, AfterLockStands, OnlyMoves DEF loadLockfile
<1> QED
  BY <1>2, <1>3

LEMMA SaveLockKeeps == ASSUME CliInv, NEW c \in Clis, saveLockfile(c) PROVE CliInv'
<1> DEFINE r == [cli[c] EXCEPT !.at = "fill", !.wrote = TRUE]
<1>1. /\ UNCHANGED <<globs, installed, had, latest>> /\ locked' = Torn /\ cli[c].at = "save"
      /\ cli' = [cli EXCEPT ![c] = r]
  BY DEF saveLockfile, CommandAt, Set
<1>2. cli[c] \in CommandRecords /\ CommandStands(cli[c], locked, had)
  BY CommandTyped
<1>3. r \in CommandRecords
  BY <1>2 DEF CommandRecords, CommandPlaces, WithPackage
<1>4. CommandStands(r, Torn, had)
  BY <1>1, <1>2 DEF CommandStands, CommandRecords, RanLocked, WithPackage
<1> HIDE DEF r
<1>5. ASSUME NEW d \in Clis PROVE CommandStands(cli'[d], Torn, had)
  <2>1. CASE d = c
    BY <1>1, <1>4, <2>1 DEF CliInv, CommandsStand
  <2>2. CASE d # c
    <3>1. cli'[d] = cli[d] /\ CommandStands(cli[d], locked, had)
      BY <1>1, <2>2 DEF CliInv, CommandsStand
    <3> QED
      BY <3>1 DEF CommandStands
  <2> QED
    BY <2>1, <2>2
<1>6. CommandsStand'
  BY <1>1, <1>3, <1>5 DEF CliInv, CommandsStand
<1>7. FilesTyped'
  BY <1>1 DEF CliInv, FilesTyped
<1> QED
  BY <1>6, <1>7 DEF CliInv

LEMMA FillLockKeeps == ASSUME CliInv, NEW c \in Clis, FillLockfile(c) PROVE CliInv'
<1>1. /\ UNCHANGED <<globs, installed, had, latest>> /\ cli[c].at = "fill"
      /\ locked' = [cli[c].seen EXCEPT ![cli[c].alias] = LockEntry(c)]
      /\ cli' = [d \in Clis |->
           IF d # c THEN Learns(d)
           ELSE IF cli[c].verb = "use" THEN [Learns(c) EXCEPT !.at = "again"]
           ELSE Ended(c, "0", NoPackage)]
  BY DEF FillLockfile, CommandAt
<1>2. cli[c] \in CommandRecords /\ CommandStands(cli[c], locked, had)
  BY CommandTyped
<1>3. LockEntry(c) \in LockEntries /\ (LockEntry(c) # NoEntry => <<LockEntry(c).pkg, LockEntry(c).version>> \in had)
  <2>1. CASE cli[c].verb = "remove"
    BY <2>1 DEF LockEntry, LockEntries
  <2>2. CASE cli[c].verb # "remove"
    <3>1. cli[c].pkg \in Packages /\ cli[c].version \in Nat /\ <<cli[c].pkg, cli[c].version>> \in had
      BY <1>1, <1>2, <2>2 DEF CommandStands, CommandRecords, WithPackage
    <3> QED
      BY <2>2, <3>1 DEF LockEntry, LockEntries
  <2> QED
    BY <2>1, <2>2
<1>4. cli[c].seen \in [Aliases -> LockEntries] /\ ToldBy(cli[c].seen, had) /\ cli[c].alias \in Aliases
  BY <1>1, <1>2 DEF CommandStands, CommandRecords
<1>5. locked' \in [Aliases -> LockEntries] /\ ToldBy(locked', had)
  <2>1. locked' \in [Aliases -> LockEntries]
    BY <1>1, <1>3, <1>4
  <2>2. ASSUME NEW a \in Aliases, locked'[a] # NoEntry PROVE <<locked'[a].pkg, locked'[a].version>> \in had
    <3>1. CASE a = cli[c].alias
      BY <1>1, <1>3, <1>4, <2>2, <3>1
    <3>2. CASE a # cli[c].alias
      BY <1>1, <1>4, <2>2, <3>2 DEF ToldBy
    <3> QED
      BY <3>1, <3>2
  <2> QED
    BY <2>1, <2>2 DEF ToldBy
<1>6. FilesTyped'
  BY <1>1, <1>5 DEF CliInv, FilesTyped
<1>7. ASSUME NEW d \in Clis PROVE Learns(d) \in CommandRecords /\ CommandStands(Learns(d), locked', had)
  <2>1. cli[d] \in CommandRecords /\ CommandStands(cli[d], locked, had)
    BY CommandTyped
  <2>2. CASE cli[d].verb = "use" /\ cli[d].at # "idle"
    <3> DEFINE more == cli[d].known \union {locked'[cli[d].alias].pkg}
    <3>1. Learns(d) = [cli[d] EXCEPT !.known = more]
      BY <2>1, <2>2 DEF Learns, CommandAt
    <3>2. cli[d].alias \in Aliases
      BY <2>1, <2>2 DEF CommandStands
    <3>3. locked'[cli[d].alias].pkg \in Packages \cup {NoPackage}
      BY <1>5, <3>2 DEF LockEntries, NoEntry
    <3>4. more \in SUBSET (Packages \cup {NoPackage}) /\ cli[d].known \subseteq more /\ locked'[cli[d].alias].pkg \in more
      BY <2>1, <3>3 DEF CommandRecords
    <3> HIDE DEF more
    <3>5. Learns(d) \in CommandRecords
      BY <2>1, <3>1, <3>4 DEF CommandRecords
    <3>6. CommandStands(Learns(d), locked', had)
      BY <2>1, <2>2, <3>1, <3>4 DEF CommandStands, CommandRecords, RanLocked
    <3> QED
      BY <3>5, <3>6
  <2>3. CASE ~(cli[d].verb = "use" /\ cli[d].at # "idle")
    <3>1. Learns(d) = cli[d]
      BY <2>3 DEF Learns, CommandAt
    <3> QED
      BY <2>1, <2>3, <3>1 DEF CommandStands
  <2> QED
    BY <2>2, <2>3
<1>8. ASSUME NEW d \in Clis PROVE cli'[d] \in CommandRecords /\ CommandStands(cli'[d], locked', had)
  <2>1. CASE d # c
    BY <1>1, <1>7, <2>1
  <2>2. CASE d = c /\ cli[c].verb = "use"
    <3> DEFINE r == [Learns(c) EXCEPT !.at = "again"]
    <3>1. cli'[d] = r
      BY <1>1, <2>2
    <3>2. Learns(c) \in CommandRecords /\ CommandStands(Learns(c), locked', had)
      BY <1>7
    <3>3. Learns(c).at = "fill" /\ Learns(c).verb = "use" /\ Learns(c).globs = cli[c].globs
      BY <1>1, <1>2, <2>2 DEF Learns, CommandRecords
    <3>4. Learns(c).globs # <<>>
      BY <1>1, <1>2, <2>2, <3>3 DEF CommandStands
    <3>5. r \in CommandRecords
      BY <3>2 DEF CommandRecords, CommandPlaces
    <3>6. CommandStands(r, locked', had)
      BY <3>2, <3>3, <3>4 DEF CommandStands, CommandRecords, RanLocked, WithPackage
    <3> QED
      BY <3>1, <3>5, <3>6
  <2>3. CASE d = c /\ cli[c].verb # "use"
    <3>1. cli'[d] = Ended(c, "0", NoPackage)
      BY <1>1, <2>3
    <3> QED
      BY <3>1, EndStands
  <2> QED
    BY <2>1, <2>2, <2>3
<1>9. CommandsStand'
  BY <1>1, <1>8 DEF CommandsStand
<1> QED
  BY <1>6, <1>9 DEF CliInv

\* A project has another version of a package than before, or none.
LEMMA FilesChange ==
  ASSUME CliInv, NEW p \in Projects, NEW k \in Packages, NEW n \in Nat,
         installed' = [installed EXCEPT ![p][k] = n], had \subseteq had', n # 0 => <<k, n>> \in had',
         UNCHANGED <<locked, globs, latest>>
  PROVE  FilesTyped'
<1>1. installed \in [Projects -> [Packages -> Nat]]
  BY DEF CliInv, FilesTyped
<1>2. installed' \in [Projects -> [Packages -> Nat]]
  BY <1>1
<1>3. ASSUME NEW q \in Projects, NEW l \in Packages, installed'[q][l] # 0 PROVE <<l, installed'[q][l]>> \in had'
  <2>1. CASE q = p /\ l = k
    <3>1. installed'[q][l] = n
      BY <1>1, <2>1
    <3> QED
      BY <1>3, <2>1, <3>1
  <2>2. CASE ~(q = p /\ l = k)
    <3>1. installed'[q][l] = installed[q][l]
      BY <1>1, <2>2
    <3> QED
      BY <1>3, <3>1 DEF CliInv, FilesTyped
  <2> QED
    BY <2>1, <2>2
<1>4. locked # Torn => ToldBy(locked, had')
  BY DEF CliInv, FilesTyped, ToldBy
<1> QED
  BY <1>2, <1>3, <1>4 DEF CliInv, FilesTyped

\* What a command becomes that goes on to another place, with the package it has.
LEMMA StepsOn ==
  ASSUME CliInv, NEW c \in Clis, cli[c].at \in WithPackage, NEW where \in {"version", "save", "upgrade"},
         NEW n \in Nat, NEW h, had \subseteq h,
         where = "save" /\ cli[c].verb # "remove" => <<cli[c].pkg, n>> \in h
  PROVE  /\ [cli[c] EXCEPT !.at = where, !.version = n] \in CommandRecords
         /\ CommandStands([cli[c] EXCEPT !.at = where, !.version = n], locked, h)
<1> DEFINE r == [cli[c] EXCEPT !.at = where, !.version = n]
<1>1. cli[c] \in CommandRecords /\ CommandStands(cli[c], locked, had)
  BY CommandTyped
<1>2. r \in CommandRecords
  BY <1>1 DEF CommandRecords, CommandPlaces, WithPackage
<1>3. /\ r.at = where /\ r.version = n /\ r.verb = cli[c].verb /\ r.alias = cli[c].alias /\ r.project = cli[c].project
      /\ r.globs = cli[c].globs /\ r.pkg = cli[c].pkg /\ r.seen = cli[c].seen /\ r.ran = cli[c].ran
      /\ r.known = cli[c].known /\ r.wrote = cli[c].wrote
  BY <1>1 DEF CommandRecords
<1>4. cli[c].pkg \in Packages /\ cli[c].at \notin {"idle", "globs", "fillGlobs"}
  BY <1>1 DEF CommandStands, WithPackage
<1> HIDE DEF r
<1>5. ToldBy(r.seen, h)
  BY <1>1, <1>3 DEF CommandStands, ToldBy
<1>6. CommandStands(r, locked, h)
  BY <1>1, <1>3, <1>4, <1>5 DEF CommandStands, RanLocked, WithPackage
<1> QED
  BY <1>2, <1>6 DEF r

LEMMA AtPackage ==
  ASSUME CliInv, NEW c \in Clis, cli[c].at \in WithPackage
  PROVE  /\ cli[c].project \in Projects /\ cli[c].pkg \in Packages /\ cli[c].version \in Nat
         /\ cli[c] = [cli[c] EXCEPT !.version = cli[c].version]
BY CommandTyped DEF CommandStands, CommandRecords, WithPackage

\* Going on without another version.
LEMMA GoesTo ==
  ASSUME CliInv, NEW c \in Clis, cli[c].at \in WithPackage, NEW where \in {"version", "save"}
  PROVE  [cli[c] EXCEPT !.at = where] = [cli[c] EXCEPT !.at = where, !.version = cli[c].version]
BY CommandTyped DEF CommandRecords

\* The package manager put a version of the package where the command runs.
LEMMA Installs ==
  ASSUME CliInv, NEW c \in Clis, cli[c].at \in {"install", "upgrade"}, NEW n \in Nat,
         installed' = [installed EXCEPT ![cli[c].project][cli[c].pkg] = n],
         had' = had \union {<<cli[c].pkg, installed'[cli[c].project][cli[c].pkg]>>},
         Go(c, "version"), UNCHANGED <<locked, globs, latest>>
  PROVE  CliInv'
<1>1. cli[c].at \in WithPackage
  BY DEF WithPackage
<1>2. cli[c].project \in Projects /\ cli[c].pkg \in Packages /\ cli[c].version \in Nat
  BY <1>1, AtPackage
<1>3. installed'[cli[c].project][cli[c].pkg] = n
  BY <1>2 DEF CliInv, FilesTyped
<1>4. FilesTyped'
  BY <1>2, <1>3, FilesChange
<1> DEFINE r == [cli[c] EXCEPT !.at = "version", !.version = cli[c].version]
<1>5. r \in CommandRecords /\ CommandStands(r, locked, had')
  BY <1>1, <1>2, StepsOn
<1>6. cli' = [cli EXCEPT ![c] = r]
  BY <1>1, GoesTo DEF Go, Set
<1> HIDE DEF r
<1>7. CommandsStand'
  BY <1>5, <1>6, CommandMoves
<1> QED
  BY <1>4, <1>7 DEF CliInv

LEMMA InstallKeeps == ASSUME CliInv, NEW c \in Clis, Install(c) PROVE CliInv'
<1>1. cli[c].at = "install" /\ UNCHANGED <<locked, globs, latest>>
  BY DEF Install, CommandAt
<1>2. latest[cli[c].pkg] \in Nat
  <2>1. cli[c].pkg \in Packages
    BY <1>1, AtPackage DEF WithPackage
  <2> QED
    BY <2>1 DEF CliInv, FilesTyped
<1>3. CASE Exit(c, "1") /\ UNCHANGED <<installed, had>>
  BY <1>1, <1>3, OnlyExits
<1>4. CASE ~(Exit(c, "1") /\ UNCHANGED <<installed, had>>)
  BY <1>1, <1>2, <1>4, Installs DEF Install
<1> QED
  BY <1>3, <1>4

LEMMA UpgradeKeeps == ASSUME CliInv, NEW c \in Clis, Upgrade(c) PROVE CliInv'
<1>1. cli[c].at = "upgrade" /\ UNCHANGED <<locked, globs, latest>>
  BY DEF Upgrade, CommandAt
<1>2. cli[c].version \in Nat
  BY <1>1, AtPackage DEF WithPackage
<1>3. CASE Exit(c, "1") /\ UNCHANGED <<installed, had>>
  BY <1>1, <1>3, OnlyExits
<1>4. CASE ~(Exit(c, "1") /\ UNCHANGED <<installed, had>>)
  BY <1>1, <1>2, <1>4, Installs DEF Upgrade
<1> QED
  BY <1>3, <1>4

LEMMA UninstallKeeps == ASSUME CliInv, NEW c \in Clis, Uninstall(c) PROVE CliInv'
<1>1. cli[c].at = "uninstall" /\ UNCHANGED <<locked, globs, latest>>
  BY DEF Uninstall, CommandAt
<1>2. cli[c].at \in WithPackage /\ cli[c].project \in Projects /\ cli[c].pkg \in Packages /\ cli[c].version \in Nat
  BY <1>1, AtPackage DEF WithPackage
<1>3. CASE Exit(c, "1") /\ UNCHANGED <<installed, had>>
  BY <1>1, <1>3, OnlyExits
<1>4. CASE /\ installed' = [installed EXCEPT ![cli[c].project][cli[c].pkg] = 0]
           /\ Go(c, "save") /\ UNCHANGED had
  <2>1. FilesTyped'
    BY <1>1, <1>2, <1>4, FilesChange
  <2>2. cli[c].verb = "remove"
    BY <1>1, CommandTyped DEF CommandStands
  <2> DEFINE r == [cli[c] EXCEPT !.at = "save", !.version = cli[c].version]
  <2>3. r \in CommandRecords /\ CommandStands(r, locked, had)
    BY <1>2, <2>2, StepsOn
  <2>4. cli' = [cli EXCEPT ![c] = r]
    BY <1>2, <1>4, GoesTo DEF Go, Set
  <2> HIDE DEF r
  <2>5. CommandsStand'
    BY <1>1, <1>4, <2>3, <2>4, CommandMoves
  <2> QED
    BY <2>1, <2>5 DEF CliInv
<1> QED
  BY <1>3, <1>4 DEF Uninstall

LEMMA ReadVersionKeeps == ASSUME CliInv, NEW c \in Clis, readInstalledVersion(c) PROVE CliInv'
<1> DEFINE v == installed[cli[c].project][cli[c].pkg]
<1>1. cli[c].at = "version" /\ UNCHANGED <<locked, globs, installed, had, latest>>
  BY DEF readInstalledVersion, CommandAt, machineVars
<1>2. cli[c].at \in WithPackage /\ cli[c].project \in Projects /\ cli[c].pkg \in Packages
  BY <1>1, AtPackage DEF WithPackage
<1>3. CASE v = 0
  BY <1>1, <1>3, OnlyExits DEF readInstalledVersion
<1>4. CASE v # 0
  <2>1. v \in Nat /\ <<cli[c].pkg, v>> \in had
    BY <1>2, <1>4 DEF CliInv, FilesTyped
  <2>2. Set(c, [cli[c] EXCEPT !.at = "save", !.version = v])
    BY <1>4 DEF readInstalledVersion
  <2> HIDE DEF v
  <2>3. /\ [cli[c] EXCEPT !.at = "save", !.version = v] \in CommandRecords
        /\ CommandStands([cli[c] EXCEPT !.at = "save", !.version = v], locked, had)
    BY <1>2, <2>1, StepsOn
  <2> QED
    BY <1>1, <2>2, <2>3, OnlyMoves
<1> QED
  BY <1>3, <1>4

LEMMA AskLatestKeeps == ASSUME CliInv, NEW c \in Clis, AskLatest(c) PROVE CliInv'
<1>1. cli[c].at = "ask" /\ UNCHANGED <<locked, globs, installed, had, latest>>
  BY DEF AskLatest, CommandAt, machineVars
<1>2. cli[c].at \in WithPackage /\ cli[c].pkg \in Packages
  BY <1>1, AtPackage DEF WithPackage
<1>3. CASE Exit(c, "0") \/ Exit(c, "1")
  BY <1>1, <1>3, OnlyExits
<1>4. CASE Set(c, [cli[c] EXCEPT !.at = "upgrade", !.version = latest[cli[c].pkg]])
  <2> DEFINE n == latest[cli[c].pkg]
  <2>1. n \in Nat
    BY <1>2 DEF CliInv, FilesTyped
  <2>2. Set(c, [cli[c] EXCEPT !.at = "upgrade", !.version = n])
    BY <1>4
  <2> HIDE DEF n
  <2>3. /\ [cli[c] EXCEPT !.at = "upgrade", !.version = n] \in CommandRecords
        /\ CommandStands([cli[c] EXCEPT !.at = "upgrade", !.version = n], locked, had)
    BY <1>2, <2>1, StepsOn
  <2> QED
    BY <1>1, <2>2, <2>3, OnlyMoves
<1> QED
  BY <1>3, <1>4 DEF AskLatest

\* What runs is the package of the lock, or one of the marketplace's.
LEMMA FoundStands ==
  ASSUME CliInv, NEW c \in Clis, cli[c].at # "idle", cli[c].globs # <<>>,
         NEW lockResolved \in Packages \cup {NoPackage}, NEW k \in Packages, Found(c, lockResolved, k)
  PROVE  IF lockResolved # NoPackage THEN k = lockResolved ELSE k \in {<<g, cli[c].alias>> : g \in Globs}
<1>1. CASE lockResolved # NoPackage
  <2>1. Tried(c, lockResolved) = <<lockResolved>>
    BY <1>1 DEF Tried
  <2> QED
    BY <1>1, <2>1 DEF Found
<1>2. CASE lockResolved = NoPackage
  <2>1. Tried(c, lockResolved) = candidatesFor(c)
    BY <1>2 DEF Tried
  <2> QED
    BY <1>2, <2>1, FirstCandidate DEF Found
<1> QED
  BY <1>1, <1>2

LEMMA DispatchKeeps ==
  ASSUME CliInv, NEW c \in Clis, cli[c].at # "idle", cli[c].globs # <<>>,
         NEW lockResolved \in Packages \cup {NoPackage}, Dispatch(c, lockResolved),
         IF lockResolved # NoPackage THEN lockResolved \in cli[c].known ELSE NoPackage \in cli[c].known \/ cli[c].wrote,
         UNCHANGED <<locked, globs, installed, had, latest>>
  PROVE  CliInv'
<1>1. PICK k \in Packages : Found(c, lockResolved, k) /\ (Exit(c, "1") \/ Done(c, "0", k))
  BY DEF Dispatch
<1>2. CASE Exit(c, "1")
  BY <1>2, OnlyExits
<1>3. CASE Done(c, "0", k)
  <2>1. IF lockResolved # NoPackage THEN k = lockResolved ELSE k \in {<<g, cli[c].alias>> : g \in Globs}
    BY <1>1, FoundStands
  <2>2. \/ k \in cli[c].known
        \/ (NoPackage \in cli[c].known \/ cli[c].wrote) /\ k \in {<<g, cli[c].alias>> : g \in Globs}
    BY <2>1
  <2>3. Ended(c, "0", k) \in CommandRecords /\ CommandStands(Ended(c, "0", k), locked, had)
    BY <2>2, EndStands
  <2> QED
    BY <1>3, <2>3, OnlyMoves DEF Done
<1> QED
  BY <1>1, <1>2, <1>3

LEMMA ResolveKeeps == ASSUME CliInv, NEW c \in Clis, Resolve(c) PROVE CliInv'
<1>1. cli[c].at = "resolve" /\ UNCHANGED <<locked, globs, installed, had, latest>>
  BY DEF Resolve, CommandAt, machineVars
<1>2. cli[c] \in CommandRecords /\ CommandStands(cli[c], locked, had)
  BY CommandTyped
<1>3. cli[c].verb = "use" /\ cli[c].globs # <<>> /\ cli[c].pkg \in cli[c].known /\ cli[c].pkg \in Packages \cup {NoPackage}
  BY <1>1, <1>2 DEF CommandStands, CommandRecords
<1>4. CASE Dispatch(c, cli[c].pkg)
  BY <1>1, <1>3, <1>4, DispatchKeeps
<1>5. CASE Exit(c, "1")
  BY <1>1, <1>5, OnlyExits
<1>6. CASE Go(c, "heal")
  <2> DEFINE r == [cli[c] EXCEPT !.at = "heal"]
  <2>1. r \in CommandRecords
    BY <1>2 DEF CommandRecords, CommandPlaces
  <2>2. CommandStands(r, locked, had)
    BY <1>1, <1>2, <1>3 DEF CommandStands, CommandRecords, RanLocked, WithPackage
  <2>3. Set(c, r)
    BY <1>6 DEF Go
  <2> HIDE DEF r
  <2> QED
    BY <1>1, <2>1, <2>2, <2>3, OnlyMoves
<1> QED
  BY <1>4, <1>5, <1>6 DEF Resolve

LEMMA HealKeeps == ASSUME CliInv, NEW c \in Clis, Heal(c) PROVE CliInv'
<1>1. cli[c].at = "heal" /\ UNCHANGED <<locked, globs, installed, had, latest>>
  BY DEF Heal, CommandAt, machineVars
<1>2. cli[c] \in CommandRecords /\ CommandStands(cli[c], locked, had)
  BY CommandTyped
<1>3. CASE locked = Torn
  BY <1>1, <1>3, OnlyExits DEF Heal
<1>4. CASE locked # Torn
  <2> DEFINE k == candidatesFor(c)[1]
             r == [cli[c] EXCEPT !.at = "install", !.seen = locked, !.pkg = k]
  <2>1. Set(c, r)
    BY <1>4 DEF Heal
  <2>2. cli[c].verb = "use" /\ cli[c].globs # <<>>
    BY <1>1, <1>2 DEF CommandStands
  <2>3. k \in Packages
    BY <1>1, <2>2, FirstCandidate
  <2>4. locked \in [Aliases -> LockEntries] /\ ToldBy(locked, had)
    BY <1>4 DEF CliInv, FilesTyped
  <2> HIDE DEF k
  <2>5. r \in CommandRecords
    BY <1>2, <2>3, <2>4 DEF CommandRecords, CommandPlaces, WithPackage
  <2>6. CommandStands(r, locked, had)
    BY <1>1, <1>2, <2>2, <2>3, <2>4 DEF CommandStands, CommandRecords, RanLocked, WithPackage
  <2> HIDE DEF r
  <2> QED
    BY <1>1, <2>1, <2>5, <2>6, OnlyMoves
<1> QED
  BY <1>3, <1>4

LEMMA ResolveAgainKeeps == ASSUME CliInv, NEW c \in Clis, ResolveAgain(c) PROVE CliInv'
<1>1. cli[c].at = "again" /\ UNCHANGED <<locked, globs, installed, had, latest>>
  BY DEF ResolveAgain, CommandAt, machineVars
<1>2. cli[c].verb = "use" /\ cli[c].globs # <<>> /\ cli[c].wrote
  BY <1>1, CommandTyped DEF CommandStands
<1>3. CASE Dispatch(c, NoPackage)
  BY <1>1, <1>2, <1>3, DispatchKeeps
<1>4. CASE Exit(c, "1")
  BY <1>1, <1>4, OnlyExits
<1> QED
  BY <1>3, <1>4 DEF ResolveAgain

LEMMA DiesKeeps == ASSUME CliInv, NEW c \in Clis, Dies(c) PROVE CliInv'
BY OnlyExits DEF Dies, machineVars

LEMMA CliKeeps == ASSUME CliInv, [CliNext]_cliVars PROVE CliInv'
<1>1. ASSUME NEW c \in Clis, CliSteps(c) PROVE CliInv'
  BY <1>1, RunKeeps, LoadMarketplaceKeeps, EditMarketplaceKeeps, FillMarketplaceKeeps, LoadLockKeeps,
     SaveLockKeeps, FillLockKeeps, InstallKeeps, ReadVersionKeeps, AskLatestKeeps, UpgradeKeeps,
     UninstallKeeps, ResolveKeeps, HealKeeps, ResolveAgainKeeps, DiesKeeps DEF CliSteps
<1>2. CASE UNCHANGED cliVars
  BY <1>2 DEF cliVars, CliInv, FilesTyped, CommandsStand
<1> QED
  BY <1>1, <1>2, PublishesKeeps DEF CliNext

\* However many processes run plugin commands over one lock file, and wherever
\* they die: a plugin that runs is the one the lock named, or a package of the
\* marketplace where the lock named none or the run has locked it; and what
\* the lock says was installed (plugin-registry.mjs, plugin-resolve.mjs).
THEOREM CliAlwaysHolds == CliSpec => []CliHolds
<1>1. CliInv => CliHolds
  BY DEF CliInv, FilesTyped, CommandsStand, CommandStands, ToldBy, RanLocked, CliHolds, RunsLocked, LockTells
<1> QED
  BY CliStarts, CliKeeps, <1>1, PTL DEF CliSpec

=============================================================================
