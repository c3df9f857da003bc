--------------------------- MODULE WebCore_proofs ---------------------------
(***************************************************************************)
(* Theorems about the web console's core, for any number of handlers,      *)
(* servers, plugins, callers, peers and bounds.                            *)
(*                                                                         *)
(* Each part has an inductive invariant of its own, checked step by step   *)
(* against its own next-state relation; a step of the whole is a step of   *)
(* one part that leaves the others alone, so the theorems about Spec need  *)
(* no more than the three together.                                        *)
(***************************************************************************)
EXTENDS WebCore, FiniteSetTheorems, TLAPS

(***************************************************************************)
(* The node book.  A handler that mutates it holds the mutation lock, so   *)
(* what it checked before its await still holds behind it; a handler that  *)
(* adds holds a code that no node was added with.                          *)
(***************************************************************************)
Targets == Servers \cup {None, Hub}
HandlerStates ==
  [op : {"idle", "connect", "hub", "add", "switch", "delete", "api"},
   step : {"idle", "validate", "ensure", "token", "save", "body", "upstream"},
   server : Targets, id : Nat, old : Targets]

Mutates(r) == at[r].op \in {"switch", "delete"}
Adds(r) == at[r].op = "add"

BookTyped ==
  /\ at \in [Handlers -> HandlerStates]
  /\ target \in Targets
  /\ nodeCode \in Nat \ {0} /\ nextId \in Nat /\ current \in Nat
  /\ \A i \in DOMAIN book : i \in Nat /\ book[i] \in Targets
  /\ \A i \in DOMAIN spent : spent[i] \in Nat

\* One handler at a time adds, one at a time mutates.
LocksHeld ==
  /\ \A r \in Handlers : (Mutates(r) => mutating) /\ (Adds(r) => adding)
  /\ \A r, q \in Handlers : Mutates(r) /\ Mutates(q) => r = q
  /\ \A r, q \in Handlers : Adds(r) /\ Adds(q) => r = q

\* What a handler that waits for the file has checked.
ChecksStand ==
  \A r \in Handlers : /\ In(r, "switch", "save") => at[r].id \in DOMAIN book
                      /\ In(r, "delete", "save") => at[r].id # current

CodesFresh ==
  /\ \A i \in DOMAIN spent : spent[i] < nodeCode
  /\ \A r \in Handlers : Adds(r) =>
       at[r].id <= nodeCode /\ at[r].id # 0 /\ \A i \in DOMAIN spent : spent[i] < at[r].id

NodesInv ==
  BookTyped /\ LocksHeld /\ ChecksStand /\ CodesFresh /\ book = disk /\ NodesHold

LEMMA NodesBase == SidecarInit => NodesInv
<1> SUFFICES ASSUME SidecarInit PROVE NodesInv
  OBVIOUS
<1>1. BookTyped
  BY DEF SidecarInit, BookTyped, HandlerStates, Targets, Idle, Empty
<1>2. LocksHeld /\ ChecksStand /\ CodesFresh
  BY DEF SidecarInit, LocksHeld, ChecksStand, CodesFresh, Mutates, Adds, In, Idle, Empty
<1>3. book = disk /\ NodesHold
  BY DEF SidecarInit, NodesHold, OneNodePerCode, CurrentIsStored, Empty
<1> QED
  BY <1>1, <1>2, <1>3 DEF NodesInv

\* Steps of handlers that neither add nor mutate: the book's invariant reads
\* nothing that they change.
LEMMA Elsewhere ==
  ASSUME NodesInv, UNCHANGED <<bookVars, codeVars, mutating>>, target' \in Targets,
         NEW r \in Handlers, ~Mutates(r), ~Adds(r),
         NEW x \in HandlerStates, x.op \notin {"switch", "delete", "add"},
         at' = [at EXCEPT ![r] = x]
  PROVE  NodesInv'
<1> USE DEF bookVars, codeVars
<1>1. BookTyped'
  BY DEF NodesInv, BookTyped
<1>2. at \in [Handlers -> HandlerStates]
  BY DEF NodesInv, BookTyped
<1>3. LocksHeld'
  BY <1>2 DEF NodesInv, LocksHeld, Mutates, Adds
<1>4. ChecksStand' /\ CodesFresh'
  BY <1>2 DEF NodesInv, ChecksStand, CodesFresh, In, Adds
<1>5. book' = disk' /\ NodesHold'
  BY DEF NodesInv, NodesHold, OneNodePerCode, CurrentIsStored
<1> QED
  BY <1>1, <1>3, <1>4, <1>5 DEF NodesInv

LEMMA Asleep ==
  ASSUME NodesInv, UNCHANGED <<bookVars, codeVars, mutating, at>>, target' \in Targets
  PROVE  NodesInv'
  BY DEF NodesInv, BookTyped, LocksHeld, ChecksStand, CodesFresh, NodesHold,
         OneNodePerCode, CurrentIsStored, In, Mutates, Adds, bookVars, codeVars

LEMMA NodeAddStep ==
  ASSUME NodesInv, NEW r \in Handlers, NEW s \in Servers, NodeAdd(r, s)
  PROVE  NodesInv'
<1> USE DEF NodeAdd, bookVars, targetVars, Await
<1> DEFINE x == [op |-> "add", step |-> "validate", server |-> s, id |-> nodeCode, old |-> None]
<1>1. at \in [Handlers -> HandlerStates] /\ at' = [at EXCEPT ![r] = x] /\ x \in HandlerStates
  BY DEF NodesInv, BookTyped, HandlerStates, Targets
<1>2. BookTyped'
  BY <1>1 DEF NodesInv, BookTyped
<1>3. LocksHeld'
  BY <1>1 DEF NodesInv, LocksHeld, Mutates, Adds, NoAddInFlight
<1>4. ChecksStand' /\ CodesFresh'
  BY <1>1 DEF NodesInv, BookTyped, ChecksStand, CodesFresh, In, Adds
<1>5. book' = disk' /\ NodesHold'
  BY DEF NodesInv, NodesHold, OneNodePerCode, CurrentIsStored
<1> QED
  BY <1>2, <1>3, <1>4, <1>5 DEF NodesInv

LEMMA AddBadCodeStep ==
  ASSUME NodesInv, NEW r \in Handlers, AddBadCode(r)
  PROVE  NodesInv'
<1> USE DEF AddBadCode, rotateNodePairing, bookVars, targetVars
<1>1. nodeCode' \in Nat \ {0} /\ nodeCode' >= nodeCode
  BY DEF NodesInv, BookTyped
<1>2. CodesFresh'
  BY <1>1 DEF NodesInv, BookTyped, HandlerStates, CodesFresh, Adds
<1> QED
  BY <1>1, <1>2 DEF NodesInv, BookTyped, LocksHeld, ChecksStand, NodesHold,
     OneNodePerCode, CurrentIsStored, In, Mutates, Adds

LEMMA NodeAddedStep ==
  ASSUME NodesInv, NEW r \in Handlers, NodeAdded(r)
  PROVE  NodesInv'
<1> USE DEF NodeAdded, bookVars, targetVars, Reply
<1>1. at \in [Handlers -> HandlerStates] /\ at' = [at EXCEPT ![r] = Idle] /\ Idle \in HandlerStates
  BY DEF NodesInv, BookTyped, HandlerStates, Targets, Idle
<1>2. Adds(r) /\ at[r].op # "switch" /\ at[r].op # "delete" /\ \A q \in Handlers : ~Adds(q)'
  BY <1>1 DEF In, Adds, NodesInv, LocksHeld, Idle
<1>3. LocksHeld'
  BY <1>1, <1>2 DEF NodesInv, LocksHeld, Mutates, Idle
<1>4. CASE UNCHANGED <<bookVars, nodeCode, codeFails>>
  BY <1>1, <1>2, <1>3, <1>4 DEF NodesInv, BookTyped, ChecksStand, CodesFresh, NodesHold,
     OneNodePerCode, CurrentIsStored, In, Idle
<1>5. CASE /\ book' = With(book, nextId, at[r].server) /\ disk' = With(disk, nextId, at[r].server)
           /\ spent' = With(spent, nextId, at[r].id)
           /\ nextId' = nextId + 1
           /\ rotateNodePairing
           /\ UNCHANGED current
  <2>1. at[r].server \in Targets /\ at[r].id \in Nat \ {0}
        /\ at[r].id <= nodeCode /\ \A i \in DOMAIN spent : spent[i] < at[r].id
    BY <1>1, <1>2 DEF HandlerStates, NodesInv, CodesFresh
  <2>2. BookTyped'
    BY <1>1, <1>5, <2>1 DEF NodesInv, BookTyped, With, rotateNodePairing
  <2>3. DOMAIN book' = DOMAIN book \cup {nextId} /\ book' = disk'
    BY <1>5 DEF NodesInv, With
  <2>4. ChecksStand'
    BY <1>1, <1>5, <2>3 DEF NodesInv, ChecksStand, In, Idle
  <2>5. CodesFresh'
    BY <1>2, <1>5, <2>1 DEF NodesInv, BookTyped, CodesFresh, With, rotateNodePairing
  <2>6. OneNodePerCode'
    BY <1>5, <2>1 DEF NodesInv, BookTyped, NodesHold, OneNodePerCode, With
  <2>7. CurrentIsStored'
    BY <1>5, <2>3 DEF NodesInv, NodesHold, CurrentIsStored
  <2> QED
    BY <1>3, <2>2, <2>3, <2>4, <2>5, <2>6, <2>7 DEF NodesInv, NodesHold
<1> QED
  BY <1>4, <1>5

\* A mutation begins: the lock is taken.
LEMMA MutationBegins ==
  ASSUME NodesInv, NEW r \in Handlers, ~mutating, ~Adds(r),
         NEW x \in HandlerStates, at' = [at EXCEPT ![r] = x],
         \/ x.op = "switch" /\ x.step = "validate"
         \/ x.op = "delete" /\ x.id # current,
         mutating' = TRUE, UNCHANGED <<bookVars, codeVars, target>>
  PROVE  NodesInv'
<1> USE DEF bookVars, codeVars
<1>1. at \in [Handlers -> HandlerStates]
  BY DEF NodesInv, BookTyped
<1>2. BookTyped'
  BY <1>1 DEF NodesInv, BookTyped
<1>3. LocksHeld' /\ CodesFresh'
  BY <1>1 DEF NodesInv, LocksHeld, CodesFresh, Mutates, Adds
<1>4. ChecksStand'
  BY <1>1 DEF NodesInv, ChecksStand, LocksHeld, Mutates, In
<1>5. book' = disk' /\ NodesHold'
  BY DEF NodesInv, NodesHold, OneNodePerCode, CurrentIsStored
<1> QED
  BY <1>2, <1>3, <1>4, <1>5 DEF NodesInv

\* A mutation ends: no handler mutates any more.
LEMMA MutationEnds ==
  ASSUME NodesInv, NEW r \in Handlers, Mutates(r), at' = [at EXCEPT ![r] = Idle]
  PROVE  /\ at' \in [Handlers -> HandlerStates]
         /\ \A q \in Handlers : ~Mutates(q)' /\ (Adds(q)' => Adds(q) /\ at'[q] = at[q])
<1>1. at \in [Handlers -> HandlerStates] /\ Idle \in HandlerStates
  BY DEF NodesInv, BookTyped, HandlerStates, Targets, Idle
<1> QED
  BY <1>1 DEF NodesInv, LocksHeld, Mutates, Adds, Idle

LEMMA SwitchCheckedStep ==
  ASSUME NodesInv, NEW r \in Handlers, SwitchChecked(r)
  PROVE  NodesInv'
<1> USE DEF SwitchChecked, Reply, codeVars
<1>1. at \in [Handlers -> HandlerStates] /\ Mutates(r) /\ ~Adds(r)
  BY DEF NodesInv, BookTyped, Mutates, Adds, In
<1>2. CASE Reply(r) /\ mutating' = FALSE /\ UNCHANGED <<targetVars, current>>
  <2> USE <1>1, <1>2, MutationEnds DEF targetVars
  <2>1. BookTyped' /\ LocksHeld' /\ ChecksStand' /\ CodesFresh'
    BY DEF NodesInv, BookTyped, LocksHeld, ChecksStand, CodesFresh, In, Mutates
  <2> QED
    BY <2>1 DEF NodesInv, NodesHold, OneNodePerCode, CurrentIsStored
<1>3. CASE /\ at[r].id \in DOMAIN book /\ current = 0 /\ target # None
           /\ at' = [at EXCEPT ![r].step = "save", ![r].old = target]
           /\ UNCHANGED <<targetVars, current, mutating>>
  <2>1. at' \in [Handlers -> HandlerStates] /\ at'[r].op = at[r].op /\ at'[r].id = at[r].id
        /\ \A q \in Handlers \ {r} : at'[q] = at[q]
    BY <1>1, <1>3 DEF NodesInv, BookTyped, HandlerStates
  <2>2. BookTyped' /\ LocksHeld' /\ CodesFresh'
    BY <1>1, <1>3, <2>1 DEF NodesInv, BookTyped, LocksHeld, CodesFresh, Mutates, Adds, targetVars
  <2>3. ChecksStand'
    BY <1>1, <1>3, <2>1 DEF NodesInv, ChecksStand, In
  <2> QED
    BY <1>3, <2>2, <2>3 DEF NodesInv, NodesHold, OneNodePerCode, CurrentIsStored
<1>4. CASE at[r].id \in DOMAIN book /\ SwitchTo(r)
  <2> USE <1>1, <1>4, MutationEnds DEF SwitchTo, Point
  <2>1. BookTyped'
    BY DEF NodesInv, BookTyped, HandlerStates
  <2>2. LocksHeld' /\ ChecksStand' /\ CodesFresh'
    BY DEF NodesInv, LocksHeld, ChecksStand, CodesFresh, In, Mutates
  <2> QED
    BY <2>1, <2>2 DEF NodesInv, NodesHold, OneNodePerCode, CurrentIsStored
<1> QED
  BY <1>2, <1>3, <1>4

LEMMA SwitchedStep ==
  ASSUME NodesInv, NEW r \in Handlers, Switched(r)
  PROVE  NodesInv'
<1> USE DEF Switched, Reply, codeVars
<1>1. at \in [Handlers -> HandlerStates] /\ Mutates(r) /\ at[r].id \in DOMAIN book
  BY DEF NodesInv, BookTyped, ChecksStand, Mutates, In
<1>2. CASE Reply(r) /\ mutating' = FALSE /\ UNCHANGED <<bookVars, targetVars>>
  <2> USE <1>1, <1>2, MutationEnds DEF targetVars, bookVars
  <2>1. BookTyped' /\ LocksHeld' /\ ChecksStand' /\ CodesFresh'
    BY DEF NodesInv, BookTyped, LocksHeld, ChecksStand, CodesFresh, In, Mutates
  <2> QED
    BY <2>1 DEF NodesInv, NodesHold, OneNodePerCode, CurrentIsStored
<1>3. CASE /\ book' = With(book, nextId, at[r].old) /\ disk' = With(disk, nextId, at[r].old)
           /\ spent' = With(spent, nextId, 0)
           /\ nextId' = nextId + 1
           /\ SwitchTo(r)
  <2>1. at[r].server \in Targets /\ at[r].old \in Targets /\ at[r].id \in Nat
    BY <1>1 DEF HandlerStates
  <2>2. /\ at' \in [Handlers -> HandlerStates]
        /\ \A q \in Handlers : ~Mutates(q)' /\ (Adds(q)' => Adds(q) /\ at'[q] = at[q])
    BY <1>1, <1>3, MutationEnds DEF SwitchTo
  <2>3. DOMAIN book' = DOMAIN book \cup {nextId} /\ book' = disk'
        /\ DOMAIN spent' = DOMAIN spent \cup {nextId}
    BY <1>3 DEF NodesInv, With
  <2>4. \A i \in DOMAIN spent' : spent'[i] = 0 \/ (i \in DOMAIN spent /\ spent'[i] = spent[i])
    BY <1>3 DEF With
  <2>5. \A i \in DOMAIN book' : i \in Nat /\ book'[i] \in Targets
    <3>1. nextId \in Nat /\ \A i \in DOMAIN book : i \in Nat /\ book[i] \in Targets
      BY DEF NodesInv, BookTyped
    <3>2. book' = [i \in DOMAIN book \cup {nextId} |-> IF i = nextId THEN at[r].old ELSE book[i]]
      BY <1>3 DEF With
    <3> QED
      BY <2>1, <3>1, <3>2
  <2>6. BookTyped'
    BY <1>3, <2>1, <2>2, <2>4, <2>5 DEF NodesInv, BookTyped, SwitchTo, Point
  <2>7. LocksHeld' /\ ChecksStand'
    BY <1>3, <2>2, <2>3 DEF NodesInv, LocksHeld, ChecksStand, In, Mutates, SwitchTo
  <2>8. CodesFresh'
    BY <2>2, <2>4 DEF NodesInv, BookTyped, HandlerStates, CodesFresh
  <2>9. OneNodePerCode'
    BY <2>4 DEF NodesInv, NodesHold, OneNodePerCode
  <2>10. CurrentIsStored'
    BY <1>1, <1>3, <2>3 DEF CurrentIsStored, SwitchTo
  <2> QED
    BY <2>3, <2>6, <2>7, <2>8, <2>9, <2>10 DEF NodesInv, NodesHold
<1> QED
  BY <1>2, <1>3

LEMMA DeletedStep ==
  ASSUME NodesInv, NEW r \in Handlers, Deleted(r)
  PROVE  NodesInv'
<1> USE DEF Deleted, Reply, codeVars, targetVars, bookVars
<1>1. Mutates(r) /\ at[r].id # current
  BY DEF NodesInv, ChecksStand, Mutates, In
<1> USE <1>1, MutationEnds
<1>2. LocksHeld'
  BY DEF NodesInv, LocksHeld
<1>3. CASE UNCHANGED bookVars
  BY <1>2, <1>3 DEF NodesInv, BookTyped, ChecksStand, CodesFresh, In, Mutates, NodesHold,
     OneNodePerCode, CurrentIsStored
<1>4. CASE /\ book' = Without(book, at[r].id) /\ disk' = Without(disk, at[r].id)
           /\ UNCHANGED <<current, nextId, spent>>
  <2>1. BookTyped' /\ ChecksStand' /\ CodesFresh'
    BY <1>4 DEF NodesInv, BookTyped, ChecksStand, CodesFresh, In, Mutates, Without
  <2>2. book' = disk' /\ NodesHold'
    BY <1>4 DEF NodesInv, NodesHold, OneNodePerCode, CurrentIsStored, Without
  <2> QED
    BY <1>2, <2>1, <2>2 DEF NodesInv
<1> QED
  BY <1>3, <1>4

LEMMA RestartStep == NodesInv /\ Restart => NodesInv'
<1> SUFFICES ASSUME NodesInv, Restart PROVE NodesInv'
  OBVIOUS
<1> USE DEF Restart
<1>1. BookTyped'
  BY DEF NodesInv, BookTyped, HandlerStates, Targets, Idle
<1>2. LocksHeld' /\ ChecksStand' /\ CodesFresh'
  BY DEF NodesInv, BookTyped, LocksHeld, ChecksStand, CodesFresh, Mutates, Adds, In, Idle
<1> QED
  BY <1>1, <1>2 DEF NodesInv, NodesHold, OneNodePerCode, CurrentIsStored

\* Every step of the sidecar keeps the book's invariant.
LEMMA NodesStep == NodesInv /\ SidecarNext => NodesInv'
<1> SUFFICES ASSUME NodesInv, SidecarNext PROVE NodesInv'
  OBVIOUS
<1>1. CASE Restart
  BY <1>1, RestartStep
<1>2. ASSUME NEW r \in Handlers, Handle(r) PROVE NodesInv'
  <2>1. at \in [Handlers -> HandlerStates] /\ target \in Targets /\ Idle \in HandlerStates
    BY DEF NodesInv, BookTyped, HandlerStates, Targets, Idle
  <2>2. Idle.op = "idle"
    BY DEF Idle
  <2>3. CASE ConnectBadCode(r)
    BY <2>1, <2>3, Asleep DEF ConnectBadCode, targetVars
  <2>4. ASSUME NEW s \in Servers, Connect(r, s) PROVE NodesInv'
    <3> DEFINE x == [op |-> "connect", step |-> "validate", server |-> s, id |-> 0, old |-> None]
    <3>1. x \in HandlerStates
      BY DEF HandlerStates, Targets
    <3> QED
      BY <2>1, <2>2, <2>4, <3>1, Elsewhere DEF Connect, Await, targetVars, Mutates, Adds
  <2>5. CASE Connected(r)
    <3>1. at[r].server \in Targets
      BY <2>1 DEF HandlerStates
    <3> QED
      BY <2>1, <2>2, <2>5, <3>1, Elsewhere DEF Connected, Point, Reply, In, targetVars, Mutates, Adds
  <2>6. CASE HubStart(r)
    <3> DEFINE x == [op |-> "hub", step |-> "ensure", server |-> Hub, id |-> 0, old |-> None]
    <3>1. x \in HandlerStates
      BY DEF HandlerStates, Targets
    <3> QED
      BY <2>1, <2>2, <2>6, <3>1, Elsewhere DEF HubStart, Await, targetVars, Mutates, Adds
  <2>7. CASE HubEnsured(r)
    <3> DEFINE x == [op |-> "hub", step |-> "token", server |-> Hub, id |-> 0, old |-> None]
    <3>1. x \in HandlerStates
      BY DEF HandlerStates, Targets
    <3> QED
      BY <2>1, <2>2, <2>7, <3>1, Elsewhere DEF HubEnsured, Await, Reply, In, targetVars, Mutates, Adds
  <2>8. CASE HubConnected(r)
    BY <2>1, <2>2, <2>8, Elsewhere DEF HubConnected, Point, Reply, In, targetVars, Mutates, Adds, Targets
  <2>9. CASE AddBadCode(r)
    BY <2>9, AddBadCodeStep
  <2>10. ASSUME NEW s \in Servers, NodeAdd(r, s) PROVE NodesInv'
    BY <2>10, NodeAddStep
  <2>11. CASE NodeAdded(r)
    BY <2>11, NodeAddedStep
  <2>12. ASSUME NEW i \in Ids, Switch(r, i) PROVE NodesInv'
    <3> DEFINE x == [op |-> "switch", step |-> "validate", server |-> book[i], id |-> i, old |-> None]
    <3>1. x \in HandlerStates
      BY <2>12 DEF Switch, NodesInv, BookTyped, HandlerStates, Targets
    <3> QED
      BY <2>2, <2>12, <3>1, MutationBegins DEF Switch, NoMutation, Await, targetVars, Adds
  <2>13. CASE SwitchChecked(r)
    BY <2>13, SwitchCheckedStep
  <2>14. CASE Switched(r)
    BY <2>14, SwitchedStep
  <2>15. ASSUME NEW i \in Ids, Delete(r, i) PROVE NodesInv'
    <3> DEFINE x == [op |-> "delete", step |-> "save", server |-> None, id |-> i, old |-> None]
    <3>1. x \in HandlerStates /\ i # current
      BY <2>15 DEF Delete, Removable, NodesInv, BookTyped, HandlerStates, Targets
    <3> QED
      BY <2>2, <2>15, <3>1, MutationBegins DEF Delete, NoMutation, Await, targetVars, Adds
  <2>16. CASE Deleted(r)
    BY <2>16, DeletedStep
  <2>17. CASE Api(r)
    <3> DEFINE x == [op |-> "api", step |-> "body", server |-> target, id |-> 0, old |-> None]
    <3>1. x \in HandlerStates
      BY <2>1 DEF HandlerStates, Targets
    <3> QED
      BY <2>1, <2>2, <2>17, <3>1, Elsewhere DEF Api, Await, targetVars, Mutates, Adds
  <2>18. CASE proxyAdmin(r)
    <3> DEFINE x == [op |-> "api", step |-> "upstream", server |-> at[r].server, id |-> 0, old |-> None]
    <3>1. x \in HandlerStates
      BY <2>1 DEF HandlerStates, Targets
    <3> QED
      BY <2>1, <2>2, <2>18, <3>1, Elsewhere DEF proxyAdmin, Await, Reply, In, targetVars, Mutates, Adds
  <2>19. CASE Settle(r)
    BY <2>1, <2>2, <2>19, Elsewhere DEF Settle, Reply, In, targetVars, Mutates, Adds
  <2> QED
    BY <1>2, <2>3, <2>4, <2>5, <2>6, <2>7, <2>8, <2>9, <2>10, <2>11, <2>12, <2>13, <2>14,
       <2>15, <2>16, <2>17, <2>18, <2>19 DEF Handle
<1> QED
  BY <1>1, <1>2 DEF SidecarNext

(***************************************************************************)
(* The plugin host.  An order holds its plugin's busy mark from beginning  *)
(* to end, so there is at most one order per plugin, and what an order     *)
(* found or wrote is still so at its next step.                            *)
(***************************************************************************)
Statuses == {"registered", "enabled", "disabled"}
CallStates ==
  [op : {"idle", "enable", "disable", "config"},
   step : {"idle", "persist", "dir", "hook", "rollback", "drain", "dispose"},
   plugin : Plugins \cup {"none"}, as : Statuses \cup {"none"}]
Ordering(c) == call[c].op # "idle"

HostTyped ==
  /\ status \in [Plugins -> Statuses]
  /\ ledger \in [Plugins -> Statuses \cup {"none"}]
  /\ running \in [Plugins -> BOOLEAN] /\ disposed \in [Plugins -> BOOLEAN]
  /\ busy \in [Plugins -> BOOLEAN]
  /\ inflight \in [Plugins -> SUBSET Activities]
  /\ call \in [Callers -> CallStates]
  /\ drain \in [Plugins -> {"none", "running", "passed", "closing"}]
  /\ closing \in [on : BOOLEAN, left : SUBSET Plugins]
  /\ restarts \in Nat

OneOrder ==
  /\ \A c \in Callers : Ordering(c) => Of(c) \in Plugins /\ busy[Of(c)]
  /\ \A c, b \in Callers : Ordering(c) /\ Ordering(b) /\ Of(c) = Of(b) => c = b

\* What an order under way may count on.
OrderStands(c) ==
  /\ call[c].op \in {"enable", "disable"} => status[Of(c)] # "enabled"
  /\ InCall(c, "enable", "persist") => call[c].as = "enabled"
  /\ InCall(c, "enable", "dir") \/ InCall(c, "enable", "hook") => ledger[Of(c)] = "enabled"
  /\ call[c].op = "config" => (status[Of(c)] = "enabled" => call[c].as = "enabled")
  /\ InCall(c, "disable", "dispose") => inflight[Of(c)] \subseteq cancelled
OrdersStand == \A c \in Callers : OrderStands(c)

CloseStands == \A p \in Plugins : drain[p] = "closing" => closing.on

HostInv == HostTyped /\ OneOrder /\ OrdersStand /\ CloseStands /\ EnabledIsDurable

LEMMA HostBase == PluginInit => HostInv
<1> SUFFICES ASSUME PluginInit PROVE HostInv
  OBVIOUS
<1>1. HostTyped
  BY DEF PluginInit, HostTyped, CallStates, Statuses, NoCall, NotClosing
<1>2. OneOrder /\ OrdersStand /\ CloseStands /\ EnabledIsDurable
  BY DEF PluginInit, OneOrder, OrdersStand, OrderStands, CloseStands, EnabledIsDurable, Ordering, InCall, NoCall
<1> QED
  BY <1>1, <1>2 DEF HostInv

\* An order begins, and takes the busy mark that nobody has.
LEMMA OrderBegins ==
  ASSUME HostInv, NEW c \in Callers, NEW p \in Plugins, NEW op, NEW step, NEW as,
         Begins(c, op, p, step, as),
         [op |-> op, step |-> step, plugin |-> p, as |-> as] \in CallStates
  PROVE  /\ call' \in [Callers -> CallStates] /\ busy' \in [Plugins -> BOOLEAN]
         /\ OneOrder'
         /\ call'[c] = [op |-> op, step |-> step, plugin |-> p, as |-> as]
         /\ \A b \in Callers \ {c} : call'[b] = call[b] /\ (Ordering(b) => Of(b) # p)
<1> USE DEF Begins
<1>1. call \in [Callers -> CallStates] /\ busy \in [Plugins -> BOOLEAN]
  BY DEF HostInv, HostTyped
<1>2. \A b \in Callers : Ordering(b) => Of(b) # p
  BY DEF HostInv, OneOrder
<1>3. call' \in [Callers -> CallStates] /\ busy' \in [Plugins -> BOOLEAN]
      /\ call'[c] = [op |-> op, step |-> step, plugin |-> p, as |-> as]
      /\ \A b \in Callers \ {c} : call'[b] = call[b]
  BY <1>1
<1>4. OneOrder'
  BY <1>1, <1>2, <1>3 DEF HostInv, OneOrder, Ordering, Of
<1> QED
  BY <1>2, <1>3, <1>4

\* An order goes on to its next step.
LEMMA OrderGoesOn ==
  ASSUME HostInv, NEW c \in Callers, Ordering(c), UNCHANGED busy,
         NEW step \in {"idle", "persist", "dir", "hook", "rollback", "drain", "dispose"},
         NEW as \in Statuses \cup {"none"}, Step(c, step, as)
  PROVE  /\ call' \in [Callers -> CallStates] /\ OneOrder'
         /\ call'[c] = [op |-> call[c].op, step |-> step, plugin |-> Of(c), as |-> as]
         /\ \A b \in Callers \ {c} : call'[b] = call[b] /\ (Ordering(b) => Of(b) # Of(c))
<1> USE DEF Step
<1>1. call \in [Callers -> CallStates]
  BY DEF HostInv, HostTyped
<1>2. call' \in [Callers -> CallStates] /\ \A b \in Callers \ {c} : call'[b] = call[b]
  BY <1>1 DEF CallStates
<1>3. call'[c] = [op |-> call[c].op, step |-> step, plugin |-> Of(c), as |-> as]
  BY <1>1 DEF CallStates, Of
<1>4. OneOrder' /\ \A b \in Callers \ {c} : Ordering(b) => Of(b) # Of(c)
  BY <1>2, <1>3 DEF HostInv, OneOrder, Ordering, Of
<1> QED
  BY <1>2, <1>3, <1>4

\* An order ends, and the busy mark is given back.
LEMMA OrderEnds ==
  ASSUME HostInv, NEW c \in Callers, Ordering(c), Return(c)
  PROVE  /\ call' \in [Callers -> CallStates] /\ busy' \in [Plugins -> BOOLEAN]
         /\ OneOrder' /\ Of(c) \in Plugins
         /\ call'[c] = NoCall
         /\ \A b \in Callers \ {c} : call'[b] = call[b] /\ (Ordering(b) => Of(b) # Of(c))
<1> USE DEF Return
<1>1. call \in [Callers -> CallStates] /\ busy \in [Plugins -> BOOLEAN] /\ NoCall \in CallStates
  BY DEF HostInv, HostTyped, CallStates, NoCall
<1>2. \A b \in Callers \ {c} : call'[b] = call[b] /\ (Ordering(b) => Of(b) # Of(c))
  BY <1>1 DEF HostInv, OneOrder
<1>3. call' \in [Callers -> CallStates] /\ busy' \in [Plugins -> BOOLEAN]
      /\ call'[c] = NoCall /\ Of(c) \in Plugins
  BY <1>1 DEF HostInv, OneOrder
<1>4. OneOrder'
  BY <1>1, <1>2, <1>3 DEF HostInv, OneOrder, Ordering, Of, NoCall
<1> QED
  BY <1>2, <1>3, <1>4

\* What one order does to its plugin is no matter for the others.
LEMMA OthersStand ==
  ASSUME HostInv, NEW c \in Callers,
         \A b \in Callers \ {c} : call'[b] = call[b] /\ (Ordering(b) => Of(b) # Of(c)),
         \A q \in Plugins \ {Of(c)} :
           status'[q] = status[q] /\ ledger'[q] = ledger[q] /\ inflight'[q] = inflight[q],
         cancelled \subseteq cancelled', OrderStands(c)'
  PROVE  OrdersStand'
<1>1. ASSUME NEW b \in Callers \ {c} PROVE OrderStands(b)'
  <2>1. CASE Ordering(b)
    <3>1. call'[b] = call[b] /\ Of(b) \in Plugins \ {Of(c)} /\ OrderStands(b)
      BY <1>1, <2>1 DEF HostInv, OneOrder, OrdersStand
    <3> QED
      BY <3>1 DEF OrderStands, InCall, Of
  <2>2. CASE ~Ordering(b)
    BY <1>1, <2>2 DEF OrderStands, InCall, Ordering
  <2> QED
    BY <2>1, <2>2
<1> QED
  BY <1>1 DEF OrdersStand

LEMMA OrderStep ==
  ASSUME HostInv, NEW c \in Callers, NEW p \in Plugins,
         enable(c, p) \/ disable(c, p) \/ setConfig(c, p)
  PROVE  HostInv'
<1>1. status \in [Plugins -> Statuses]
  BY DEF HostInv, HostTyped
<1>2. CASE enable(c, p)
  <2> USE <1>2 DEF enable
  <2>1. [op |-> "enable", step |-> "persist", plugin |-> p, as |-> "enabled"] \in CallStates
    BY DEF CallStates, Statuses
  <2> USE <2>1, OrderBegins
  <2>2. HostTyped' /\ OneOrder'
    BY DEF HostInv, HostTyped, activityVars
  <2>3. OrdersStand'
    BY DEF HostInv, OrdersStand, OrderStands, InCall, Of, Ordering, activityVars
  <2> QED
    BY <2>2, <2>3 DEF HostInv, CloseStands, EnabledIsDurable
<1>3. CASE disable(c, p)
  <2> USE <1>3 DEF disable
  <2>1. [op |-> "disable", step |-> "drain", plugin |-> p, as |-> "none"] \in CallStates
    BY DEF CallStates
  <2> USE <2>1, OrderBegins
  <2>2. HostTyped' /\ OneOrder'
    BY DEF HostInv, HostTyped, Statuses, activityVars
  <2>3. OrdersStand'
    BY DEF HostInv, HostTyped, OrdersStand, OrderStands, InCall, Of, Ordering, activityVars
  <2> QED
    BY <2>2, <2>3 DEF HostInv, HostTyped, CloseStands, EnabledIsDurable
<1>4. CASE setConfig(c, p)
  <2> USE <1>4 DEF setConfig
  <2>1. [op |-> "config", step |-> "persist", plugin |-> p, as |-> status[p]] \in CallStates
    BY <1>1 DEF CallStates
  <2> USE <2>1, OrderBegins
  <2>2. HostTyped' /\ OneOrder'
    BY DEF HostInv, HostTyped, activityVars
  <2>3. OrdersStand'
    BY DEF HostInv, OrdersStand, OrderStands, InCall, Of, Ordering, activityVars
  <2> QED
    BY <2>2, <2>3 DEF HostInv, CloseStands, EnabledIsDurable
<1> QED
  BY <1>2, <1>3, <1>4

LEMMA EnableSteps ==
  ASSUME HostInv, NEW c \in Callers,
         EnablePersisted(c) \/ EnableDir(c) \/ EnableHooked(c) \/ EnableRolledBack(c)
  PROVE  HostInv'
<1> USE DEF activityVars
<1>1. Ordering(c)
  BY DEF EnablePersisted, EnableDir, EnableHooked, EnableRolledBack, InCall, Ordering
<1>2. Of(c) \in Plugins /\ call[c].as \in Statuses \cup {"none"} /\ call[c].op = "enable"
      /\ status[Of(c)] # "enabled" /\ status \in [Plugins -> Statuses]
  BY <1>1 DEF HostInv, HostTyped, OneOrder, OrdersStand, OrderStands, CallStates,
     EnablePersisted, EnableDir, EnableHooked, EnableRolledBack, InCall
<1>3. CASE EnablePersisted(c)
  <2> USE <1>1, <1>2, <1>3 DEF EnablePersisted
  <2>1. call[c].as = "enabled"
    BY DEF HostInv, OrdersStand, OrderStands
  <2>2. CASE Refused(c) /\ UNCHANGED ledger
    <3> USE <2>2, OrderEnds DEF Refused
    <3>1. HostTyped' /\ OneOrder'
      BY DEF HostInv, HostTyped
    <3>2. OrdersStand'
      BY DEF HostInv, OrdersStand, OrderStands, InCall, Of, Ordering, NoCall
    <3> QED
      BY <3>1, <3>2 DEF HostInv, CloseStands, EnabledIsDurable
  <2>3. CASE Persists(c) /\ Step(c, "dir", "none") /\ UNCHANGED busy
    <3>1. /\ call' \in [Callers -> CallStates] /\ OneOrder'
          /\ call'[c] = [op |-> "enable", step |-> "dir", plugin |-> Of(c), as |-> "none"]
          /\ \A b \in Callers \ {c} : call'[b] = call[b] /\ (Ordering(b) => Of(b) # Of(c))
      BY <2>3, OrderGoesOn
    <3>2. HostTyped'
      BY <2>1, <2>3, <3>1 DEF HostInv, HostTyped, Persists, Statuses
    <3>3. ledger'[Of(c)] = "enabled" /\ \A q \in Plugins \ {Of(c)} : ledger'[q] = ledger[q]
      BY <2>1, <2>3 DEF HostInv, HostTyped, Persists
    <3>4. OrderStands(c)'
      BY <3>1, <3>3 DEF OrderStands, InCall, Of
    <3>5. OrdersStand'
      BY <3>1, <3>3, <3>4, OthersStand
    <3>6. EnabledIsDurable'
      BY <3>3 DEF HostInv, EnabledIsDurable
    <3> QED
      BY <3>1, <3>2, <3>5, <3>6 DEF HostInv, CloseStands
  <2> QED
    BY <2>2, <2>3
<1>4. CASE EnableDir(c)
  <2> USE <1>1, <1>2, <1>4 DEF EnableDir
  <2>1. CASE Return(c)
    <3> USE <2>1, OrderEnds
    <3>1. HostTyped' /\ OneOrder'
      BY DEF HostInv, HostTyped
    <3>2. OrdersStand'
      BY DEF HostInv, OrdersStand, OrderStands, InCall, Of, Ordering, NoCall
    <3> QED
      BY <3>1, <3>2 DEF HostInv, CloseStands, EnabledIsDurable
  <2>2. CASE Step(c, "hook", "none") /\ UNCHANGED busy
    <3>1. /\ call' \in [Callers -> CallStates] /\ OneOrder'
          /\ call'[c] = [op |-> "enable", step |-> "hook", plugin |-> Of(c), as |-> "none"]
          /\ \A b \in Callers \ {c} : call'[b] = call[b] /\ (Ordering(b) => Of(b) # Of(c))
      BY <2>2, OrderGoesOn
    <3>2. HostTyped'
      BY <2>2, <3>1 DEF HostInv, HostTyped
    <3>3. OrderStands(c)'
      BY <2>2, <3>1 DEF HostInv, OrdersStand, OrderStands, InCall, Of
    <3>4. OrdersStand'
      BY <3>1, <3>3, OthersStand
    <3> QED
      BY <3>1, <3>2, <3>4 DEF HostInv, CloseStands, EnabledIsDurable
  <2> QED
    BY <2>1, <2>2
<1>5. CASE EnableHooked(c)
  <2> USE <1>1, <1>2, <1>5 DEF EnableHooked
  <2>1. ledger[Of(c)] = "enabled"
    BY DEF HostInv, OrdersStand, OrderStands
  <2>2. CASE Step(c, "rollback", status[Of(c)]) /\ UNCHANGED <<status, disposed, busy, running>>
    <3>1. status[Of(c)] \in Statuses \cup {"none"}
      OBVIOUS
    <3>2. /\ call' \in [Callers -> CallStates] /\ OneOrder'
          /\ call'[c] = [op |-> "enable", step |-> "rollback", plugin |-> Of(c), as |-> status[Of(c)]]
          /\ \A b \in Callers \ {c} : call'[b] = call[b] /\ (Ordering(b) => Of(b) # Of(c))
      BY <2>2, <3>1, OrderGoesOn
    <3>3. HostTyped'
      BY <2>2, <3>2 DEF HostInv, HostTyped
    <3>4. OrderStands(c)'
      BY <2>2, <3>2 DEF OrderStands, InCall, Of
    <3>5. OrdersStand'
      BY <2>2, <3>2, <3>4, OthersStand
    <3> QED
      BY <2>2, <3>2, <3>3, <3>5 DEF HostInv, CloseStands, EnabledIsDurable
  <2>3. CASE Enabled(c) /\ Return(c) /\ running' = [running EXCEPT ![Of(c)] = TRUE]
    <3> USE <2>1, <2>3, OrderEnds DEF Enabled
    <3>1. HostTyped' /\ OneOrder'
      BY DEF HostInv, HostTyped, Statuses
    <3>2. status'[Of(c)] = "enabled" /\ \A q \in Plugins \ {Of(c)} : status'[q] = status[q]
      OBVIOUS
    <3>3. OrdersStand'
      <4>1. OrderStands(c)'
        BY DEF OrderStands, InCall, NoCall
      <4> QED
        BY <3>2, <4>1, OthersStand
    <3>4. EnabledIsDurable'
      BY <3>2 DEF HostInv, EnabledIsDurable
    <3> QED
      BY <3>1, <3>3, <3>4 DEF HostInv, CloseStands
  <2> QED
    BY <2>2, <2>3
<1>6. CASE EnableRolledBack(c)
  <2> USE <1>1, <1>2, <1>6, OrderEnds DEF EnableRolledBack, Persists
  <2>1. HostTyped' /\ OneOrder'
    BY DEF HostInv, HostTyped
  <2>2. \A q \in Plugins \ {Of(c)} : ledger'[q] = ledger[q]
    BY DEF HostInv, HostTyped
  <2>3. OrdersStand'
    BY <2>2 DEF HostInv, OneOrder, OrdersStand, OrderStands, InCall, Of, Ordering, NoCall
  <2>4. EnabledIsDurable'
    BY <2>2 DEF HostInv, EnabledIsDurable
  <2> QED
    BY <2>1, <2>3, <2>4 DEF HostInv, CloseStands
<1> QED
  BY <1>3, <1>4, <1>5, <1>6

LEMMA DisableSteps ==
  ASSUME HostInv, NEW c \in Callers,
         DrainEnds(c) \/ DisableDisposes(c) \/ DisablePersisted(c) \/ ConfigPersisted(c)
  PROVE  HostInv'
<1> USE DEF activityVars, entryVars
<1>1. Ordering(c) /\ Of(c) \in Plugins /\ call[c].as \in Statuses \cup {"none"}
      /\ status \in [Plugins -> Statuses]
      /\ ledger \in [Plugins -> Statuses \cup {"none"}]
  BY DEF DrainEnds, DisableDisposes, DisablePersisted, ConfigPersisted, InCall, Ordering,
     HostInv, HostTyped, OneOrder, CallStates
<1>2. CASE DrainEnds(c)
  <2> USE <1>1, <1>2 DEF DrainEnds
  <2>1. cancelled \subseteq cancelled' /\ inflight[Of(c)] \subseteq cancelled'
    BY DEF Drained
  <2>2. call[c].op = "disable" /\ status[Of(c)] # "enabled"
    BY DEF InCall, HostInv, OrdersStand, OrderStands
  <2>3. /\ call' \in [Callers -> CallStates] /\ OneOrder'
        /\ call'[c] = [op |-> "disable", step |-> "dispose", plugin |-> Of(c), as |-> "none"]
        /\ \A b \in Callers \ {c} : call'[b] = call[b] /\ (Ordering(b) => Of(b) # Of(c))
    BY <2>2, OrderGoesOn
  <2>4. HostTyped'
    BY <2>3 DEF HostInv, HostTyped
  <2>5. OrderStands(c)'
    BY <2>1, <2>2, <2>3 DEF OrderStands, InCall, Of
  <2>6. OrdersStand'
    BY <2>1, <2>3, <2>5, OthersStand
  <2>7. CloseStands'
    BY DEF HostInv, HostTyped, CloseStands
  <2> QED
    BY <2>3, <2>4, <2>6, <2>7 DEF HostInv, EnabledIsDurable
<1>3. CASE DisableDisposes(c)
  <2> USE <1>1, <1>3 DEF DisableDisposes, Dispose
  <2>1. call[c].op = "disable" /\ status[Of(c)] # "enabled"
    BY DEF InCall, HostInv, OrdersStand, OrderStands
  <2>2. "disabled" \in Statuses \cup {"none"}
    BY DEF Statuses
  <2>3. /\ call' \in [Callers -> CallStates] /\ OneOrder'
        /\ call'[c] = [op |-> "disable", step |-> "persist", plugin |-> Of(c), as |-> "disabled"]
        /\ \A b \in Callers \ {c} : call'[b] = call[b] /\ (Ordering(b) => Of(b) # Of(c))
    BY <2>1, <2>2, OrderGoesOn
  <2>4. HostTyped'
    BY <2>3 DEF HostInv, HostTyped
  <2>5. OrderStands(c)'
    BY <2>1, <2>3 DEF OrderStands, InCall, Of
  <2>6. OrdersStand'
    BY <2>3, <2>5, OthersStand
  <2> QED
    BY <2>3, <2>4, <2>6 DEF HostInv, CloseStands, EnabledIsDurable
<1>4. CASE DisablePersisted(c) \/ ConfigPersisted(c)
  <2> USE <1>1, <1>4, OrderEnds DEF DisablePersisted, ConfigPersisted
  <2>1. Return(c) /\ UNCHANGED <<status, running, disposed, activityVars, closing, drain, restarts>>
        /\ (Persists(c) \/ UNCHANGED ledger)
    OBVIOUS
  <2>0. status[Of(c)] = "enabled" => call[c].as = "enabled"
    BY DEF InCall, HostInv, OrdersStand, OrderStands
  <2>2. /\ \A q \in Plugins \ {Of(c)} : ledger'[q] = ledger[q]
        /\ status[Of(c)] = "enabled" => ledger'[Of(c)] \in {ledger[Of(c)], "enabled"}
        /\ ledger' \in [Plugins -> Statuses \cup {"none"}]
    BY <2>0, <2>1 DEF Persists
  <2>3. HostTyped' /\ OneOrder'
    BY <2>1, <2>2 DEF HostInv, HostTyped
  <2>4. OrdersStand'
    BY <2>1, <2>2 DEF HostInv, OneOrder, OrdersStand, OrderStands, InCall, Of, Ordering, NoCall
  <2>5. EnabledIsDurable'
    BY <2>1, <2>2 DEF HostInv, EnabledIsDurable
  <2> QED
    BY <2>1, <2>3, <2>4, <2>5 DEF HostInv, CloseStands
<1> QED
  BY <1>2, <1>3, <1>4

LEMMA PluginSteps ==
  ASSUME HostInv, NEW p \in Plugins,
         DeadlinePasses(p) \/ CloseVisits(p) \/ CloseDisposes(p)
         \/ \E a \in Activities : beginActivity(p, a) \/ endActivity(p, a)
  PROVE  HostInv'
<1> USE DEF activityVars, entryVars, Dispose
<1>1. CASE DeadlinePasses(p)
  <2>1. HostTyped' /\ CloseStands'
    BY <1>1 DEF DeadlinePasses, HostInv, HostTyped, CloseStands
  <2> QED
    BY <1>1, <2>1 DEF DeadlinePasses, HostInv, OneOrder, OrdersStand, OrderStands, EnabledIsDurable, InCall, Of, Ordering
<1>2. CASE CloseVisits(p)
  <2>1. HostTyped' /\ CloseStands'
    BY <1>2 DEF CloseVisits, HostInv, HostTyped, CloseStands, Statuses
  <2>2. \A q \in Plugins : status'[q] = "enabled" => status[q] = "enabled"
    BY <1>2 DEF CloseVisits, HostInv, HostTyped
  <2>3. OneOrder' /\ OrdersStand'
    BY <1>2, <2>2 DEF CloseVisits, HostInv, OneOrder, OrdersStand, OrderStands, InCall, Of, Ordering
  <2> QED
    BY <1>2, <2>1, <2>2, <2>3 DEF CloseVisits, HostInv, EnabledIsDurable
<1>3. CASE CloseDisposes(p)
  <2>1. HostTyped' /\ CloseStands'
    BY <1>3 DEF CloseDisposes, HostInv, HostTyped, CloseStands
  <2> QED
    BY <1>3, <2>1 DEF CloseDisposes, HostInv, OneOrder, OrdersStand, OrderStands, EnabledIsDurable, InCall, Of, Ordering
<1>4. ASSUME NEW a \in Activities, beginActivity(p, a) \/ endActivity(p, a) PROVE HostInv'
  <2> USE <1>4 DEF beginActivity, endActivity
  <2>1. HostTyped'
    BY DEF HostInv, HostTyped
  <2>2. \A q \in Plugins : status[q] # "enabled" => inflight'[q] \subseteq inflight[q]
    BY DEF isAccepting, HostInv, HostTyped
  <2>3. OrdersStand'
    BY <2>2 DEF HostInv, OneOrder, OrdersStand, OrderStands, InCall, Of, Ordering
  <2> QED
    BY <2>1, <2>3 DEF HostInv, OneOrder, CloseStands, EnabledIsDurable, Of, Ordering
<1> QED
  BY <1>1, <1>2, <1>3, <1>4

LEMMA RebornStep == HostInv /\ (close \/ Reborn) => HostInv'
<1> SUFFICES ASSUME HostInv, close \/ Reborn PROVE HostInv'
  OBVIOUS
<1>1. CASE close
  BY <1>1 DEF close, HostInv, HostTyped, OneOrder, OrdersStand, OrderStands, CloseStands, EnabledIsDurable,
     InCall, Of, Ordering, entryVars, activityVars
<1>2. CASE Reborn
  <2> USE <1>2 DEF Reborn, restore
  <2>1. HostTyped'
    BY DEF HostInv, HostTyped, CallStates, NoCall, NotClosing, Statuses, Restored
  <2>2. OneOrder' /\ OrdersStand' /\ CloseStands'
    BY DEF OneOrder, OrdersStand, OrderStands, CloseStands, InCall, Ordering, NoCall
  <2>3. EnabledIsDurable'
    BY DEF EnabledIsDurable, Restored
  <2> QED
    BY <2>1, <2>2, <2>3 DEF HostInv
<1> QED
  BY <1>1, <1>2

LEMMA HostStep == HostInv /\ PluginNext => HostInv'
  BY OrderStep, EnableSteps, DisableSteps, PluginSteps, RebornStep DEF PluginNext, CallSteps

\* Only two steps end a runtime, and each has cancelled what is in flight.
LEMMA DisposeStep ==
  ASSUME HostInv, PluginNext, NEW p \in Plugins, running[p], ~running'[p], restarts' = restarts
  PROVE  inflight'[p] \subseteq cancelled' /\ (status'[p] # "enabled" \/ closing.on)
<1> USE DEF entryVars, activityVars
<1>1. running \in [Plugins -> BOOLEAN] /\ restarts \in Nat
  BY DEF HostInv, HostTyped
<1>2. \/ \E c \in Callers : DisableDisposes(c) /\ Of(c) = p
      \/ CloseDisposes(p)
  <2>1. ~Reborn
    BY <1>1 DEF Reborn
  <2>2. \A c \in Callers : InCall(c, "disable", "dispose") => Of(c) \in Plugins
    BY DEF HostInv, OneOrder, Ordering, InCall
  <2> QED
    BY <1>1, <2>1, <2>2 DEF PluginNext, CallSteps, beginActivity, endActivity, enable, disable, setConfig,
       EnablePersisted, EnableDir, EnableHooked, EnableRolledBack, DrainEnds, DisableDisposes,
       DisablePersisted, ConfigPersisted, DeadlinePasses, CloseVisits, CloseDisposes, close, Dispose
<1>3. CASE \E c \in Callers : DisableDisposes(c) /\ Of(c) = p
  BY <1>3 DEF DisableDisposes, HostInv, OrdersStand, OrderStands, InCall
<1>4. CASE CloseDisposes(p)
  BY <1>4 DEF CloseDisposes, HostInv, CloseStands
<1> QED
  BY <1>2, <1>3, <1>4

(***************************************************************************)
(* The fabric host.  Where a start stands says which instance of its own   *)
(* may be up: none before it has opened one, that one while it goes on,    *)
(* and none after it has failed.                                           *)
(***************************************************************************)
TablesTyped ==
  /\ servers = [p \in Peers |-> servers[p]]
  /\ sessions = [p \in Peers |-> sessions[p]]

Opened == up \cap byStart
StartStands ==
  /\ fabrics \in Nat /\ byStart \subseteq 1..fabrics
  /\ start \in [step : {"none", "open", "check", "members"}, fab : Nat]
  /\ start.step = "open" => Opened = {}
  /\ start.step \in {"check", "members"} => Opened \subseteq {start.fab}
  /\ start.step = "none" /\ phase \notin {"started", "closed"} => Opened = {}
  /\ start.step = "none" => \E i \in Nat : Opened \subseteq {i}

FabricInv == TablesTyped /\ StartStands /\ NothingAfterClose

LEMMA FabricBase == FabricInit => FabricInv
  BY DEF FabricInit, FabricInv, TablesTyped, StartStands, NothingAfterClose, Opened, NotStarting

\* At most one instance of a start is up, wherever the start stands.
LEMMA OneStartFollows == FabricInv => OneStart
<1> SUFFICES ASSUME FabricInv PROVE OneStart
  OBVIOUS
<1>1. PICK i \in Nat : Opened \subseteq {i}
  BY DEF FabricInv, StartStands
<1>2. Opened = {} \/ Opened = {i}
  BY <1>1
<1>3. Cardinality({}) = 0 /\ Cardinality({i}) = 1
  BY FS_EmptySet, FS_Singleton
<1> QED
  BY <1>2, <1>3 DEF OneStart, Opened

\* Steps that only take instances down and leave the start alone.
LEMMA StartUntouched ==
  ASSUME StartStands, UNCHANGED <<byStart, fabrics, start>>, up' \subseteq up,
         phase' \in {phase, "started", "closed"}
  PROVE  StartStands'
  BY DEF StartStands, Opened

\* A start that has ended with nothing of its own up; one that goes on with
\* the instance it has opened.
LEMMA NoneStands ==
  ASSUME Opened' = {}, fabrics' \in Nat, byStart' \subseteq 1..fabrics', start' = NotStarting
  PROVE  StartStands'
<1>1. \E i \in Nat : Opened' \subseteq {i}
  <2> WITNESS 0 \in Nat
  <2> QED
    OBVIOUS
<1>2. start'.step = "none" /\ start' \in [step : {"none", "open", "check", "members"}, fab : Nat]
  BY DEF NotStarting
<1> QED
  BY <1>1, <1>2 DEF StartStands

LEMMA RunningStands ==
  ASSUME NEW i \in Nat, NEW step \in {"check", "members"}, Opened' \subseteq {i},
         fabrics' \in Nat, byStart' \subseteq 1..fabrics', start' = [step |-> step, fab |-> i]
  PROVE  StartStands'
<1>1. start'.step = step /\ start'.fab = i /\ start' \in [step : {"none", "open", "check", "members"}, fab : Nat]
  OBVIOUS
<1> QED
  BY <1>1 DEF StartStands

LEMMA StartStep == FabricInv /\ StartSteps => FabricInv'
<1> SUFFICES ASSUME FabricInv, StartSteps PROVE FabricInv'
  OBVIOUS
<1> USE DEF serveVars, sessionVars, StartFails
<1>1. CASE StartOpen
  <2> USE <1>1 DEF StartOpen
  <2>1. TablesTyped' /\ NothingAfterClose'
    BY DEF FabricInv, TablesTyped, NothingAfterClose
  <2>2. fabrics + 1 \notin byStart /\ Opened = {} /\ fabrics \in Nat /\ byStart \subseteq 1..fabrics
    BY DEF FabricInv, StartStands
  <2>3. ASSUME start' = NotStarting PROVE StartStands'
    <3>1. UNCHANGED <<up, byStart>> /\ phase' = "failed" /\ fabrics' \in {fabrics, fabrics + 1}
      BY <2>3 DEF NotStarting
    <3>2. Opened' = {}
      BY <2>2, <3>1 DEF Opened
    <3>3. fabrics' \in Nat /\ byStart' \subseteq 1..fabrics'
      BY <2>2, <3>1
    <3> QED
      BY <2>3, <3>2, <3>3, NoneStands DEF NotStarting
  <2>4. ASSUME start' # NotStarting PROVE StartStands'
    <3>1. /\ up' = up \cup {fabrics'} /\ byStart' = byStart \cup {fabrics'}
          /\ fabrics' = fabrics + 1 /\ start' = [step |-> "check", fab |-> fabrics']
      BY <2>4
    <3>2. Opened' \subseteq {fabrics'}
      BY <2>2, <3>1 DEF Opened
    <3>3. fabrics' \in Nat /\ byStart' \subseteq 1..fabrics'
      BY <2>2, <3>1
    <3> QED
      BY <3>1, <3>2, <3>3, RunningStands
  <2> QED
    BY <2>1, <2>3, <2>4 DEF FabricInv
<1>2. CASE StartCheck
  <2> USE <1>2 DEF StartCheck
  <2>1. TablesTyped' /\ NothingAfterClose'
    BY DEF FabricInv, TablesTyped, NothingAfterClose
  <2>2. Opened \subseteq {start.fab} /\ fabrics' \in Nat /\ byStart' \subseteq 1..fabrics' /\ start.fab \in Nat
    BY DEF FabricInv, StartStands
  <2>3. ASSUME start' = NotStarting PROVE StartStands'
    <3>1. Opened' = {}
      BY <2>2, <2>3 DEF Opened, NotStarting, FabricInv, StartStands
    <3> QED
      BY <2>2, <2>3, <3>1, NoneStands DEF NotStarting
  <2>4. ASSUME start' # NotStarting PROVE StartStands'
    <3>1. Opened' \subseteq {start.fab} /\ start' = [start EXCEPT !.step = "members"]
      BY <2>2, <2>4 DEF Opened
    <3>2. start' = [step |-> "members", fab |-> start.fab]
      BY <3>1 DEF FabricInv, StartStands
    <3> QED
      BY <2>2, <3>1, <3>2, RunningStands
  <2> QED
    BY <2>1, <2>3, <2>4 DEF FabricInv
<1>3. CASE StartMembers
  <2> USE <1>3 DEF StartMembers
  <2>1. TablesTyped' /\ NothingAfterClose'
    BY DEF FabricInv, TablesTyped, NothingAfterClose
  <2>2. StartStands'
    BY DEF FabricInv, StartStands, Opened, NotStarting
  <2> QED
    BY <2>1, <2>2 DEF FabricInv
<1> QED
  BY <1>1, <1>2, <1>3 DEF StartSteps

LEMMA EventStep ==
  ASSUME FabricInv,
         \/ \E p \in Peers : PeerConnected(p) \/ PeerDisconnected(p)
         \/ \E b \in binding : Bound(b)
         \/ \E s \in 1..MaxSessions : SessionEnds(s)
  PROVE  FabricInv'
<1> USE DEF startVars, serveVars, sessionVars
<1>1. UNCHANGED startVars
  BY DEF PeerConnected, PeerDisconnected, Bound, SessionEnds
<1>2. StartStands'
  BY <1>1, StartUntouched DEF FabricInv
<1>3. ASSUME NEW p \in Peers, PeerConnected(p) \/ PeerDisconnected(p) PROVE TablesTyped' /\ NothingAfterClose'
  BY <1>3 DEF PeerConnected, PeerDisconnected, FabricInv, TablesTyped, NothingAfterClose
<1>4. ASSUME NEW b \in binding, Bound(b) PROVE TablesTyped' /\ NothingAfterClose'
  BY <1>4 DEF Bound, StillOpen, FabricInv, TablesTyped, NothingAfterClose
<1>5. ASSUME NEW s \in 1..MaxSessions, SessionEnds(s) PROVE TablesTyped' /\ NothingAfterClose'
  BY <1>5 DEF SessionEnds, evictSession, FabricInv, TablesTyped, NothingAfterClose
<1> QED
  BY <1>2, <1>3, <1>4, <1>5 DEF FabricInv

LEMMA UserStep ==
  ASSUME FabricInv, NEW u \in Users,
         UserSteps(u) \/ joinWithToken(u) \/ Close(u) \/ \E p \in Peers : sessionResolver(u, p)
  PROVE  FabricInv'
<1> USE DEF startVars, serveVars, sessionVars, FabricInv
<1>1. CASE ensureStarted(u)
  <2> USE <1>1 DEF ensureStarted
  <2>1. TablesTyped' /\ NothingAfterClose'
    BY DEF TablesTyped, NothingAfterClose
  <2>2. UNCHANGED <<up, byStart, fabrics>>
    OBVIOUS
  <2>3. CASE UNCHANGED <<phase, start>>
    BY <2>1, <2>2, <2>3, StartUntouched
  <2>4. CASE start' # start
    <3>1. start.step = "none" /\ phase \notin {"started", "closed"} /\ start' = [step |-> "open", fab |-> 0]
      BY <2>4 DEF Starting
    <3>2. Opened' = {} /\ fabrics' \in Nat /\ byStart' \subseteq 1..fabrics'
      BY <2>2, <3>1 DEF Opened, StartStands
    <3> QED
      BY <2>1, <3>1, <3>2 DEF StartStands
  <2>5. CASE start' = start /\ phase' # phase
    BY <2>5 DEF Starting, StartStands
  <2> QED
    BY <2>1, <2>3, <2>4, <2>5
<1>2. CASE Look(u)
  BY <1>2, StartUntouched DEF Look, TablesTyped, NothingAfterClose
<1>3. CASE StateKnown(u)
  BY <1>3, StartUntouched DEF StateKnown, evictSession, TablesTyped, NothingAfterClose
<1>4. CASE Dialled(u)
  BY <1>4, StartUntouched DEF Dialled, TablesTyped, NothingAfterClose
<1>5. CASE Joined(u)
  <2> USE <1>5 DEF Joined, Teardown
  <2>1. TablesTyped' /\ NothingAfterClose'
    BY DEF TablesTyped, NothingAfterClose
  <2>2. Opened' \subseteq Opened /\ fabrics' \in Nat /\ fabrics' >= fabrics /\ UNCHANGED <<phase, byStart, start>>
    BY DEF StartStands, Opened
  <2>3. StartStands'
    BY <2>2 DEF StartStands
  <2> QED
    BY <2>1, <2>3
<1>6. CASE TakenOver(u)
  BY <1>6, StartUntouched DEF TakenOver, TablesTyped, NothingAfterClose
<1>7. CASE JoinStarted(u)
  BY <1>7, StartUntouched DEF JoinStarted, TablesTyped, NothingAfterClose
<1>8. CASE Closed(u)
  BY <1>8, StartUntouched DEF Closed, TablesTyped, NothingAfterClose
<1>9. CASE joinWithToken(u)
  BY <1>9, StartUntouched DEF joinWithToken, TablesTyped, NothingAfterClose
<1>10. CASE Close(u)
  BY <1>10, StartUntouched DEF Close, Teardown, TablesTyped, NothingAfterClose
<1>11. ASSUME NEW p \in Peers, sessionResolver(u, p) PROVE FabricInv'
  BY <1>11, StartUntouched DEF sessionResolver, TablesTyped, NothingAfterClose
<1> QED
  BY <1>1, <1>2, <1>3, <1>4, <1>5, <1>6, <1>7, <1>8, <1>9, <1>10, <1>11 DEF UserSteps

LEMMA FabricStep == FabricInv /\ FabricNext => FabricInv'
  BY StartStep, EventStep, UserStep DEF FabricNext

(***************************************************************************)
(* The whole: a step of one part, the others asleep.                       *)
(***************************************************************************)
WebInv == NodesInv /\ HostInv /\ FabricInv

LEMMA NodesAsleep ==
  ASSUME NodesInv, UNCHANGED sidecarVars PROVE NodesInv'
  BY DEF NodesInv, BookTyped, LocksHeld, ChecksStand, CodesFresh, NodesHold, OneNodePerCode,
     CurrentIsStored, In, Mutates, Adds, sidecarVars, targetVars, bookVars, codeVars

LEMMA HostAsleep ==
  ASSUME HostInv, UNCHANGED pluginVars PROVE HostInv'
  BY DEF HostInv, HostTyped, OneOrder, OrdersStand, OrderStands, CloseStands, EnabledIsDurable,
     InCall, Of, Ordering, pluginVars

LEMMA FabricAsleep ==
  ASSUME FabricInv, UNCHANGED fabricVars PROVE FabricInv'
  BY DEF FabricInv, TablesTyped, StartStands, NothingAfterClose, Opened, fabricVars, startVars,
     serveVars, sessionVars

LEMMA WebBase == Init => WebInv
  BY NodesBase, HostBase, FabricBase DEF Init, WebInv

LEMMA WebStep == WebInv /\ [Next]_webVars => WebInv'
<1> SUFFICES ASSUME WebInv, [Next]_webVars PROVE WebInv'
  OBVIOUS
<1> USE DEF WebInv
<1>1. CASE SidecarActs
  BY <1>1, NodesStep, HostAsleep, FabricAsleep DEF SidecarActs
<1>2. CASE PluginActs
  BY <1>2, NodesAsleep, HostStep, FabricAsleep DEF PluginActs
<1>3. CASE FabricActs
  BY <1>3, NodesAsleep, HostAsleep, FabricStep DEF FabricActs
<1>4. CASE UNCHANGED webVars
  BY <1>4, NodesAsleep, HostAsleep, FabricAsleep DEF webVars
<1> QED
  BY <1>1, <1>2, <1>3, <1>4 DEF Next

LEMMA WebInductive == Spec => []WebInv
<1> QED
  BY WebBase, WebStep, PTL DEF Spec

\* One code of the terminal adds at most one node and the current node is in
\* the book and in the file, whatever adds, switches, deletes and restarts
\* interleave (sidecar.mjs, nodes.mjs).
THEOREM NodesAlwaysHold == Spec => []NodesHold
<1>1. WebInv => NodesHold
  BY DEF WebInv, NodesInv
<1> QED
  BY <1>1, WebInductive, PTL

\* A plugin that serves is enabled in the ledger, so a restart brings it back
\* (host.mjs).
THEOREM EnabledIsAlwaysDurable == Spec => []EnabledIsDurable
<1>1. WebInv => EnabledIsDurable
  BY DEF WebInv, HostInv
<1> QED
  BY <1>1, WebInductive, PTL

\* Starts are single, and nothing comes back after a close (fabric.mjs).
THEOREM FabricAlwaysHolds == Spec => []FabricHolds
<1>1. WebInv => FabricHolds
  BY OneStartFollows DEF WebInv, FabricInv, FabricHolds
<1> QED
  BY <1>1, WebInductive, PTL

\* A runtime is disposed of only behind a shut gate or a close, and with
\* everything that still ran through it cancelled (host.mjs).
THEOREM AlwaysDrainedBeforeDispose == Spec => DrainedBeforeDispose
<1> DEFINE Drains ==
      \A p \in Plugins : running[p] /\ ~running'[p] /\ restarts' = restarts
        => inflight'[p] \subseteq cancelled' /\ (status'[p] # "enabled" \/ closing.on)
<1>1. WebInv /\ [Next]_webVars => [Drains]_pluginVars
  <2> SUFFICES ASSUME WebInv, [Next]_webVars PROVE Drains \/ UNCHANGED pluginVars
    OBVIOUS
  <2>1. CASE PluginActs
    BY <2>1, DisposeStep DEF PluginActs, WebInv
  <2>2. CASE SidecarActs \/ FabricActs \/ UNCHANGED webVars
    BY <2>2 DEF SidecarActs, FabricActs, webVars
  <2> QED
    BY <2>1, <2>2 DEF Next
<1> QED
  BY <1>1, WebInductive, PTL DEF Spec, DrainedBeforeDispose
=============================================================================
