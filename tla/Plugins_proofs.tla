--------------------------- MODULE Plugins_proofs ---------------------------
(***************************************************************************)
(* Two plugins, for any values of their constants: the relay between the   *)
(* dashboard and the AI providers (AiRelay), then the sync engine          *)
(* (SyncEngine).                                                           *)
(***************************************************************************)
EXTENDS AiRelay, SyncEngine, FiniteSetTheorems, SequenceTheorems, WellFoundedInduction, TLAPS

(***************************************************************************)
(* AiRelay for any set of requests, any ring, limits and number of chunks: *)
(* nothing is lost, repeated or cut off unseen, and the first verdict on   *)
(* an entry stands.                                                        *)
(*                                                                         *)
(* The argument is about one request at a time.  What ties its parts is    *)
(* the answer on its way: a chunk in flight is the piece after the last    *)
(* one written, "last" and a summary are only said of a body that has      *)
(* ended, and an ended body has no writer, so what was said stays true     *)
(* until the loop hears it.  Limits and slots play no part.                *)
(***************************************************************************)
Entries == [live : BOOLEAN, committed : Nat, produced : Nat, served : Nat,
            eof : BOOLEAN, meta : BOOLEAN, terminal : Terminals \cup {"none"}]
Pulls == [at : {"none", "sent", "held", "stirred", "aborted", "answered"},
          answer : {"none", "chunk", "last", "summary", "again", "invalid", "busy", "error"}]
Locals == {"idle", "waiting", "headers", "error", "end", "gone"}
Loops == {"idle", "asking", "loop", "pulling", "confirming", "ended", "failed"}
Handlers == {"off", "arrived", "checked", "counted", "meta", "refused"}
Summaries == {"none", "done", "error", "expired", "cancelled"}
Tasks == {"off", "start", "body", "blocked", "woken", "stop"}

Shapes ==
  /\ local \in [Requests -> Locals] /\ k \in [Requests -> Loops]
  /\ got \in [Requests -> Nat] /\ pull \in [Requests -> Pulls]
  /\ h \in [Requests -> Handlers] /\ e \in [Requests -> Entries]
  /\ summary \in [Requests -> Summaries] /\ u \in [Requests -> Tasks]

Cursor(r) ==
  /\ e[r].committed <= got[r] /\ got[r] <= e[r].served /\ e[r].served <= e[r].produced
  /\ e[r].produced - e[r].committed <= Ring

\* All of the body was written to the local client.
AllWritten(r) == e[r].eof /\ got[r] = e[r].produced

\* An answer on its way says what is so, whatever happens before it is taken.
AnswerStands(r) == pull[r].at = "answered" =>
  /\ pull[r].answer \in {"chunk", "last"} => e[r].served = got[r] + 1
  /\ pull[r].answer = "last" => e[r].eof /\ e[r].produced = got[r] + 1
  /\ pull[r].answer = "summary" => AllWritten(r)

\* The loop reports an end, and the relay a "done", of what was all written.
EndStands(r) ==
  /\ k[r] \in {"confirming", "ended"} => AllWritten(r)
  /\ summary[r] = "done" => AllWritten(r)
  /\ e[r].eof => u[r] = "stop"

VerdictKept(r) ==
  /\ summary[r] \in {"none", "expired", e[r].terminal}
  /\ e[r].live => ~Settled(r)

\* Before relay.create there is nothing of the request but its handler.
Early(r) == local[r] = "idle" \/ h[r] \in {"arrived", "checked", "counted"}
Unborn(r) ==
  /\ Early(r) => e[r] = NoEntry /\ got[r] = 0 /\ u[r] = "off" /\ r \notin locking
  /\ local[r] = "idle" => h[r] = "off"

Sound(r) == Cursor(r) /\ AnswerStands(r) /\ EndStands(r) /\ VerdictKept(r) /\ Unborn(r)
RelayInv == Shapes /\ \A r \in Requests : Sound(r)

AtRest(r) ==
  /\ local'[r] = local[r] /\ k'[r] = k[r] /\ got'[r] = got[r] /\ pull'[r] = pull[r]
  /\ h'[r] = h[r] /\ e'[r] = e[r] /\ summary'[r] = summary[r] /\ u'[r] = u[r]
  /\ (r \in locking') = (r \in locking)
Step(r) == Consumer(r) \/ Provider(r) \/ Relay(r) \/ Upstream(r) \/ Trouble(r)
Stands(r) == Settled(r) => e'[r].terminal = e[r].terminal

-----------------------------------------------------------------------------
LEMMA Initially == Init => RelayInv
  <1> SUFFICES ASSUME Init PROVE RelayInv
    OBVIOUS
  <1>1. Shapes
    BY DEF Init, Shapes, Locals, Loops, Pulls, NoPull, Handlers, Entries, NoEntry,
       Summaries, Tasks, Terminals
  <1>2. ASSUME NEW r \in Requests PROVE Sound(r)
    BY <1>2, AiAssumption DEF Init, Sound, Cursor, AnswerStands, EndStands, VerdictKept,
       Unborn, Early, NoPull, NoEntry, Settled
  <1> QED
    BY <1>1, <1>2 DEF RelayInv

LEMMA RestKeeps ==
  \A r \in Requests : Sound(r) /\ AtRest(r) => Sound(r)' /\ Stands(r)
  BY DEF Sound, Cursor, AnswerStands, AllWritten, EndStands, VerdictKept, Unborn, Early, Settled,
     AtRest, Stands

\* A step of one request leaves the others at rest.
LEMMA Others ==
  ASSUME Shapes, NEW q \in Requests, NEW r \in Requests, r # q, Step(q)
  PROVE  AtRest(r)
  <1> USE DEF Shapes, AtRest, vars, consumerVars, limitVars, relayVars, upVars
  <1>1. CASE Consumer(q)
    BY <1>1 DEF Consumer, Ask, PullSend, Take, End
  <1>2. CASE Provider(q)
    BY <1>2 DEF Provider, Check, Occupy, Create, AbortLocal, Answer, dropEntry, Close
  <1>3. CASE Pull(q)
    BY <1>3 DEF Pull, decideReady, terminalReplay, Answered, applyTerminal, Close, Open,
       WakeWriter, Freed
  <1>4. CASE HoldOver(q) \/ PullAborted(q)
    BY <1>4 DEF HoldOver, PullAborted, Answered
  <1>7. CASE Cancel(q)
    <2>1. (r \in locking') = (r \in locking)
      BY <1>7 DEF Cancel
    <2> QED
      BY <1>7, <2>1 DEF Cancel
  <1>8. CASE CancelLocked(q)
    <2>1. (r \in locking') = (r \in locking)
      BY <1>8 DEF CancelLocked
    <2> QED
      BY <1>8, <2>1 DEF CancelLocked, applyTerminal, Close, Open, WakeWriter, WakePull
  <1>5. CASE Upstream(q)
    BY <1>5 DEF Upstream, UpMeta, Chunk, UpEnd, UpStop, WakePull
  <1>6. CASE Trouble(q)
    BY <1>6 DEF Trouble, Disconnect, CallFails, PersistFails, UpRefused, Stall, UpFails,
       Expire, SummaryGone, dropEntry, applyTerminal, Close, Open, WakeWriter, WakePull
  <1> QED
    BY <1>1, <1>2, <1>3, <1>4, <1>5, <1>6, <1>7, <1>8 DEF Step, Relay

-----------------------------------------------------------------------------
\* What a step of a request makes of it, action by action.
LEMMA ConsumerKeeps ==
  ASSUME Shapes, NEW r \in Requests, Sound(r), Consumer(r)
  PROVE  Shapes' /\ Sound(r)' /\ Stands(r)
  <1> USE DEF vars, consumerVars, limitVars, relayVars, upVars, Stands
  <1>1. CASE Ask(r)
    <2>1. Shapes'
      BY <1>1 DEF Ask, Shapes, Locals, Loops, Handlers
    <2> QED
      BY <1>1, <2>1 DEF Ask, Shapes, Sound, Cursor, AnswerStands, AllWritten, EndStands,
         VerdictKept, Unborn, Early, Settled, NoEntry
  <1>2. CASE PullSend(r)
    <2>1. Shapes'
      BY <1>2 DEF PullSend, Shapes, Loops, Pulls
    <2> QED
      BY <1>2, <2>1 DEF PullSend, Shapes, Sound, Cursor, AnswerStands, AllWritten, EndStands,
         VerdictKept, Unborn, Early, Settled
  <1>3. CASE Take(r)
    <2> DEFINE a == pull[r].answer
    <2>0. a \in {"none", "chunk", "last", "summary", "again", "invalid", "busy", "error"}
      BY DEF Shapes, Pulls
    <2>1. Shapes'
      BY <1>3 DEF Take, Shapes, Locals, Loops, Pulls, NoPull, LocalError
    <2>2. /\ pull'[r].at # "answered" /\ UNCHANGED <<h, e, summary, u, locking>>
          /\ got'[r] = IF a \in {"chunk", "last"} THEN got[r] + 1 ELSE got[r]
          /\ k'[r] = CASE a \in {"chunk", "again"} -> "loop"
                       [] a \in {"last", "summary"} -> "confirming"
                       [] OTHER -> "failed"
          /\ local'[r] = IF a \in {"error", "busy", "invalid"} THEN LocalError(r) ELSE local[r]
      BY <1>3 DEF Take, Shapes, NoPull
    <2>3. pull[r].at = "answered"
      BY <1>3 DEF Take
    <2>4. local'[r] = "idle" => local[r] = "idle"
      BY <2>2 DEF LocalError
    <2>5. got[r] \in Nat /\ e[r] \in Entries
      BY DEF Shapes
    <2>6. a \in {"chunk", "last"} => e[r].served = got[r] + 1 /\ ~Early(r)
      BY <2>3, <2>5 DEF Sound, AnswerStands, Unborn, NoEntry
    <2>7. Cursor(r)' /\ AnswerStands(r)' /\ Unborn(r)'
      BY <2>2, <2>4, <2>5, <2>6, AiAssumption DEF Entries, Sound, Cursor, AnswerStands, Unborn, Early
    <2>8. a \in {"last", "summary"} => AllWritten(r)'
      BY <2>2, <2>3, <2>5 DEF Sound, AnswerStands, AllWritten
    <2>9. AllWritten(r) => AllWritten(r)'
      BY <2>2, <2>5, <2>6 DEF AllWritten, Sound, Cursor, Entries
    <2>10. EndStands(r)'
      BY <2>0, <2>2, <2>8, <2>9 DEF Sound, EndStands
    <2> QED
      BY <2>1, <2>2, <2>7, <2>10 DEF Sound, VerdictKept, Settled
  <1>4. CASE End(r)
    <2>1. Shapes'
      BY <1>4 DEF End, Shapes, Locals, Loops, Pulls, NoPull, LocalEnd
    <2> QED
      BY <1>4, <2>1 DEF End, LocalEnd, NoPull, Shapes, Sound, Cursor, AnswerStands, AllWritten,
         EndStands, VerdictKept, Unborn, Early, Settled
  <1> QED
    BY <1>1, <1>2, <1>3, <1>4 DEF Consumer

LEMMA ProviderKeeps ==
  ASSUME Shapes, NEW r \in Requests, Sound(r), Provider(r)
  PROVE  Shapes' /\ Sound(r)' /\ Stands(r)
  <1> USE DEF vars, consumerVars, limitVars, relayVars, upVars, Stands
  <1>1. CASE Check(r) \/ Occupy(r)
    <2>1. Shapes'
      BY <1>1 DEF Check, Occupy, Shapes, Handlers
    <2> QED
      BY <1>1, <2>1 DEF Check, Occupy, Shapes, Sound, Cursor, AnswerStands, AllWritten,
         EndStands, VerdictKept, Unborn, Early, Settled
  <1>2. CASE Create(r)
    <2>1. Shapes'
      BY <1>2 DEF Create, Shapes, Handlers, Entries, NoEntry, Tasks, Terminals
    <2>2. /\ e'[r] = [NoEntry EXCEPT !.live = TRUE] /\ u'[r] = "start" /\ h'[r] = "meta"
          /\ UNCHANGED <<local, k, got, pull, summary, locking>>
      BY <1>2 DEF Create, Shapes
    <2>3. e[r] = NoEntry /\ got[r] = 0 /\ local[r] # "idle"
      BY <1>2 DEF Create, Sound, Unborn, Early, Shapes
    <2> QED
      BY <2>1, <2>2, <2>3, AiAssumption DEF Shapes, NoEntry, Sound, Cursor, AnswerStands, AllWritten, EndStands,
         VerdictKept, Unborn, Early, Settled
  <1>3. CASE AbortLocal(r)
    <2>1. Shapes'
      BY <1>3 DEF AbortLocal, dropEntry, Close, Shapes, Handlers, Entries, Terminals
    <2>2. /\ e'[r] = [e[r] EXCEPT !.live = FALSE, !.terminal = "dropped"] /\ h'[r] = "off"
          /\ ~Settled(r) /\ h[r] = "meta" /\ UNCHANGED <<local, k, got, pull, summary, locking, u>>
      BY <1>3 DEF AbortLocal, dropEntry, Close, Shapes
    <2> QED
      BY <2>1, <2>2 DEF Shapes, Entries, Sound, Cursor, AnswerStands, AllWritten, EndStands,
         VerdictKept, Unborn, Early, Settled, Summaries
  <1>4. CASE Answer(r)
    <2>1. Shapes'
      BY <1>4 DEF Answer, Shapes, Handlers, Locals, Loops
    <2> QED
      BY <1>4, <2>1 DEF Answer, Shapes, Sound, Cursor, AnswerStands, AllWritten,
         EndStands, VerdictKept, Unborn, Early, Settled
  <1> QED
    BY <1>1, <1>2, <1>3, <1>4 DEF Provider

\* An entry with a field changed has the other fields of the entry.
LEMMA EntryUpdates ==
  ASSUME NEW x \in Entries, NEW n \in Nat, NEW m \in Nat
  PROVE  /\ LET y == [x EXCEPT !.committed = n, !.served = m]
            IN  y \in Entries
         /\ LET y == [x EXCEPT !.produced = n]
            IN  /\ y \in Entries /\ y.produced = n /\ y.committed = x.committed
                /\ y.served = x.served /\ y.eof = x.eof /\ y.live = x.live
                /\ y.terminal = x.terminal
         /\ LET y == [x EXCEPT !.eof = TRUE]
            IN  /\ y \in Entries /\ y.eof /\ y.produced = x.produced
                /\ y.committed = x.committed /\ y.served = x.served
                /\ y.live = x.live /\ y.terminal = x.terminal
  BY DEF Entries

\* Ending entries keeps the types, and waking whoever waits too.
LEMMA ClosingShape ==
  ASSUME Shapes, NEW R \in SUBSET Requests, NEW kind \in {"done", "error", "expired", "cancelled"}
  PROVE  /\ Close(Open(R), kind) \in [Requests -> Entries]
         /\ [r \in Requests |-> IF r \in Open(R) THEN kind ELSE summary[r]] \in [Requests -> Summaries]
         /\ WakeWriter(R) \in [Requests -> Tasks] /\ WakePull(R) \in [Requests -> Pulls]
  BY DEF Shapes, Close, Entries, Terminals, Summaries, WakeWriter, Tasks, WakePull, Pulls

\* What an end by failure, expiry, cancel or teardown makes of a request.
Ends(r, kind) ==
  /\ IF Settled(r) THEN e'[r] = e[r] /\ summary'[r] = summary[r]
     ELSE e'[r] = [e[r] EXCEPT !.live = FALSE, !.terminal = kind] /\ summary'[r] = kind
  /\ u'[r] = u[r] \/ u'[r] = "stop" \/ (u[r] = "blocked" /\ u'[r] = "woken")
  /\ pull'[r] = pull[r] \/ pull'[r] = [pull[r] EXCEPT !.at = "stirred"]
  /\ local'[r] = local[r] /\ k'[r] = k[r] /\ got'[r] = got[r] /\ h'[r] = h[r]

LEMMA EndingKeeps ==
  ASSUME Shapes, NEW r \in Requests, Sound(r), ~Early(r),
         NEW kind \in {"error", "expired", "cancelled"}, Ends(r, kind)
  PROVE  Sound(r)' /\ Stands(r)
  <1> USE DEF Ends
  <1>1. /\ e'[r].committed = e[r].committed /\ e'[r].produced = e[r].produced
        /\ e'[r].served = e[r].served /\ e'[r].eof = e[r].eof
        /\ e[r].terminal # "none" => e'[r].terminal = e[r].terminal
        /\ summary'[r] \in {"none", "expired", e'[r].terminal}
        /\ summary'[r] = summary[r] \/ summary'[r] # "done"
        /\ e'[r].live => e'[r].terminal = "none"
    <2>0. e[r] \in Entries
      BY DEF Shapes
    <2>1. CASE Settled(r)
      BY <2>0, <2>1 DEF Sound, VerdictKept, Settled
    <2>2. CASE ~Settled(r)
      <3>1. e'[r] = [e[r] EXCEPT !.live = FALSE, !.terminal = kind] /\ summary'[r] = kind
        BY <2>2
      <3> QED
        BY <2>0, <2>2, <3>1 DEF Entries, Settled
    <2> QED
      BY <2>1, <2>2
  <1>2. pull'[r].at = "answered" => pull'[r] = pull[r]
    BY DEF Shapes, Pulls
  <1>3. Cursor(r)' /\ AnswerStands(r)' /\ EndStands(r)'
    BY <1>1, <1>2 DEF Sound, Cursor, AnswerStands, AllWritten, EndStands
  <1>4. VerdictKept(r)' /\ Unborn(r)' /\ Stands(r)
    BY <1>1 DEF Sound, VerdictKept, Settled, Unborn, Early, Stands
  <1> QED
    BY <1>3, <1>4 DEF Sound

\* A pull that finds the entry: what decideReady answers.
LEMMA DecideKeeps ==
  ASSUME Shapes, NEW r \in Requests, Sound(r), e[r].live, ~Early(r),
         decideReady(r, got[r] + 1), UNCHANGED <<consumerVars, h>>
  PROVE  Shapes' /\ Sound(r)' /\ Stands(r)
  <1> DEFINE c == Confirm(r, got[r] + 1)
  <1> USE DEF consumerVars
  <1>0. /\ e[r] \in Entries /\ got[r] \in Nat /\ pull[r] \in Pulls
        /\ summary[r] \in Summaries /\ u[r] \in Tasks /\ Freed(r, got[r] + 1) \subseteq Requests
    BY DEF Shapes, Freed
  <1>1. c = got[r]
    BY <1>0 DEF Confirm, Entries, Sound, Cursor
  <1>2. ~Settled(r) /\ summary[r] \in {"none", "expired"}
    BY DEF Sound, VerdictKept, Settled
  <1>3. \A R : WakeWriter(R)[r] = u[r] \/ u[r] = "blocked"
    BY DEF WakeWriter
  <1>4. CASE e[r].produced > c
    <2>1. /\ e' = [e EXCEPT ![r] = [e[r] EXCEPT !.committed = c, !.served = got[r] + 1]]
          /\ pull' = Answered(r, IF Last(r, got[r] + 1) THEN "last" ELSE "chunk")
          /\ u' = WakeWriter(Freed(r, got[r] + 1)) /\ summary' = summary
      BY <1>0, <1>1, <1>4 DEF decideReady, Served, Confirmed
    <2>2. Shapes'
      <3>1. [e[r] EXCEPT !.committed = c, !.served = got[r] + 1] \in Entries
        <4>1. c \in Nat /\ got[r] + 1 \in Nat
          BY <1>0, <1>1
        <4> HIDE DEF c
        <4> QED
          BY <1>0, <4>1, EntryUpdates
      <3>2. pull' \in [Requests -> Pulls]
        BY <2>1 DEF Shapes, Answered, Pulls
      <3>3. u' \in [Requests -> Tasks]
        BY <2>1 DEF Shapes, WakeWriter, Tasks
      <3> QED
        BY <2>1, <3>1, <3>2, <3>3 DEF Shapes
    <2>3. /\ e'[r] = [e[r] EXCEPT !.committed = got[r], !.served = got[r] + 1]
          /\ pull'[r] = [at |-> "answered", answer |-> IF Last(r, got[r] + 1) THEN "last" ELSE "chunk"]
          /\ u'[r] = u[r] \/ u[r] = "blocked"
      BY <2>1, <1>1, <1>3 DEF Shapes, Answered
    <2>4. Cursor(r)' /\ AnswerStands(r)'
      BY <2>3, <1>0, <1>1, <1>4, AiAssumption DEF Sound, Cursor, AnswerStands, AllWritten, Entries, Last
    <2>5. EndStands(r)' /\ VerdictKept(r)' /\ Unborn(r)' /\ Stands(r)
      BY <2>1, <2>3, <1>0, <1>2 DEF Sound, EndStands, AllWritten, VerdictKept, Settled, Unborn,
         Early, Entries, Stands
    <2> QED
      BY <2>2, <2>4, <2>5 DEF Sound
  <1>5. CASE e[r].produced <= c /\ e[r].eof
    <2>1. /\ applyTerminal({r}, "done") /\ pull' = Answered(r, "summary") /\ u' = WakeWriter({r})
      BY <1>0, <1>1, <1>5 DEF decideReady, Entries
    <2>2. Shapes'
      BY <2>1, <1>0, ClosingShape DEF applyTerminal, Shapes, Answered, Pulls
    <2>3. /\ e'[r] = [e[r] EXCEPT !.live = FALSE, !.terminal = "done"] /\ summary'[r] = "done"
          /\ pull'[r] = [at |-> "answered", answer |-> "summary"]
          /\ u'[r] = u[r] \/ u[r] = "blocked"
      BY <2>1, <1>2, <1>3 DEF applyTerminal, Close, Open, Shapes, Answered
    <2>4. AllWritten(r)
      BY <1>0, <1>1, <1>5 DEF AllWritten, Sound, Cursor, Entries
    <2>5. Cursor(r)' /\ AnswerStands(r)' /\ EndStands(r)'
      BY <2>3, <2>4, <1>0 DEF Sound, Cursor, AnswerStands, AllWritten, EndStands, Entries
    <2>6. VerdictKept(r)' /\ Unborn(r)' /\ Stands(r)
      BY <2>3, <1>0, <1>2 DEF Sound, VerdictKept, Settled, Unborn, Early, Entries, Stands
    <2> QED
      BY <2>2, <2>5, <2>6 DEF Sound
  <1>6. CASE e[r].produced <= c /\ ~e[r].eof
    <2>1. /\ e' = [e EXCEPT ![r] = [e[r] EXCEPT !.committed = c]] /\ summary' = summary
          /\ pull' = [pull EXCEPT ![r].at = "held"] /\ u' = WakeWriter(Freed(r, got[r] + 1))
      BY <1>0, <1>1, <1>6 DEF decideReady, Confirmed, Entries
    <2>2. Shapes'
      BY <2>1, <1>0, <1>1 DEF Shapes, Entries, Pulls, WakeWriter, Tasks
    <2>3. /\ e'[r] = [e[r] EXCEPT !.committed = got[r]] /\ pull'[r].at = "held"
          /\ u'[r] = u[r] \/ u[r] = "blocked"
      BY <2>1, <1>1, <1>3 DEF Shapes, Pulls
    <2>4. Cursor(r)' /\ AnswerStands(r)'
      BY <2>3, <1>0, AiAssumption DEF Sound, Cursor, AnswerStands, Entries
    <2>5. EndStands(r)' /\ VerdictKept(r)' /\ Unborn(r)' /\ Stands(r)
      BY <2>1, <2>3, <1>0, <1>2 DEF Sound, EndStands, AllWritten, VerdictKept, Settled, Unborn,
         Early, Entries, Stands
    <2> QED
      BY <2>2, <2>4, <2>5 DEF Sound
  <1> QED
    BY <1>0, <1>1, <1>4, <1>5, <1>6 DEF Entries

LEMMA RelayKeeps ==
  ASSUME Shapes, NEW r \in Requests, Sound(r), Relay(r)
  PROVE  Shapes' /\ Sound(r)' /\ Stands(r)
  <1> USE DEF vars, consumerVars, limitVars, relayVars, upVars
  <1>1. CASE Pull(r)
    <2>1. CASE (pull[r].at = "sent" /\ Busy) \/ ~e[r].live
      <3>1. PICK a \in {"summary", "busy", "error"} :
              pull' = Answered(r, a) /\ (a = "summary" => summary[r] = "done")
        BY <1>1, <2>1 DEF Pull, terminalReplay
      <3>2. UNCHANGED <<local, k, got, h, e, summary, u, locking>>
        BY <1>1, <2>1 DEF Pull, terminalReplay
      <3>3. Shapes'
        BY <3>1, <3>2 DEF Shapes, Answered, Pulls
      <3>4. pull'[r] = [at |-> "answered", answer |-> a]
        BY <3>1 DEF Answered, Shapes
      <3>5. AnswerStands(r)'
        BY <3>1, <3>2, <3>4 DEF Sound, EndStands, AnswerStands, AllWritten
      <3> QED
        BY <3>2, <3>3, <3>5 DEF Sound, Cursor, AllWritten, EndStands, VerdictKept, Unborn,
           Early, Settled, Stands
    <2>2. CASE ~(pull[r].at = "sent" /\ Busy) /\ e[r].live
      <3>1. decideReady(r, got[r] + 1) /\ UNCHANGED <<consumerVars, h>>
        BY <1>1, <2>2 DEF Pull
      <3>2. ~Early(r)
        BY <2>2 DEF Sound, Unborn, NoEntry
      <3> QED
        BY <2>2, <3>1, <3>2, DecideKeeps
    <2> QED
      BY <2>1, <2>2
  <1>2. CASE HoldOver(r) \/ PullAborted(r)
    <2>1. Shapes'
      BY <1>2 DEF HoldOver, PullAborted, Answered, Shapes, Pulls, NoPull
    <2>2. pull'[r].at = "answered" => pull'[r].answer = "again"
      BY <1>2 DEF HoldOver, PullAborted, Answered, Shapes, Pulls, NoPull
    <2> QED
      BY <1>2, <2>1, <2>2 DEF HoldOver, PullAborted, Sound, Cursor, AnswerStands, AllWritten,
         EndStands, VerdictKept, Unborn, Early, Settled, Stands
  <1>3. CASE Cancel(r)
    <2>1. e[r] # NoEntry \/ locking' = locking
      BY <1>3 DEF Cancel, NoEntry
    <2>2. UNCHANGED <<local, k, got, pull, h, e, summary, u>>
      BY <1>3 DEF Cancel
    <2> QED
      BY <2>1, <2>2 DEF Shapes, Sound, Cursor, AnswerStands, AllWritten,
         EndStands, VerdictKept, Unborn, Early, Settled, Stands
  <1>4. CASE CancelLocked(r)
    <2>1. applyTerminal({r}, "cancelled") /\ u' = WakeWriter({r}) /\ pull' = WakePull({r})
          /\ UNCHANGED <<local, k, got, h>>
      BY <1>4 DEF CancelLocked
    <2>2. Shapes'
      BY <2>1, ClosingShape DEF applyTerminal, Shapes
    <2>3. Ends(r, "cancelled")
      BY <2>1 DEF applyTerminal, Ends, Close, Open, Shapes, WakeWriter, WakePull
    <2>4. ~Early(r)
      BY <1>4 DEF CancelLocked, Sound, Unborn
    <2> QED
      BY <2>2, <2>3, <2>4, EndingKeeps
  <1> QED
    BY <1>1, <1>2, <1>3, <1>4 DEF Relay

LEMMA UpstreamKeeps ==
  ASSUME Shapes, NEW r \in Requests, Sound(r), Upstream(r)
  PROVE  Shapes' /\ Sound(r)' /\ Stands(r)
  <1> USE DEF vars, consumerVars, limitVars, relayVars, upVars
  <1>0. /\ e[r] \in Entries /\ pull[r] \in Pulls /\ got[r] \in Nat
        /\ WakePull({r}) \in [Requests -> Pulls]
        /\ WakePull({r})[r].at = "answered" => WakePull({r})[r] = pull[r]
    BY ClosingShape DEF Shapes, WakePull, Pulls
  <1>1. CASE UpMeta(r)
    <2>1. Shapes'
      BY <1>1 DEF UpMeta, Shapes, Entries, Tasks
    <2>2. e'[r] = [e[r] EXCEPT !.meta = TRUE] /\ u[r] = "start" /\ u'[r] = "body"
          /\ UNCHANGED <<local, k, got, pull, h, summary, locking>>
      BY <1>1 DEF UpMeta, Shapes
    <2> QED
      BY <1>0, <2>1, <2>2 DEF Entries, Sound, Cursor, AnswerStands, AllWritten, EndStands,
         VerdictKept, Unborn, Early, Settled, Stands
  <1>2. CASE Chunk(r)
    <2>1. u[r] \in {"body", "woken"} /\ UNCHANGED <<local, k, got, h, summary, locking>>
      BY <1>2 DEF Chunk
    <2>2. ~e[r].eof /\ ~Early(r)
      BY <2>1 DEF Sound, EndStands, Unborn
    <2>3. CASE Room(r)
      <3>1. e' = [e EXCEPT ![r].produced = @ + 1] /\ u' = [u EXCEPT ![r] = "body"]
            /\ pull' = WakePull({r})
        BY <1>2, <2>3 DEF Chunk
      <3>2. e' = [e EXCEPT ![r] = [e[r] EXCEPT !.produced = e[r].produced + 1]]
        BY <3>1
      <3>3. e[r].produced \in Nat /\ e[r].committed \in Nat /\ e[r].produced + 1 \in Nat
        BY <1>0 DEF Entries
      <3>4. /\ e'[r] \in Entries /\ e'[r].produced = e[r].produced + 1
            /\ e'[r].committed = e[r].committed /\ e'[r].served = e[r].served
            /\ e'[r].eof = e[r].eof /\ e'[r].live = e[r].live /\ e'[r].terminal = e[r].terminal
        <4>1. e'[r] = [e[r] EXCEPT !.produced = e[r].produced + 1]
          BY <3>2 DEF Shapes
        <4>2. \A x \in Entries, n \in Nat :
                LET y == [x EXCEPT !.produced = n]
                IN  /\ y \in Entries /\ y.produced = n /\ y.committed = x.committed
                    /\ y.served = x.served /\ y.eof = x.eof /\ y.live = x.live
                    /\ y.terminal = x.terminal
          BY EntryUpdates
        <4> QED
          BY <1>0, <3>3, <4>1, <4>2
      <3>5. Shapes'
        <4>1. [e[r] EXCEPT !.produced = e[r].produced + 1] \in Entries
          BY <1>0, <3>3, EntryUpdates
        <4> QED
          BY <1>0, <2>1, <3>1, <3>2, <4>1 DEF Shapes, Tasks
      <3>6. Cursor(r)'
        BY <1>0, <2>1, <2>3, <3>3, <3>4, AiAssumption DEF Entries, Sound, Cursor, Room, Pending
      <3>7. AnswerStands(r)'
        BY <1>0, <2>1, <2>2, <3>1, <3>4 DEF Sound, AnswerStands, AllWritten
      <3> QED
        BY <2>1, <2>2, <3>4, <3>5, <3>6, <3>7 DEF Sound, EndStands, AllWritten, VerdictKept,
           Unborn, Early, Settled, Stands
    <2>4. CASE ~Room(r)
      <3>1. u' = [u EXCEPT ![r] = "blocked"] /\ UNCHANGED <<e, pull>>
        BY <1>2, <2>4 DEF Chunk
      <3>2. Shapes'
        BY <2>1, <3>1 DEF Shapes, Tasks
      <3> QED
        BY <2>1, <2>2, <3>1, <3>2 DEF Sound, Cursor, AnswerStands, EndStands, AllWritten,
           VerdictKept, Unborn, Early, Settled, Stands
    <2> QED
      BY <2>3, <2>4
  <1>3. CASE UpEnd(r)
    <2>1. e' = [e EXCEPT ![r].eof = TRUE] /\ u' = [u EXCEPT ![r] = "stop"] /\ pull' = WakePull({r})
          /\ UNCHANGED <<local, k, got, h, summary, locking>> /\ u[r] = "body"
      BY <1>3 DEF UpEnd
    <2>2. e' = [e EXCEPT ![r] = [e[r] EXCEPT !.eof = TRUE]]
      BY <2>1
    <2>3. [e[r] EXCEPT !.eof = TRUE] \in Entries
      BY <1>0, EntryUpdates
    <2>4. Shapes'
      BY <1>0, <2>1, <2>2, <2>3 DEF Shapes, Tasks
    <2>5. /\ e'[r].eof /\ e'[r].produced = e[r].produced
          /\ e'[r].committed = e[r].committed /\ e'[r].served = e[r].served
          /\ e'[r].live = e[r].live /\ e'[r].terminal = e[r].terminal
      BY <1>0, <2>2, EntryUpdates DEF Shapes
    <2>6. u'[r] = "stop" /\ ~Early(r)
      BY <2>1 DEF Shapes, Sound, Unborn
    <2>7. AnswerStands(r)'
      BY <1>0, <2>1, <2>5 DEF Sound, AnswerStands, AllWritten
    <2> QED
      BY <2>1, <2>4, <2>5, <2>6, <2>7 DEF Sound, Cursor, EndStands, AllWritten,
         VerdictKept, Unborn, Early, Settled, Stands
  <1>4. CASE UpStop(r)
    <2>1. Shapes'
      BY <1>4 DEF UpStop, Shapes, Tasks
    <2>2. u'[r] = "stop" /\ ~Early(r) /\ UNCHANGED <<local, k, got, pull, h, e, summary, locking>>
      BY <1>4 DEF UpStop, Shapes, Sound, Unborn
    <2> QED
      BY <2>1, <2>2 DEF Sound, Cursor, AnswerStands, EndStands, AllWritten,
         VerdictKept, Unborn, Early, Settled, Stands
  <1> QED
    BY <1>1, <1>2, <1>3, <1>4 DEF Upstream

LEMMA TroubleKeeps ==
  ASSUME Shapes, NEW r \in Requests, Sound(r), Trouble(r)
  PROVE  Shapes' /\ Sound(r)' /\ Stands(r)
  <1> USE DEF vars, consumerVars, limitVars, relayVars, upVars
  <1>0. /\ e[r] \in Entries /\ pull[r] \in Pulls
        /\ \A R \in SUBSET Requests :
             WakePull(R) \in [Requests -> Pulls] /\ WakeWriter(R) \in [Requests -> Tasks]
    BY ClosingShape DEF Shapes
  <1>1. CASE Disconnect(r) \/ CallFails(r)
    <2>1. Shapes'
      BY <1>1 DEF Disconnect, CallFails, Shapes, Locals, Loops, Pulls, NoPull, Dropped,
         LocalError, LocalEnd
    <2>2. UNCHANGED <<got, h, e, summary, u, locking>>
      BY <1>1 DEF Disconnect, CallFails
    <2>3. pull'[r].at = "answered" => pull'[r] = pull[r]
      BY <1>0, <1>1 DEF Disconnect, CallFails, Shapes, Dropped, NoPull, Pulls
    <2>4. k'[r] \in {"confirming", "ended"} => k[r] \in {"confirming", "ended"}
      BY <1>1 DEF Disconnect, CallFails, Shapes
    <2>5. local'[r] # "idle" \/ local[r] = "idle"
      BY <1>1 DEF Disconnect, CallFails, Shapes, LocalError, LocalEnd
    <2> QED
      BY <2>1, <2>2, <2>3, <2>4, <2>5 DEF Sound, Cursor, AnswerStands, AllWritten, EndStands, VerdictKept,
         Unborn, Early, Settled, Stands
  <1>2. CASE PersistFails(r)
    <2>1. Shapes'
      BY <1>2 DEF PersistFails, Shapes, Handlers
    <2> QED
      BY <1>2, <2>1 DEF PersistFails, Shapes, Sound, Cursor, AnswerStands, AllWritten, EndStands,
         VerdictKept, Unborn, Early, Settled, Stands
  <1>3. CASE UpRefused(r)
    <2>1. /\ e' = Close({r}, "dropped") /\ u' = [u EXCEPT ![r] = "stop"]
          /\ UNCHANGED <<local, k, got, pull, h, summary, locking>>
          /\ ~Settled(r) /\ u[r] = "start"
      BY <1>3 DEF UpRefused, dropEntry
    <2>2. Shapes'
      BY <1>0, <2>1 DEF Shapes, Close, Entries, Terminals, Tasks
    <2>3. e'[r] = [e[r] EXCEPT !.live = FALSE, !.terminal = "dropped"] /\ u'[r] = "stop" /\ ~Early(r)
      BY <2>1 DEF Close, Shapes, Sound, Unborn
    <2> QED
      BY <1>0, <2>1, <2>2, <2>3 DEF Entries, Sound, Cursor, AnswerStands, AllWritten, EndStands,
         VerdictKept, Unborn, Early, Settled, Stands
  <1>4. CASE Stall(r)
    BY <1>4 DEF Stall, Shapes, Sound, Cursor, AnswerStands, AllWritten, EndStands,
         VerdictKept, Unborn, Early, Settled, Stands
  <1>5. CASE UpFails(r)
    <2>1. /\ applyTerminal({r}, "error") /\ u' = [u EXCEPT ![r] = "stop"] /\ pull' = WakePull({r})
          /\ UNCHANGED <<local, k, got, h, locking>> /\ u[r] = "body"
      BY <1>5 DEF UpFails
    <2>2. Shapes'
      BY <2>1, ClosingShape DEF applyTerminal, Shapes, Tasks
    <2>3. Ends(r, "error")
      BY <2>1 DEF applyTerminal, Ends, Close, Open, Shapes, WakePull
    <2>4. ~Early(r)
      BY <2>1 DEF Sound, Unborn
    <2> QED
      BY <2>2, <2>3, <2>4, EndingKeeps
  <1>6. CASE Expire(r)
    <2>1. /\ applyTerminal({r}, "expired") /\ u' = WakeWriter({r}) /\ pull' = WakePull({r})
          /\ UNCHANGED <<local, k, got, h, locking>> /\ e[r].live
      BY <1>6 DEF Expire
    <2>2. Shapes'
      BY <2>1, ClosingShape DEF applyTerminal, Shapes
    <2>3. Ends(r, "expired")
      BY <2>1 DEF applyTerminal, Ends, Close, Open, Shapes, WakeWriter, WakePull
    <2>4. ~Early(r)
      BY <2>1 DEF Sound, Unborn, NoEntry
    <2> QED
      BY <2>2, <2>3, <2>4, EndingKeeps
  <1>7. CASE SummaryGone(r)
    <2>1. PICK gone \in {"none", "expired"} : summary' = [summary EXCEPT ![r] = gone]
      BY <1>7 DEF SummaryGone
    <2>2. UNCHANGED <<local, k, got, pull, h, e, u, locking>> /\ summary'[r] = gone
      BY <1>7, <2>1 DEF SummaryGone, Shapes
    <2>3. Shapes'
      BY <2>1, <2>2 DEF Shapes, Summaries
    <2> QED
      BY <2>2, <2>3 DEF Sound, Cursor, AnswerStands, AllWritten, EndStands,
         VerdictKept, Unborn, Early, Settled, Stands
  <1> QED
    BY <1>1, <1>2, <1>3, <1>4, <1>5, <1>6, <1>7 DEF Trouble

\* Teardown ends what is active and leaves the rest at rest.
LEMMA TeardownKeeps ==
  ASSUME Shapes, \A r \in Requests : Sound(r), closeAll
  PROVE  Shapes' /\ \A r \in Requests : Sound(r)' /\ Stands(r)
  <1> USE DEF consumerVars
  <1>1. /\ applyTerminal(Active, "error") /\ u' = WakeWriter(Active) /\ pull' = WakePull(Active)
        /\ UNCHANGED <<local, k, got, h, locking>> /\ Active \in SUBSET Requests
    BY DEF closeAll, Active
  <1>2. Shapes'
    BY <1>1, ClosingShape DEF applyTerminal, Shapes
  <1>3. ASSUME NEW r \in Requests PROVE Sound(r)' /\ Stands(r)
    <2>1. CASE r \in Active
      <3>1. Ends(r, "error")
        BY <1>1, <2>1 DEF applyTerminal, Ends, Close, Open, Shapes, WakeWriter, WakePull
      <3>2. ~Early(r)
        BY <2>1 DEF Active, Sound, Unborn, NoEntry
      <3> QED
        BY <3>1, <3>2, EndingKeeps
    <2>2. CASE r \notin Active
      <3>1. AtRest(r)
        BY <1>1, <2>2 DEF AtRest, applyTerminal, Close, Open, Shapes, WakeWriter, WakePull
      <3> QED
        BY <3>1, RestKeeps
    <2> QED
      BY <2>1, <2>2
  <1> QED
    BY <1>2, <1>3

LEMMA StepKeeps ==
  ASSUME RelayInv, [Next]_vars
  PROVE  RelayInv' /\ \A r \in Requests : Stands(r)
  <1> USE DEF RelayInv
  <1>1. ASSUME NEW q \in Requests, Step(q) PROVE RelayInv' /\ \A r \in Requests : Stands(r)
    <2>1. Shapes' /\ Sound(q)' /\ Stands(q)
      BY <1>1, ConsumerKeeps, ProviderKeeps, RelayKeeps, UpstreamKeeps, TroubleKeeps DEF Step
    <2>2. ASSUME NEW r \in Requests, r # q PROVE Sound(r)' /\ Stands(r)
      BY <1>1, <2>2, Others, RestKeeps
    <2> QED
      BY <2>1, <2>2
  <1>2. CASE closeAll
    BY <1>2, TeardownKeeps
  <1>3. CASE UNCHANGED vars
    <2>1. \A r \in Requests : AtRest(r)
      BY <1>3 DEF AtRest, vars, consumerVars, limitVars, relayVars, upVars
    <2>2. Shapes'
      BY <1>3 DEF Shapes, vars, consumerVars, limitVars, relayVars, upVars
    <2> QED
      BY <2>1, <2>2, RestKeeps
  <1> QED
    BY <1>1, <1>2, <1>3 DEF Next, Step

\* The cursor follows the consumer, and an end that is reported is complete,
\* for any number of requests and chunks and any ring (relay.mjs,
\* consumer/gateway.mjs).
THEOREM RelayAlwaysHolds == Spec => []RelayHolds
  <1>1. RelayInv => RelayHolds
    BY DEF RelayInv, Sound, Cursor, EndStands, AllWritten, RelayHolds, CursorFollows, CompleteEnd
  <1> QED
    BY <1>1, Initially, StepKeeps, PTL DEF Spec

\* No step changes the verdict on an entry, and a summary never tells another
\* (relay.mjs, applyTerminal and the summaries).
THEOREM FirstVerdictAlwaysStands == Spec => FirstVerdictStands
  <1>1. ASSUME RelayInv, [Next]_vars, NEW r \in Requests
        PROVE  /\ Settled(r) => e'[r].terminal = e[r].terminal
               /\ summary'[r] \in {"none", "expired", e'[r].terminal}
    BY <1>1, StepKeeps DEF RelayInv, Sound, VerdictKept, Stands
  <1> DEFINE Kept == \A r \in Requests :
               /\ Settled(r) => e'[r].terminal = e[r].terminal
               /\ summary'[r] \in {"none", "expired", e'[r].terminal}
  <1>2. RelayInv /\ [Next]_vars => [Kept]_vars
    BY <1>1
  <1>3. RelayInv /\ [Next]_vars => RelayInv'
    BY StepKeeps
  <1> HIDE DEF Kept
  <1>4. Spec => [][Kept]_vars
    BY <1>2, <1>3, Initially, PTL DEF Spec
  <1> QED
    BY <1>4 DEF FirstVerdictStands, Kept

-----------------------------------------------------------------------------
(***************************************************************************)
(* The sync engine.  A store is closed: with a commit it has the commit's  *)
(* ancestors.  So all that has to be followed is that whatever a device is *)
(* about to name is in its store already.                                  *)
(***************************************************************************)
Trees == [Paths -> Contents]
Ops == [path : Paths, pre : Contents, post : Contents]
Commits == [tree : Trees, anc : SUBSET Nat]
Peers == [group : Nat, own : Nat, mine : Nat]
Pushes == {"dev", "group"} \X Nat
Stages == {"idle", "refs", "recover", "recoverApply", "apply", "casWrite", "done", "advance", "commit",
           "publish", "firstPull", "fetch", "objects", "merge", "push"}
Todos == [ops : SUBSET (Ops \cup Nat), expect : Nat, adv : Nat, push : Seq(Pushes), bad : BOOLEAN,
          next : {"idle", "refs", "push", "advance"}, asked : BOOLEAN]
Intents == [target : Nat, old : Nat, ops : SUBSET Ops]
Finds == [path : Paths, content : Contents]
Sessions == [base : Nat, ours : Nat, theirs : Nat]

SyncTyped ==
  /\ mode \in {"twoway", "oneway"}
  /\ wt \in [Devices -> Trees]
  /\ commits \in Seq(Commits)
  /\ store \in [Devices -> SUBSET Nat]
  /\ group \in [Devices -> Nat] /\ dev \in [Devices -> Nat]
  /\ mirror \in [Devices -> Nat] /\ block \in [Devices -> Nat]
  /\ intent \in [Devices -> Intents] /\ session \in [Devices -> Sessions]
  /\ pc \in [Devices -> Stages] /\ refs \in [Devices -> Peers]
  /\ todo \in [Devices -> Todos] /\ retried \in [Devices -> BOOLEAN]
  /\ edits \subseteq Writers /\ syncFaults \in 0..MaxSyncFaults /\ found \in [Devices -> SUBSET Finds]

\* A commit's ancestors are its parents' and itself.
Whole(cs) ==
  \A c \in 1..Len(cs) :
    /\ c \in cs[c].anc /\ cs[c].anc \subseteq 1..Len(cs)
    /\ \A x \in cs[c].anc : cs[x].anc \subseteq cs[c].anc

Closed(s, cs) == \A c \in s : c \in 1..Len(cs) /\ cs[c].anc \subseteq s

\* What a device names it has; what it mirrors somebody made.
Named(d) ==
  /\ {group[d], dev[d], block[d]} \subseteq store[d] \cup {0}
  /\ mirror[d] <= Len(commits) /\ intent[d].old <= Len(commits)
  /\ intent[d] # NoIntent => intent[d].target \in store[d]
  /\ session[d] # NoSession => session[d].ours \in store[d] /\ session[d].theirs \in store[d]

\* What a run is about to name or to push it has; what the device line is about
\* to advance to continues it.
Ready(s, cs, q) ==
  /\ q.next = "advance" => q.adv \in s /\ (q.expect # 0 /\ ~q.asked => q.expect \in cs[q.adv].anc)
  /\ \A i \in DOMAIN q.push : q.push[i][2] \in s

Writing == {"recover", "recoverApply", "apply"}
Working(d) ==
  /\ Ready(store[d], commits, todo[d])
  /\ pc[d] \in Writing \cup {"casWrite", "done"} => intent[d] # NoIntent
  /\ pc[d] \in Writing => todo[d].ops \subseteq Ops
  /\ pc[d] = "recoverApply" => todo[d].ops # {}
  /\ pc[d] = "objects" => todo[d].ops \subseteq 1..Len(commits)
  /\ pc[d] = "advance" => todo[d].next = "advance"
  /\ pc[d] = "publish" => dev[d] # 0
  /\ mode = "twoway" /\ pc[d] \in {"fetch", "objects", "merge"} => dev[d] # 0

SyncInv ==
  /\ SyncTyped /\ Whole(commits)
  /\ \A d \in Devices : Closed(store[d], commits) /\ Named(d) /\ Working(d)

LEMMA HasMaximum ==
  ASSUME NEW n \in Nat, NEW S \in SUBSET (0..n), S # {}
  PROVE  \E m \in S : \A x \in S : x <= m
<1> DEFINE Up == {n - x : x \in S}
<1>1. Up \subseteq Nat /\ Up # {}
  <2>1. ASSUME NEW x \in S PROVE n - x \in Nat
    <3>1. x \in Nat /\ x <= n
      OBVIOUS
    <3> QED
      BY <3>1
  <2>2. PICK x \in S : TRUE
    OBVIOUS
  <2>3. n - x \in Up
    OBVIOUS
  <2> QED
    BY <2>1, <2>3
<1>2. PICK y \in Up : \A z \in Up : <<z, y>> \notin OpToRel(<, Nat)
  BY <1>1, NatLessThanWellFounded, WFMin
<1>3. PICK m \in S : y = n - m
  BY <1>2
<1>4. ASSUME NEW x \in S PROVE x <= m
  <2>1. n - x \in Up /\ n - x \in Nat /\ y \in Nat
    BY <1>1, <1>2
  <2>2. <<n - x, y>> \notin OpToRel(<, Nat)
    BY <1>2, <2>1
  <2>3. ~(n - x < y)
    BY <2>1, <2>2 DEF OpToRel
  <2> QED
    BY <1>3, <2>1, <2>3
<1> QED
  BY <1>4

\* There are two devices.
LEMMA OtherDevice == ASSUME NEW d \in Devices PROVE Other(d) \in Devices /\ Other(d) # d
<1>1. \E x \in Devices : x # d
  <2>1. SUFFICES ASSUME \A x \in Devices : x = d PROVE FALSE
    OBVIOUS
  <2>2. Devices = {d}
    BY <2>1
  <2>3. Cardinality({d}) = 1
    BY FS_Singleton
  <2> QED
    BY <2>2, <2>3, SyncAssumption
<1> QED
  BY <1>1 DEF Other

LEMMA SyncBase == ASSUME SyncInit PROVE SyncInv
<1>1. Empty \in Trees /\ [p \in Paths |-> 1] \in Trees
  BY SyncAssumption DEF Empty, Trees
<1>2. NoTodo \in Todos /\ NoTodo.push = <<>> /\ NoTodo.next = "idle"
  <2>1. <<>> \in Seq(Pushes)
    OBVIOUS
  <2> QED
    BY <2>1 DEF NoTodo, Todos
<1>3. NoIntent \in Intents /\ NoSession \in Sessions /\ NoRefs \in Peers /\ NoIntent.old = 0
  BY DEF NoIntent, Intents, NoSession, Sessions, NoRefs, Peers
<1>4. commits = <<>> /\ Len(commits) = 0 /\ commits \in Seq(Commits)
  BY DEF SyncInit
<1>5. wt \in [Devices -> Trees]
  BY <1>1 DEF SyncInit
<1>6. SyncTyped
  BY <1>2, <1>3, <1>4, <1>5, SyncAssumption DEF SyncInit, SyncTyped, Stages
<1>7. Whole(commits)
  BY <1>4 DEF Whole
<1>8. ASSUME NEW d \in Devices PROVE Closed(store[d], commits) /\ Named(d) /\ Working(d)
  BY <1>2, <1>3, <1>4 DEF SyncInit, Closed, Named, Working, Writing, Ready
<1> QED
  BY <1>6, <1>7, <1>8 DEF SyncInv

(***************************************************************************)
(* What a step has to show.                                                *)
(***************************************************************************)
Grows == Len(commits') \in Nat /\ Len(commits) <= Len(commits') /\ \A c \in 1..Len(commits) : commits'[c] = commits[c]
Still(x) ==
  /\ dev'[x] = dev[x] /\ block'[x] = block[x] /\ intent'[x] = intent[x] /\ session'[x] = session[x]
  /\ pc'[x] = pc[x] /\ todo'[x] = todo[x]

LEMMA Lengths == ASSUME SyncInv PROVE Len(commits) \in Nat
  BY LenProperties DEF SyncInv, SyncTyped

LEMMA ReadyGrows ==
  ASSUME SyncInv, Grows, NEW s, NEW s2, Closed(s, commits), s \subseteq s2, NEW q, Ready(s, commits, q)
  PROVE  Ready(s2, commits', q)
  BY Lengths DEF Ready, Grows, Closed

LEMMA StillStands ==
  ASSUME SyncInv, Grows, NEW x \in Devices, Still(x), mode' = mode, store[x] \subseteq store'[x],
         group'[x] \in store'[x] \cup {0}, mirror'[x] <= Len(commits')
  PROVE  Named(x)' /\ Working(x)'
<1>1. Named(x) /\ Working(x) /\ Closed(store[x], commits)
  BY DEF SyncInv
<1>2. Named(x)'
  <2>1. intent[x].old <= Len(commits')
    <3>1. intent[x].old \in Nat
      BY DEF SyncInv, SyncTyped, Intents
    <3> QED
      BY <1>1, <3>1, Lengths DEF Named, Grows
  <2> QED
    BY <1>1, <2>1 DEF Named, Still
<1>3. Ready(store'[x], commits', todo'[x])
  BY <1>1, ReadyGrows DEF Still, Working, Writing
<1>4. 1..Len(commits) \subseteq 1..Len(commits')
  BY Lengths DEF Grows
<1> QED
  BY <1>1, <1>2, <1>3, <1>4 DEF Working, Writing, Still

\* One device moves, the other may be given commits and refs.
LEMMA OneMoves ==
  ASSUME SyncInv, Grows, NEW d \in Devices, mode' = mode, SyncTyped', Whole(commits'),
         \A x \in Devices : store[x] \subseteq store'[x] /\ Closed(store'[x], commits'),
         \A x \in Devices \ {d} : Still(x) /\ group'[x] \in store'[x] \cup {0} /\ mirror'[x] <= Len(commits'),
         Named(d)', Working(d)'
  PROVE  SyncInv'
<1>1. ASSUME NEW x \in Devices \ {d} PROVE Named(x)' /\ Working(x)'
  BY StillStands
<1> QED
  BY <1>1 DEF SyncInv

\* Nobody commits anything and no object is copied.
LEMMA OnlyRefsMove ==
  ASSUME SyncInv, NEW d \in Devices, UNCHANGED <<mode, commits, store>>, SyncTyped',
         \A x \in Devices \ {d} : Still(x) /\ group'[x] = group[x] /\ mirror'[x] = mirror[x],
         Named(d)', Working(d)'
  PROVE  SyncInv'
<1>1. Grows
  BY Lengths DEF Grows
<1>2. \A x \in Devices : Closed(store'[x], commits') /\ Named(x)
  BY DEF SyncInv
<1>3. \A x \in Devices \ {d} : group'[x] \in store'[x] \cup {0} /\ mirror'[x] <= Len(commits')
  BY <1>2 DEF Named
<1>4. Whole(commits')
  BY DEF SyncInv
<1> QED
  BY <1>1, <1>2, <1>3, <1>4, OneMoves

LEMMA NothingTodo ==
  /\ NoTodo \in Todos /\ NoTodo.push = <<>> /\ NoTodo.next = "idle" /\ NoTodo.ops = {}
  /\ NoTodo.adv = 0 /\ NoTodo.expect = 0 /\ ~NoTodo.asked
  /\ \A s, cs : Ready(s, cs, NoTodo)
<1>1. <<>> \in Seq(Pushes)
  OBVIOUS
<1>2. NoTodo \in Todos /\ NoTodo.push = <<>> /\ NoTodo.next = "idle" /\ NoTodo.ops = {}
      /\ NoTodo.adv = 0 /\ NoTodo.expect = 0 /\ ~NoTodo.asked
  BY <1>1 DEF NoTodo, Todos
<1> QED
  BY <1>2 DEF Ready

\* A step that only moves the run of one device on: where it is, what it read.
LEMMA MovesOn ==
  ASSUME SyncInv, NEW d \in Devices, UNCHANGED <<commits, persistent>>, SyncTyped',
         \A x \in Devices \ {d} : pc'[x] = pc[x] /\ todo'[x] = todo[x],
         Working(d)'
  PROVE  SyncInv'
<1>1. \A x \in Devices \ {d} : Still(x) /\ group'[x] = group[x] /\ mirror'[x] = mirror[x]
  BY DEF persistent, Still
<1>2. Named(d)'
  BY DEF SyncInv, Named, persistent
<1> QED
  BY <1>1, <1>2, OnlyRefsMove DEF persistent

\* The run is over.
LEMMA Over ==
  ASSUME SyncInv, NEW d \in Devices, RunEnds(d)
  PROVE  /\ pc' \in [Devices -> Stages] /\ refs' \in [Devices -> Peers] /\ todo' \in [Devices -> Todos]
         /\ retried' \in [Devices -> BOOLEAN]
         /\ \A x \in Devices \ {d} : pc'[x] = pc[x] /\ todo'[x] = todo[x]
         /\ pc'[d] = "idle" /\ todo'[d] = NoTodo
         /\ Working(d)'
<1>1. NoRefs \in Peers /\ "idle" \in Stages
  BY DEF NoRefs, Peers, Stages
<1>2. /\ pc' \in [Devices -> Stages] /\ refs' \in [Devices -> Peers] /\ todo' \in [Devices -> Todos]
      /\ retried' \in [Devices -> BOOLEAN]
      /\ \A x \in Devices \ {d} : pc'[x] = pc[x] /\ todo'[x] = todo[x]
      /\ pc'[d] = "idle" /\ todo'[d] = NoTodo
  BY <1>1, NothingTodo DEF SyncInv, SyncTyped, RunEnds, Go
<1> QED
  BY <1>2, NothingTodo DEF Working, Writing

\* A file is written.
LEMMA WriteTyped ==
  ASSUME SyncInv, NEW d \in Devices, NEW p \in Paths, NEW v \in Contents, wt' = [wt EXCEPT ![d][p] = v]
  PROVE  wt' \in [Devices -> Trees]
  BY DEF SyncInv, SyncTyped, Trees

LEMMA EditStep == ASSUME SyncInv, NEW d \in Devices, Edit(d) PROVE SyncInv'
<1>1. PICK p \in Paths : wt' = [wt EXCEPT ![d][p] = Typed(d)]
  BY SyncAssumption DEF Edit
<1>2. Typed(d) \in Contents
  BY SyncAssumption DEF Typed
<1>3. wt' \in [Devices -> Trees]
  BY <1>1, <1>2, WriteTyped
<1>4. SyncTyped'
  <2>1. found' \in [Devices -> SUBSET Finds]
    BY DEF Edit, SyncInv, SyncTyped
  <2> QED
    BY <1>3, <2>1 DEF Edit, SyncInv, SyncTyped, persistent, run
<1>5. Working(d)'
  BY DEF Edit, SyncInv, Working, Writing, persistent, run
<1> QED
  BY <1>4, <1>5, MovesOn DEF Edit, persistent, run

LEMMA FailStep == ASSUME SyncInv, NEW d \in Devices, RunFails(d) PROVE SyncInv'
<1>1. syncFaults' \in 0..MaxSyncFaults
  BY SyncAssumption DEF RunFails, OneFault, SyncInv, SyncTyped
<1>2. SyncTyped'
  BY <1>1, Over DEF RunFails, SyncInv, SyncTyped, persistent
<1> QED
  BY <1>2, Over, MovesOn DEF RunFails

LEMMA RecoverIntentStep == ASSUME SyncInv, NEW d \in Devices, recoverIntent(d) PROVE SyncInv'
<1>1. todo[d] \in Todos /\ intent[d].ops \subseteq Ops /\ intent[d] # NoIntent /\ Ready(store[d], commits, todo[d])
  BY DEF SyncInv, SyncTyped, Intents, recoverIntent, Working, Writing
<1>2. PICK ops \in SUBSET (Ops \cup Nat) :
        /\ ops = intent[d].ops \/ (ops = todo[d].ops /\ pc'[d] = "done")
        /\ todo' = [todo EXCEPT ![d] = [[todo[d] EXCEPT !.ops = ops] EXCEPT !.next = "refs"]]
  <2>1. CASE todo' = [todo EXCEPT ![d].next = "refs"] /\ Go(d, "done")
    <3>1. [todo[d] EXCEPT !.ops = todo[d].ops] = todo[d] /\ todo[d].ops \in SUBSET (Ops \cup Nat)
      BY <1>1 DEF Todos
    <3>2. pc'[d] = "done"
      BY <2>1 DEF Go, SyncInv, SyncTyped
    <3> QED
      BY <2>1, <3>1, <3>2
  <2>2. CASE todo' = [todo EXCEPT ![d].ops = intent[d].ops, ![d].next = "refs"]
    <3>1. todo \in [Devices -> Todos]
      BY DEF SyncInv, SyncTyped
    <3>2. todo' = [todo EXCEPT ![d] = [[todo[d] EXCEPT !.ops = intent[d].ops] EXCEPT !.next = "refs"]]
      BY <2>2, <3>1
    <3> QED
      <4> DEFINE all == intent[d].ops
      <4>1. all \in SUBSET (Ops \cup Nat)
        BY <1>1
      <4>2. todo' = [todo EXCEPT ![d] = [[todo[d] EXCEPT !.ops = all] EXCEPT !.next = "refs"]] /\ all = intent[d].ops
        BY <3>2
      <4> HIDE DEF all
      <4> QED
        BY <4>1, <4>2
  <2> QED
    BY <2>1, <2>2 DEF recoverIntent
<1> DEFINE r == [todo[d] EXCEPT !.ops = ops]
<1> DEFINE q == [r EXCEPT !.next = "refs"]
<1>3. /\ q \in Todos /\ q.next = "refs" /\ q.push = todo[d].push /\ q.ops = ops
  <2>1. r \in Todos /\ r.push = todo[d].push /\ r.ops = ops
    BY <1>1 DEF Todos
  <2> HIDE DEF r
  <2> QED
    BY <2>1 DEF Todos
<1>4. todo' = [todo EXCEPT ![d] = q]
  BY <1>2
<1> HIDE DEF q
<1>5. /\ todo' \in [Devices -> Todos] /\ todo'[d] = q /\ \A x \in Devices \ {d} : todo'[x] = todo[x]
  BY <1>3, <1>4 DEF SyncInv, SyncTyped
<1>6. /\ pc' \in [Devices -> Stages] /\ pc'[d] \in {"done", "recover"} /\ \A x \in Devices \ {d} : pc'[x] = pc[x]
  BY DEF recoverIntent, Go, SyncInv, SyncTyped, Stages
<1>7. SyncTyped'
  BY <1>5, <1>6 DEF recoverIntent, SyncInv, SyncTyped, persistent, history
<1>8. Ready(store[d], commits, q)
  BY <1>1, <1>3 DEF Ready
<1>9. Working(d)'
  BY <1>1, <1>2, <1>3, <1>5, <1>6, <1>8 DEF Working, Writing, recoverIntent, persistent
<1> QED
  BY <1>5, <1>6, <1>7, <1>9, MovesOn DEF recoverIntent

\* One operation is taken from what is left.
LEMMA OneLess ==
  ASSUME SyncInv, NEW d \in Devices, pc[d] \in Writing, NEW ops \in SUBSET todo[d].ops,
         NEW b \in BOOLEAN, UNCHANGED <<commits, persistent>>, pc'[d] \in {"recover", "apply"},
         todo' = [todo EXCEPT ![d] = [[todo[d] EXCEPT !.ops = ops] EXCEPT !.bad = b]]
  PROVE  /\ todo' \in [Devices -> Todos] /\ \A x \in Devices \ {d} : todo'[x] = todo[x]
         /\ Working(d)'
<1> DEFINE r == [todo[d] EXCEPT !.ops = ops]
<1> DEFINE q == [r EXCEPT !.bad = b]
<1>1. todo[d] \in Todos /\ Working(d) /\ todo[d].ops \subseteq Ops
  BY DEF SyncInv, SyncTyped, Working, Writing
<1>2. /\ q \in Todos /\ q.next = todo[d].next /\ q.push = todo[d].push /\ q.ops = ops
      /\ q.adv = todo[d].adv /\ q.expect = todo[d].expect /\ q.asked = todo[d].asked
  <2>1. /\ r \in Todos /\ r.next = todo[d].next /\ r.push = todo[d].push /\ r.ops = ops
        /\ r.adv = todo[d].adv /\ r.expect = todo[d].expect /\ r.asked = todo[d].asked
    <3>1. ops \in SUBSET (Ops \cup Nat)
      BY <1>1
    <3> QED
      BY <1>1, <3>1 DEF Todos
  <2> HIDE DEF r
  <2> QED
    BY <2>1 DEF Todos
<1> HIDE DEF q
<1>3. /\ todo' \in [Devices -> Todos] /\ todo'[d] = q /\ \A x \in Devices \ {d} : todo'[x] = todo[x]
  BY <1>2 DEF q, SyncInv, SyncTyped
<1>4. Ready(store[d], commits, q)
  BY <1>1, <1>2 DEF Ready, Working, Writing
<1> QED
  BY <1>1, <1>2, <1>3, <1>4 DEF Working, Writing, persistent

LEMMA FirstIsOne == ASSUME NEW ops, ops # {} PROVE First(ops) \in ops
  BY DEF First

\* Recovery looks at a path ...
LEMMA RecoverLookStep == ASSUME SyncInv, NEW d \in Devices, recoverLook(d) PROVE SyncInv'
<1>1. todo[d] \in Todos /\ todo[d].ops \subseteq Ops /\ pc[d] = "recover" /\ todo[d].ops # {} /\ Working(d)
  BY DEF SyncInv, SyncTyped, recoverLook, Working, Writing
<1>2. PICK op \in Ops : op = First(todo[d].ops)
  BY <1>1, FirstIsOne
<1>3. found' \in [Devices -> SUBSET Finds]
  <2>1. [path |-> op.path, content |-> wt[d][op.path]] \in Finds /\ found \in [Devices -> SUBSET Finds]
    BY DEF SyncInv, SyncTyped, Ops, Finds, Trees
  <2> QED
    BY <1>2, <2>1 DEF recoverLook
<1>4. CASE Untouched(d, op)
  <2>1. /\ pc' \in [Devices -> Stages] /\ pc'[d] = "recoverApply" /\ \A x \in Devices \ {d} : pc'[x] = pc[x]
        /\ UNCHANGED todo
    BY <1>2, <1>4 DEF recoverLook, Go, SyncInv, SyncTyped, Stages
  <2>2. SyncTyped'
    BY <1>3, <2>1 DEF recoverLook, SyncInv, SyncTyped, persistent
  <2>3. Working(d)'
    BY <1>1, <2>1 DEF recoverLook, Working, Writing, persistent
  <2> QED
    BY <2>1, <2>2, <2>3, MovesOn DEF recoverLook
<1>5. CASE ~Untouched(d, op)
  <2>1. PICK b \in BOOLEAN : b = (todo[d].bad \/ wt[d][op.path] # op.post)
    OBVIOUS
  <2>2. todo' = [todo EXCEPT ![d] = [[todo[d] EXCEPT !.ops = todo[d].ops \ {op}] EXCEPT !.bad = b]] /\ UNCHANGED pc
    BY <1>2, <1>5, <2>1 DEF recoverLook
  <2>3. todo' \in [Devices -> Todos] /\ (\A x \in Devices \ {d} : todo'[x] = todo[x]) /\ Working(d)'
    BY <1>1, <2>2, OneLess DEF recoverLook, Writing
  <2>4. SyncTyped'
    BY <1>3, <2>2, <2>3 DEF recoverLook, SyncInv, SyncTyped, persistent
  <2> QED
    BY <2>2, <2>3, <2>4, MovesOn DEF recoverLook
<1> QED
  BY <1>4, <1>5

\* ... and writes it an await later.
LEMMA RecoverOpStep == ASSUME SyncInv, NEW d \in Devices, recoverOp(d) PROVE SyncInv'
<1>1. todo[d] \in Todos /\ todo[d].ops \subseteq Ops /\ pc[d] = "recoverApply" /\ todo[d].ops # {}
  BY DEF SyncInv, SyncTyped, recoverOp, Working, Writing
<1>2. PICK op \in Ops : op = First(todo[d].ops)
  BY <1>1, FirstIsOne
<1>3. PICK b \in BOOLEAN : b = todo[d].bad
  BY <1>1 DEF Todos
<1>4. todo' = [todo EXCEPT ![d] = [[todo[d] EXCEPT !.ops = todo[d].ops \ {op}] EXCEPT !.bad = b]]
  <2>1. [[todo[d] EXCEPT !.ops = todo[d].ops \ {op}] EXCEPT !.bad = b] = [todo[d] EXCEPT !.ops = todo[d].ops \ {op}]
    BY <1>1, <1>3 DEF Todos
  <2> QED
    BY <1>2, <2>1 DEF recoverOp
<1>5. pc' \in [Devices -> Stages] /\ pc'[d] = "recover" /\ \A x \in Devices \ {d} : pc'[x] = pc[x]
  BY DEF recoverOp, Go, SyncInv, SyncTyped, Stages
<1>6. todo' \in [Devices -> Todos] /\ (\A x \in Devices \ {d} : todo'[x] = todo[x]) /\ Working(d)'
  BY <1>1, <1>4, <1>5, OneLess DEF recoverOp, Writing
<1>7. wt' = [wt EXCEPT ![d][op.path] = op.post]
  BY <1>2 DEF recoverOp
<1>8. wt' \in [Devices -> Trees]
  <2>1. op.path \in Paths /\ op.post \in Contents
    BY DEF Ops
  <2> QED
    BY <1>7, <2>1, WriteTyped
<1>9. SyncTyped'
  BY <1>5, <1>6, <1>8 DEF recoverOp, SyncInv, SyncTyped, persistent
<1> QED
  BY <1>5, <1>6, <1>9, MovesOn DEF recoverOp

LEMMA ApplyOpStep == ASSUME SyncInv, NEW d \in Devices, applyOp(d) PROVE SyncInv'
<1>1. todo[d] \in Todos /\ todo[d].ops \subseteq Ops /\ pc[d] = "apply" /\ todo[d].ops # {}
  BY DEF SyncInv, SyncTyped, applyOp, Working, Writing
<1>2. PICK op \in Ops : op = First(todo[d].ops)
  BY <1>1, FirstIsOne
<1>3. PICK b \in BOOLEAN : b = todo[d].bad
  BY <1>1 DEF Todos
<1>4. todo' = [todo EXCEPT ![d] = [[todo[d] EXCEPT !.ops = todo[d].ops \ {op}] EXCEPT !.bad = b]]
  <2>1. [[todo[d] EXCEPT !.ops = todo[d].ops \ {op}] EXCEPT !.bad = b] = [todo[d] EXCEPT !.ops = todo[d].ops \ {op}]
    BY <1>1, <1>3 DEF Todos
  <2> QED
    BY <1>2, <2>1 DEF applyOp
<1>5. todo' \in [Devices -> Todos] /\ (\A x \in Devices \ {d} : todo'[x] = todo[x]) /\ Working(d)'
  BY <1>1, <1>4, OneLess DEF applyOp, Writing
<1>6. wt' = [wt EXCEPT ![d][op.path] = op.post]
  BY <1>2 DEF applyOp
<1>7. wt' \in [Devices -> Trees]
  <2>1. op.path \in Paths /\ op.post \in Contents
    BY DEF Ops
  <2> QED
    BY <1>6, <2>1, WriteTyped DEF SyncInv, SyncTyped
<1>8. SyncTyped'
  BY <1>5, <1>6, <1>7 DEF applyOp, SyncInv, SyncTyped, persistent
<1> QED
  BY <1>5, <1>8, MovesOn DEF applyOp

LEMMA AdvanceRefReadStep == ASSUME SyncInv, NEW d \in Devices, advanceRefRead(d) PROVE SyncInv'
<1>1. CASE Go(d, "casWrite") /\ UNCHANGED <<refs, todo, retried>>
  <2>1. /\ pc' \in [Devices -> Stages] /\ pc'[d] = "casWrite" /\ \A x \in Devices \ {d} : pc'[x] = pc[x]
    BY <1>1 DEF Go, SyncInv, SyncTyped, Stages
  <2>2. SyncTyped'
    BY <1>1, <2>1 DEF advanceRefRead, SyncInv, SyncTyped, persistent, history
  <2>3. Working(d)'
    BY <1>1, <2>1 DEF advanceRefRead, SyncInv, Working, Writing, persistent
  <2> QED
    BY <1>1, <2>1, <2>2, <2>3, MovesOn DEF advanceRefRead
<1>2. CASE RunEnds(d)
  <2>1. SyncTyped'
    BY <1>2, Over DEF advanceRefRead, SyncInv, SyncTyped, persistent, history
  <2> QED
    BY <1>2, <2>1, Over, MovesOn DEF advanceRefRead
<1> QED
  BY <1>1, <1>2 DEF advanceRefRead

\* The ref moves to a commit that was in the store when the intent was made.
LEMMA AdvanceRefWriteStep == ASSUME SyncInv, NEW d \in Devices, advanceRefWrite(d) PROVE SyncInv'
<1>1. intent[d].target \in store[d] /\ intent[d] # NoIntent /\ Named(d) /\ Working(d)
  BY DEF SyncInv, Named, Working, Writing, advanceRefWrite
<1>2. /\ group' \in [Devices -> Nat] /\ group'[d] = intent[d].target
      /\ pc' \in [Devices -> Stages] /\ pc'[d] = "done"
      /\ \A x \in Devices \ {d} : pc'[x] = pc[x] /\ group'[x] = group[x]
  BY DEF advanceRefWrite, Go, SyncInv, SyncTyped, Stages, Intents
<1>3. SyncTyped'
  BY <1>2 DEF advanceRefWrite, SyncInv, SyncTyped, history
<1>4. Named(d)'
  BY <1>1, <1>2 DEF Named, advanceRefWrite
<1>5. Working(d)'
  BY <1>1, <1>2 DEF Working, Writing, advanceRefWrite
<1> QED
  BY <1>2, <1>3, <1>4, <1>5, OnlyRefsMove DEF advanceRefWrite, Still

LEMMA MarkDoneStep == ASSUME SyncInv, NEW d \in Devices, markDone(d) PROVE SyncInv'
<1>1. NoIntent \in Intents /\ NoIntent.old = 0 /\ todo[d].next \in {"idle", "refs", "push", "advance"}
  BY DEF NoIntent, Intents, SyncInv, SyncTyped, Todos
<1>2. /\ intent' \in [Devices -> Intents] /\ intent'[d] = NoIntent
      /\ pc' \in [Devices -> Stages] /\ pc'[d] = todo[d].next
      /\ \A x \in Devices \ {d} : pc'[x] = pc[x] /\ intent'[x] = intent[x]
  BY <1>1 DEF markDone, Go, SyncInv, SyncTyped, Stages
<1>3. SyncTyped'
  <2>1. found' \in [Devices -> SUBSET Finds]
    BY DEF markDone, SyncInv, SyncTyped
  <2> QED
    BY <1>2, <2>1 DEF markDone, SyncInv, SyncTyped
<1>4. Named(d)'
  BY <1>1, <1>2, Lengths DEF SyncInv, Named, markDone
<1>5. Working(d)'
  BY <1>1, <1>2 DEF SyncInv, Working, Writing, markDone
<1> QED
  BY <1>2, <1>3, <1>4, <1>5, OnlyRefsMove DEF markDone, Still

\* The device line moves to a commit that is in the store.
LEMMA AdvanceDeviceStep == ASSUME SyncInv, NEW d \in Devices, advanceDevice(d) PROVE SyncInv'
<1>1. todo[d].adv \in store[d] /\ todo[d].adv \in Nat /\ Named(d) /\ Working(d)
  BY DEF SyncInv, SyncTyped, Named, Working, Writing, Ready, advanceDevice, Todos
<1>2. CASE dev' = [dev EXCEPT ![d] = todo[d].adv] /\ Go(d, "push") /\ UNCHANGED <<refs, todo, retried>>
            /\ (block' = [block EXCEPT ![d] = 0] \/ block' = block)
  <2>1. /\ dev' \in [Devices -> Nat] /\ dev'[d] = todo[d].adv
        /\ block' \in [Devices -> Nat] /\ block'[d] \in {0, block[d]}
        /\ pc' \in [Devices -> Stages] /\ pc'[d] = "push"
        /\ \A x \in Devices \ {d} : pc'[x] = pc[x] /\ dev'[x] = dev[x] /\ block'[x] = block[x]
    <3>1. block' \in [Devices -> Nat] /\ block'[d] \in {0, block[d]} /\ \A x \in Devices \ {d} : block'[x] = block[x]
      BY <1>2 DEF SyncInv, SyncTyped
    <3>2. dev' \in [Devices -> Nat] /\ dev'[d] = todo[d].adv /\ \A x \in Devices \ {d} : dev'[x] = dev[x]
      BY <1>1, <1>2 DEF SyncInv, SyncTyped
    <3>3. pc' \in [Devices -> Stages] /\ pc'[d] = "push" /\ \A x \in Devices \ {d} : pc'[x] = pc[x]
      BY <1>2 DEF Go, SyncInv, SyncTyped, Stages
    <3> QED
      BY <3>1, <3>2, <3>3
  <2>2. SyncTyped'
    BY <1>2, <2>1 DEF advanceDevice, SyncInv, SyncTyped, history
  <2>3. Named(d)'
    BY <1>1, <1>2, <2>1 DEF Named, advanceDevice
  <2>4. Working(d)'
    BY <1>1, <1>2, <2>1 DEF Working, Writing, advanceDevice
  <2> QED
    BY <1>2, <2>1, <2>2, <2>3, <2>4, OnlyRefsMove DEF advanceDevice, Still
<1>3. CASE RunEnds(d) /\ UNCHANGED <<dev, block>>
  <2>1. SyncTyped'
    BY <1>3, Over DEF advanceDevice, SyncInv, SyncTyped, history
  <2> QED
    BY <1>3, <2>1, Over, MovesOn DEF advanceDevice, persistent
<1> QED
  BY <1>2, <1>3 DEF advanceDevice

LEMMA FirstRefsStep == ASSUME SyncInv, NEW d \in Devices, firstRefs(d) PROVE SyncInv'
<1>1. PeerRefs(d) \in Peers /\ NoRefs \in Peers
  BY OtherDevice DEF PeerRefs, Peers, NoRefs, SyncInv, SyncTyped
<1>2. refs' \in [Devices -> Peers]
  BY <1>1 DEF firstRefs, SyncInv, SyncTyped
<1>3. UNCHANGED <<todo, retried>> /\ \E s \in {"commit", "fetch", "firstPull", "idle"} :
        Go(d, s) /\ (s = "fetch" => mode = "oneway")
  BY DEF firstRefs
<1>4. /\ pc' \in [Devices -> Stages] /\ pc'[d] \in {"commit", "fetch", "firstPull", "idle"}
      /\ pc'[d] = "fetch" => mode = "oneway"
      /\ \A x \in Devices \ {d} : pc'[x] = pc[x]
  BY <1>3 DEF Go, SyncInv, SyncTyped, Stages
<1>5. SyncTyped'
  BY <1>2, <1>3, <1>4 DEF firstRefs, SyncInv, SyncTyped, persistent, history
<1>6. Working(d)'
  BY <1>3, <1>4 DEF firstRefs, SyncInv, SyncTyped, Working, Writing, persistent
<1> QED
  BY <1>3, <1>4, <1>5, <1>6, MovesOn DEF firstRefs

(***************************************************************************)
(* Commits, and intents.                                                   *)
(***************************************************************************)
LEMMA TreeTyped == ASSUME SyncInv, NEW d \in Devices, NEW c \in store[d] \cup {0} PROVE tree(c) \in Trees
<1>1. CASE c = 0
  BY <1>1, SyncAssumption DEF tree, Trees, Empty
<1>2. CASE c # 0
  <2>1. c \in 1..Len(commits)
    BY <1>2 DEF SyncInv, Closed
  <2>2. commits[c] \in Commits
    BY <2>1, ElementOfSeq DEF SyncInv, SyncTyped
  <2> QED
    BY <1>2, <2>2 DEF tree, Commits
<1> QED
  BY <1>1, <1>2

LEMMA OpsTyped ==
  ASSUME SyncInv, NEW d \in Devices, NEW ours, NEW merged \in Trees
  PROVE  buildMaterializeOps(d, ours, merged) \in SUBSET Ops
<1>1. \A p \in Paths : wt[d][p] \in Contents /\ merged[p] \in Contents
  BY DEF SyncInv, SyncTyped, Trees
<1> QED
  BY <1>1 DEF buildMaterializeOps, Ops

\* A commit made from commits of the store: the store stays closed.
LEMMA MadeStands ==
  ASSUME SyncInv, NEW d \in Devices, NEW t \in Trees, NEW parents \in SUBSET store[d], Made(d, t, parents)
  PROVE  /\ commits' \in Seq(Commits) /\ store' \in [Devices -> SUBSET Nat] /\ Grows /\ Whole(commits')
         /\ \A x \in Devices : store[x] \subseteq store'[x] /\ Closed(store'[x], commits')
         /\ Len(commits') = Len(commits) + 1 /\ Len(commits) + 1 \in store'[d]
         /\ \A c \in parents : c \in commits'[Len(commits) + 1].anc
<1> DEFINE n == Len(commits) + 1
<1> DEFINE A == {n} \cup UNION {commits[c].anc : c \in parents}
<1>1. Len(commits) \in Nat /\ commits \in Seq(Commits) /\ Whole(commits) /\ store \in [Devices -> SUBSET Nat]
      /\ \A x \in Devices : Closed(store[x], commits)
  BY Lengths DEF SyncInv, SyncTyped
<1>2. n \in Nat
  BY <1>1
<1>3. \A x : x \in A <=> (x = n \/ \E c \in parents : x \in commits[c].anc)
  OBVIOUS
<1>4. commits' = Append(commits, [tree |-> t, anc |-> A]) /\ store' = [store EXCEPT ![d] = store[d] \cup {n}]
  BY <1>1 DEF Made
<1> HIDE DEF A
<1>5. \A c \in parents : /\ c \in 1..Len(commits) /\ c \in commits[c].anc /\ commits[c].anc \subseteq 1..Len(commits)
                         /\ commits[c].anc \subseteq store[d]
  BY <1>1 DEF Closed, Whole
<1>6. A \subseteq 1..n
  BY <1>1, <1>3, <1>5
<1>7. [tree |-> t, anc |-> A] \in Commits
  BY <1>2, <1>6 DEF Commits
<1>8. /\ commits' \in Seq(Commits) /\ Len(commits') = n /\ commits'[n].anc = A
      /\ \A c \in 1..Len(commits) : commits'[c] = commits[c]
  <2> DEFINE new == [tree |-> t, anc |-> A]
  <2>1. new \in Commits /\ new.anc = A /\ commits' = Append(commits, new)
    BY <1>4, <1>7
  <2> HIDE DEF new
  <2> QED
    BY <1>1, <2>1, AppendProperties
<1> HIDE DEF n
<1>9. Grows
  BY <1>1, <1>2, <1>8 DEF Grows, n
<1>10. ASSUME NEW c \in 1..n
       PROVE  /\ c \in commits'[c].anc /\ commits'[c].anc \subseteq 1..n
              /\ \A x \in commits'[c].anc : commits'[x].anc \subseteq commits'[c].anc
  <2>1. CASE c # n
    <3>1. c \in 1..Len(commits)
      BY <1>1, <2>1 DEF n
    <3>2. commits[c].anc \subseteq 1..Len(commits) /\ commits'[c] = commits[c] /\ c \in commits[c].anc
      BY <1>1, <1>8, <3>1 DEF Whole
    <3>3. \A x \in commits[c].anc : commits'[x] = commits[x] /\ commits[x].anc \subseteq commits[c].anc
      BY <1>1, <1>8, <3>1, <3>2 DEF Whole
    <3>4. 1..Len(commits) \subseteq 1..n
      BY <1>1 DEF n
    <3> QED
      BY <3>2, <3>3, <3>4
  <2>2. CASE c = n
    <3>1. ASSUME NEW x \in A, x # n PROVE commits'[x].anc \subseteq A
      <4>1. PICK p \in parents : x \in commits[p].anc
        BY <1>3, <3>1
      <4>2. commits[x].anc \subseteq commits[p].anc /\ x \in 1..Len(commits)
        BY <1>1, <1>5, <4>1 DEF Whole
      <4> QED
        BY <1>3, <1>8, <4>1, <4>2
    <3> QED
      BY <1>3, <1>6, <1>8, <2>2, <3>1
  <2> QED
    BY <2>1, <2>2
<1>11. Whole(commits')
  BY <1>8, <1>10 DEF Whole
<1>12. ASSUME NEW x \in Devices PROVE store[x] \subseteq store'[x] /\ Closed(store'[x], commits')
  <2>1. store'[x] = IF x = d THEN store[d] \cup {n} ELSE store[x]
    BY <1>1, <1>4
  <2>2. \A c \in store[x] : c \in 1..Len(commits) /\ commits'[c] = commits[c] /\ commits[c].anc \subseteq store[x]
    BY <1>1, <1>8 DEF Closed
  <2>3. 1..Len(commits) \subseteq 1..n /\ n \in 1..n
    BY <1>1 DEF n
  <2>4. x = d => commits'[n].anc \subseteq store'[x]
    BY <1>3, <1>5, <1>8, <2>1
  <2> QED
    BY <1>8, <2>1, <2>2, <2>3, <2>4 DEF Closed
<1>13. n \in store'[d] /\ store' \in [Devices -> SUBSET Nat]
  BY <1>1, <1>2, <1>4
<1>14. \A c \in parents : c \in commits'[n].anc
  BY <1>3, <1>5, <1>8
<1> QED
  BY <1>8, <1>9, <1>11, <1>12, <1>13, <1>14 DEF n

\* An intent is written for a commit of the store, with what follows it.
LEMMA PlanStep ==
  ASSUME SyncInv, Grows, NEW d \in Devices, NEW target, NEW ops \in SUBSET Ops, NEW rest \in Todos,
         Plan(d, target, ops, rest), target \in store'[d], Ready(store'[d], commits', rest),
         commits' \in Seq(Commits), store' \in [Devices -> SUBSET Nat], Whole(commits'),
         \A x \in Devices : store[x] \subseteq store'[x] /\ Closed(store'[x], commits'),
         session' \in [Devices -> Sessions], \A x \in Devices \ {d} : session'[x] = session[x],
         session'[d] \in {session[d], NoSession}, refs' \in [Devices -> Peers],
         UNCHANGED <<wt, mode, group, dev, mirror, block, retried, edits, syncFaults, found>>
  PROVE  SyncInv'
<1> DEFINE q == [rest EXCEPT !.ops = ops]
<1> DEFINE i == [target |-> target, old |-> group[d], ops |-> ops]
<1>1. /\ q \in Todos /\ q.ops = ops /\ q.next = rest.next /\ q.adv = rest.adv /\ q.expect = rest.expect
      /\ q.push = rest.push /\ q.asked = rest.asked
  <2>1. ops \in SUBSET (Ops \cup Nat)
    OBVIOUS
  <2> QED
    BY <2>1 DEF Todos
<1>2. target \in Nat /\ target # 0
  <2>1. target \in 1..Len(commits')
    BY DEF Closed
  <2> QED
    BY <2>1
<1>3. i \in Intents /\ i.target = target /\ i.old = group[d] /\ i # NoIntent
  BY <1>2 DEF Intents, NoIntent, SyncInv, SyncTyped
<1>4. intent' = [intent EXCEPT ![d] = i] /\ todo' = [todo EXCEPT ![d] = q] /\ pc' = [pc EXCEPT ![d] = "apply"]
  BY DEF Plan, Go
<1> HIDE DEF q, i
<1>5. /\ intent' \in [Devices -> Intents] /\ intent'[d] = i /\ \A x \in Devices \ {d} : intent'[x] = intent[x]
  BY <1>3, <1>4 DEF SyncInv, SyncTyped
<1>6. /\ todo' \in [Devices -> Todos] /\ todo'[d] = q /\ \A x \in Devices \ {d} : todo'[x] = todo[x]
  BY <1>1, <1>4 DEF SyncInv, SyncTyped
<1>7. /\ pc' \in [Devices -> Stages] /\ pc'[d] = "apply" /\ \A x \in Devices \ {d} : pc'[x] = pc[x]
  BY <1>4 DEF SyncInv, SyncTyped, Stages
<1>8. SyncTyped'
  BY <1>5, <1>6, <1>7 DEF SyncInv, SyncTyped
<1>9. \A x \in Devices : Named(x) /\ group[x] <= Len(commits) /\ group[x] \in store[x] \cup {0}
  BY Lengths DEF SyncInv, Closed, Named
<1>10. \A x \in Devices : mirror'[x] <= Len(commits') /\ group[x] <= Len(commits')
  <2> SUFFICES ASSUME NEW x \in Devices PROVE mirror'[x] <= Len(commits') /\ group[x] <= Len(commits')
    OBVIOUS
  <2>1. mirror'[x] = mirror[x] /\ mirror[x] <= Len(commits) /\ group[x] <= Len(commits)
    BY <1>9 DEF Named
  <2>2. mirror[x] \in Nat /\ group[x] \in Nat
    BY DEF SyncInv, SyncTyped
  <2>3. Len(commits) \in Nat /\ Len(commits') \in Nat /\ Len(commits) <= Len(commits')
    BY Lengths DEF Grows
  <2> QED
    BY <2>1, <2>2, <2>3
<1>11. Named(d)'
  BY <1>3, <1>5, <1>9, <1>10 DEF Named
<1>12. Ready(store'[d], commits', q)
  BY <1>1 DEF Ready
<1>13. Working(d)'
  BY <1>1, <1>3, <1>5, <1>6, <1>7, <1>12 DEF Working, Writing
<1>14. \A x \in Devices \ {d} : Still(x) /\ group'[x] \in store'[x] \cup {0} /\ mirror'[x] <= Len(commits')
  BY <1>5, <1>6, <1>7, <1>9, <1>10 DEF Still
<1> QED
  BY <1>8, <1>11, <1>13, <1>14, OneMoves

\* The same where nothing is committed with it.
LEMMA PlanOnly ==
  ASSUME SyncInv, NEW d \in Devices, NEW target \in store[d], NEW ops \in SUBSET Ops, NEW rest \in Todos,
         Plan(d, target, ops, rest), Ready(store[d], commits, rest), refs' \in [Devices -> Peers],
         UNCHANGED <<wt, commits, store, session, mode, group, dev, mirror, block, retried, edits, syncFaults, found>>
  PROVE  SyncInv'
<1>1. Grows
  BY Lengths DEF Grows
<1>2. /\ commits' \in Seq(Commits) /\ store' \in [Devices -> SUBSET Nat] /\ Whole(commits')
      /\ \A x \in Devices : store[x] \subseteq store'[x] /\ Closed(store'[x], commits')
      /\ session' \in [Devices -> Sessions]
  BY DEF SyncInv, SyncTyped
<1> QED
  BY <1>1, <1>2, PlanStep

(***************************************************************************)
(* The steps of a run.                                                     *)
(***************************************************************************)
\* What goes out to the peer.
LEMMA PushTyped ==
  ASSUME NEW c \in Nat, NEW a \in {"dev", "group"}, NEW b \in {"dev", "group"}
  PROVE  /\ <<<<a, c>>>> \in Seq(Pushes) /\ \A i \in DOMAIN <<<<a, c>>>> : <<<<a, c>>>>[i][2] = c
         /\ <<<<a, c>>, <<b, c>>>> \in Seq(Pushes)
         /\ \A i \in DOMAIN <<<<a, c>>, <<b, c>>>> : <<<<a, c>>, <<b, c>>>>[i][2] = c
<1>1. <<a, c>> \in Pushes /\ <<b, c>> \in Pushes
  BY DEF Pushes
<1> QED
  BY <1>1

\* The plans there are.
LEMMA RestTyped ==
  ASSUME SyncInv, NEW d \in Devices, NEW c \in Nat, NEW push \in Seq(Pushes)
  PROVE  /\ [NoTodo EXCEPT !.next = "push", !.push = push] \in Todos
         /\ [NoTodo EXCEPT !.next = "push", !.push = push].next = "push"
         /\ [NoTodo EXCEPT !.next = "push", !.push = push].push = push
         /\ [NoTodo EXCEPT !.next = "advance", !.adv = c] \in Todos
         /\ [NoTodo EXCEPT !.next = "advance", !.adv = c].adv = c
         /\ [NoTodo EXCEPT !.next = "advance", !.adv = c].expect = 0
         /\ [NoTodo EXCEPT !.next = "advance", !.adv = c].push = <<>>
<1>1. <<>> \in Seq(Pushes)
  OBVIOUS
<1> QED
  BY <1>1 DEF NoTodo, Todos

LEMMA AdvancingTyped ==
  ASSUME SyncInv, NEW d \in Devices, NEW c \in Nat
  PROVE  /\ Advancing(d, c) \in Todos /\ Advancing(d, c).adv = c /\ Advancing(d, c).expect = dev[d]
         /\ Advancing(d, c).push = <<>>
<1>1. dev[d] \in Nat /\ <<>> \in Seq(Pushes)
  BY DEF SyncInv, SyncTyped
<1> QED
  BY <1>1 DEF NoTodo, Todos, Advancing

\* The scan is committed on top of the device line.
LEMMA CommitLocalStep == ASSUME SyncInv, NEW d \in Devices, commitLocal(d) PROVE SyncInv'
<1>1. /\ pc' \in [Devices -> Stages] /\ pc'[d] \in {"publish", "fetch"} /\ \A x \in Devices \ {d} : pc'[x] = pc[x]
  BY DEF commitLocal, Go, SyncInv, SyncTyped, Stages
<1>2. Named(d) /\ Working(d) /\ wt[d] \in Trees
  BY DEF SyncInv, SyncTyped
<1>3. CASE dev[d] # 0 /\ UNCHANGED <<commits, store, dev>>
  <2>1. SyncTyped'
    BY <1>1, <1>3 DEF commitLocal, SyncInv, SyncTyped
  <2>2. Working(d)'
    BY <1>1, <1>2, <1>3 DEF commitLocal, Working, Writing
  <2> QED
    BY <1>1, <1>3, <2>1, <2>2, MovesOn DEF commitLocal, persistent
<1>4. CASE Made(d, scanWorktree(d), IF dev[d] = 0 THEN {} ELSE {dev[d]}) /\ dev' = [dev EXCEPT ![d] = Len(commits) + 1]
  <2> DEFINE parents == IF dev[d] = 0 THEN {} ELSE {dev[d]}
  <2>1. parents \in SUBSET store[d]
    BY <1>2 DEF Named
  <2>2. Made(d, wt[d], parents)
    BY <1>4 DEF scanWorktree
  <2> HIDE DEF parents
  <2>3. /\ commits' \in Seq(Commits) /\ store' \in [Devices -> SUBSET Nat] /\ Grows /\ Whole(commits')
        /\ \A x \in Devices : store[x] \subseteq store'[x] /\ Closed(store'[x], commits')
        /\ Len(commits) + 1 \in store'[d]
    BY <1>2, <2>1, <2>2, MadeStands
  <2>4. Len(commits) + 1 \in Nat /\ Len(commits) + 1 # 0
    BY Lengths
  <2>5. dev' \in [Devices -> Nat] /\ dev'[d] = Len(commits) + 1 /\ \A x \in Devices \ {d} : dev'[x] = dev[x]
    BY <1>4, <2>4 DEF SyncInv, SyncTyped
  <2>6. SyncTyped'
    BY <1>1, <2>3, <2>5 DEF commitLocal, SyncInv, SyncTyped
  <2>7. \A x \in Devices : Named(x) /\ mirror[x] <= Len(commits') /\ intent[x].old <= Len(commits')
    <3> SUFFICES ASSUME NEW x \in Devices PROVE Named(x) /\ mirror[x] <= Len(commits') /\ intent[x].old <= Len(commits')
      OBVIOUS
    <3>1. Named(x) /\ mirror[x] \in Nat /\ intent[x].old \in Nat
      BY DEF SyncInv, SyncTyped, Intents
    <3> QED
      BY <2>3, <3>1, Lengths DEF Named, Grows
  <2>8. Named(d)'
    BY <2>3, <2>5, <2>7 DEF Named, commitLocal
  <2>9. Ready(store'[d], commits', todo[d])
    <3>1. Closed(store[d], commits)
      BY DEF SyncInv
    <3> QED
      BY <1>2, <2>3, <3>1, ReadyGrows DEF Working, Writing
  <2>10. Working(d)'
    BY <1>1, <2>4, <2>5, <2>9 DEF Working, Writing, commitLocal
  <2>11. \A x \in Devices \ {d} : Still(x) /\ group'[x] \in store'[x] \cup {0} /\ mirror'[x] <= Len(commits')
    BY <1>1, <2>3, <2>5, <2>7 DEF Still, Named, commitLocal
  <2> QED
    BY <2>3, <2>6, <2>8, <2>10, <2>11, OneMoves DEF commitLocal
<1> QED
  BY <1>3, <1>4 DEF commitLocal

LEMMA PeerTyped == ASSUME SyncInv, NEW d \in Devices PROVE PeerRefs(d) \in Peers
  BY OtherDevice DEF PeerRefs, Peers, SyncInv, SyncTyped

LEMMA PublishStep == ASSUME SyncInv, NEW d \in Devices, publish(d) PROVE SyncInv'
<1> DEFINE rest == [NoTodo EXCEPT !.next = "push", !.push = <<<<"group", dev[d]>>, <<"dev", dev[d]>>>>]
<1>1. dev[d] \in Nat /\ dev[d] \in store[d] /\ Named(d)
  BY DEF SyncInv, SyncTyped, Named, Working, Writing, publish
<1>2. refs' \in [Devices -> Peers]
  BY PeerTyped DEF publish, SyncInv, SyncTyped
<1>3. rest \in Todos /\ rest.next = "push" /\ Ready(store[d], commits, rest)
  <2> DEFINE push == <<<<"group", dev[d]>>, <<"dev", dev[d]>>>>
  <2>1. push \in Seq(Pushes) /\ \A i \in DOMAIN push : push[i][2] = dev[d]
    BY <1>1, PushTyped
  <2> HIDE DEF push
  <2>2. [NoTodo EXCEPT !.next = "push", !.push = push] \in Todos
        /\ [NoTodo EXCEPT !.next = "push", !.push = push].next = "push"
        /\ [NoTodo EXCEPT !.next = "push", !.push = push].push = push
    BY <1>1, <2>1, RestTyped
  <2> QED
    BY <1>1, <2>1, <2>2 DEF push, Ready
<1> HIDE DEF rest
<1>4. CASE todo' = [todo EXCEPT ![d] = rest] /\ Go(d, "push") /\ UNCHANGED <<intent>>
  <2>1. /\ todo' \in [Devices -> Todos] /\ todo'[d] = rest /\ \A x \in Devices \ {d} : todo'[x] = todo[x]
        /\ pc' \in [Devices -> Stages] /\ pc'[d] = "push" /\ \A x \in Devices \ {d} : pc'[x] = pc[x]
    BY <1>3, <1>4 DEF Go, SyncInv, SyncTyped, Stages
  <2>2. SyncTyped'
    BY <1>2, <1>4, <2>1 DEF publish, SyncInv, SyncTyped
  <2>3. Working(d)'
    BY <1>3, <2>1 DEF Working, Writing, publish
  <2> QED
    BY <1>4, <2>1, <2>2, <2>3, MovesOn DEF publish, persistent
<1>5. CASE Plan(d, dev[d], {}, rest)
  <2>1. {} \in SUBSET Ops
    OBVIOUS
  <2> QED
    BY <1>1, <1>2, <1>3, <1>5, <2>1, PlanOnly DEF publish
<1> QED
  BY <1>4, <1>5 DEF publish, rest

LEMMA FirstPullStep == ASSUME SyncInv, NEW d \in Devices, firstPull(d) PROVE SyncInv'
<1> DEFINE s == refs[d].group
<1>1. s \in Nat
  BY DEF SyncInv, SyncTyped, Peers
<1> HIDE DEF s
<1>2. CASE RunEnds(d) /\ UNCHANGED <<intent, block>>
  <2>1. SyncTyped'
    BY <1>2, Over DEF firstPull, SyncInv, SyncTyped
  <2> QED
    BY <1>2, <2>1, Over, MovesOn DEF firstPull, persistent
<1>3. CASE s \in store[d] /\ block' = [block EXCEPT ![d] = s] /\ RunEnds(d) /\ UNCHANGED <<intent>>
  <2>1. block' \in [Devices -> Nat] /\ block'[d] = s /\ \A x \in Devices \ {d} : block'[x] = block[x]
    BY <1>1, <1>3 DEF SyncInv, SyncTyped
  <2>2. SyncTyped'
    BY <1>3, <2>1, Over DEF firstPull, SyncInv, SyncTyped
  <2>3. Named(d)'
    BY <1>3, <2>1 DEF firstPull, SyncInv, Named
  <2> QED
    BY <1>3, <2>1, <2>2, <2>3, Over, OnlyRefsMove DEF firstPull, Still
<1>4. CASE /\ s \in store[d] /\ UNCHANGED <<block, refs, retried>>
           /\ Plan(d, s, buildMaterializeOps(d, Empty, tree(s)), [NoTodo EXCEPT !.next = "advance", !.adv = s])
  <2> DEFINE rest == [NoTodo EXCEPT !.next = "advance", !.adv = s]
  <2>1. rest \in Todos /\ rest.adv = s /\ rest.expect = 0 /\ rest.push = <<>>
    <3>1. <<>> \in Seq(Pushes)
      OBVIOUS
    <3> QED
      BY <1>1, <3>1, RestTyped
  <2> HIDE DEF rest
  <2>2. Ready(store[d], commits, rest)
    BY <1>4, <2>1 DEF Ready
  <2>3. buildMaterializeOps(d, Empty, tree(s)) \in SUBSET Ops
    BY <1>4, TreeTyped, OpsTyped
  <2>4. refs' \in [Devices -> Peers]
    BY <1>4 DEF SyncInv, SyncTyped
  <2> QED
    BY <1>4, <2>1, <2>2, <2>3, <2>4, PlanOnly DEF firstPull, rest
<1> QED
  BY <1>2, <1>3, <1>4 DEF firstPull, s

\* The mirror names what the peer named; what is asked for was made.
LEMMA FetchRefsStep == ASSUME SyncInv, NEW d \in Devices, fetchRefs(d) PROVE SyncInv'
<1> DEFINE r == PeerRefs(d)
<1> DEFINE want == ({r.group} \ {0, group[d]}) \cup ({r.own} \ {0, mirror[d]})
<1>1. \A x \in Devices : /\ group[x] \in 0..Len(commits) /\ dev[x] \in 0..Len(commits)
                         /\ mirror[x] \in 0..Len(commits)
  <2> SUFFICES ASSUME NEW x \in Devices
               PROVE  /\ group[x] \in 0..Len(commits) /\ dev[x] \in 0..Len(commits)
                      /\ mirror[x] \in 0..Len(commits)
    OBVIOUS
  <2>1. Named(x) /\ Closed(store[x], commits) /\ mirror[x] \in Nat
    BY DEF SyncInv, SyncTyped
  <2> QED
    BY <2>1, Lengths DEF Named, Closed
<1>2. r \in Peers /\ r.group \in 0..Len(commits) /\ r.own \in 0..Len(commits)
  BY <1>1, PeerTyped, OtherDevice DEF PeerRefs
<1> HIDE DEF r
<1>3. want \subseteq 1..Len(commits)
  BY <1>2, Lengths
<1> HIDE DEF want
<1>4. /\ refs' = [refs EXCEPT ![d] = r] /\ mirror' = [mirror EXCEPT ![d] = Mirrored(d, r)]
      /\ todo' = [todo EXCEPT ![d] = [todo[d] EXCEPT !.ops = want]]
  BY DEF fetchRefs, r, want
<1>5. Mirrored(d, r) \in 0..Len(commits) /\ Mirrored(d, r) \in Nat
  BY <1>1, <1>2, Lengths DEF Mirrored
<1> DEFINE q == [todo[d] EXCEPT !.ops = want]
<1>6. /\ q \in Todos /\ q.ops = want /\ Ready(store[d], commits, q)
  <2>1. todo[d] \in Todos /\ want \in SUBSET (Ops \cup Nat) /\ Ready(store[d], commits, todo[d])
    BY <1>3, Lengths DEF SyncInv, SyncTyped, Working, Writing
  <2>2. /\ q \in Todos /\ q.ops = want /\ q.next = todo[d].next /\ q.push = todo[d].push
        /\ q.adv = todo[d].adv /\ q.expect = todo[d].expect /\ q.asked = todo[d].asked
    BY <2>1 DEF Todos
  <2> QED
    BY <2>1, <2>2 DEF Ready
<1> HIDE DEF q
<1>7. /\ todo' \in [Devices -> Todos] /\ todo'[d] = q /\ \A x \in Devices \ {d} : todo'[x] = todo[x]
  BY <1>4, <1>6 DEF q, SyncInv, SyncTyped
<1>8. /\ mirror' \in [Devices -> Nat] /\ mirror'[d] <= Len(commits) /\ \A x \in Devices \ {d} : mirror'[x] = mirror[x]
  BY <1>4, <1>5 DEF SyncInv, SyncTyped
<1>9. /\ pc' \in [Devices -> Stages] /\ pc'[d] = "objects" /\ \A x \in Devices \ {d} : pc'[x] = pc[x]
  BY DEF fetchRefs, Go, SyncInv, SyncTyped, Stages
<1>10. refs' \in [Devices -> Peers]
  BY <1>2, <1>4 DEF SyncInv, SyncTyped
<1>11. SyncTyped'
  BY <1>7, <1>8, <1>9, <1>10 DEF fetchRefs, SyncInv, SyncTyped, history
<1>12. Named(d)'
  BY <1>8 DEF SyncInv, Named, fetchRefs
<1>13. Working(d)'
  BY <1>3, <1>6, <1>7, <1>9 DEF SyncInv, Working, Writing, fetchRefs
<1> QED
  BY <1>7, <1>8, <1>9, <1>11, <1>12, <1>13, OnlyRefsMove DEF fetchRefs, Still

\* Copied is what the peer has of a history, and with a commit its ancestors.
LEMMA ImportObjectsStep == ASSUME SyncInv, NEW d \in Devices, importObjects(d) PROVE SyncInv'
<1> DEFINE A == UNION {commits[c].anc \intersect store[Other(d)] : c \in todo[d].ops}
<1>1. /\ Whole(commits) /\ Closed(store[d], commits) /\ Closed(store[Other(d)], commits)
      /\ todo[d].ops \subseteq 1..Len(commits) /\ Named(d) /\ Working(d) /\ todo[d] \in Todos
      /\ Other(d) \in Devices
  BY OtherDevice DEF SyncInv, SyncTyped, Working, Writing, importObjects
<1>2. \A x : x \in A <=> (x \in store[Other(d)] /\ \E c \in todo[d].ops : x \in commits[c].anc)
  OBVIOUS
<1>3. store' = [store EXCEPT ![d] = store[d] \cup A]
  BY DEF importObjects
<1> HIDE DEF A
<1>4. Closed(store[d] \cup A, commits)
  <2>1. ASSUME NEW x \in A PROVE x \in 1..Len(commits) /\ commits[x].anc \subseteq A
    <3>1. PICK c \in todo[d].ops : x \in commits[c].anc
      BY <1>2, <2>1
    <3>2. commits[x].anc \subseteq commits[c].anc
      BY <1>1, <3>1 DEF Whole
    <3>3. x \in 1..Len(commits) /\ commits[x].anc \subseteq store[Other(d)]
      BY <1>1, <1>2, <2>1 DEF Closed
    <3> QED
      BY <1>2, <3>2, <3>3
  <2> QED
    BY <1>1, <2>1 DEF Closed
<1>5. store' \in [Devices -> SUBSET Nat]
  <2>1. A \subseteq Nat
    BY <1>1, <1>2 DEF SyncInv, SyncTyped
  <2> QED
    BY <1>3, <2>1 DEF SyncInv, SyncTyped
<1>6. \A x \in Devices : store[x] \subseteq store'[x] /\ Closed(store'[x], commits)
  BY <1>3, <1>4 DEF SyncInv, SyncTyped
<1> DEFINE q == [todo[d] EXCEPT !.ops = {}]
<1>7. /\ q \in Todos /\ q.ops = {} /\ q.next = todo[d].next /\ q.push = todo[d].push
      /\ q.adv = todo[d].adv /\ q.expect = todo[d].expect /\ q.asked = todo[d].asked
  BY <1>1 DEF Todos
<1>8. todo' = [todo EXCEPT ![d] = q]
  BY DEF importObjects
<1> HIDE DEF q
<1>9. /\ todo' \in [Devices -> Todos] /\ todo'[d] = q /\ \A x \in Devices \ {d} : todo'[x] = todo[x]
  BY <1>7, <1>8 DEF SyncInv, SyncTyped
<1>10. /\ pc' \in [Devices -> Stages] /\ pc'[d] = "merge" /\ \A x \in Devices \ {d} : pc'[x] = pc[x]
  BY DEF importObjects, Go, SyncInv, SyncTyped, Stages
<1>11. SyncTyped'
  BY <1>5, <1>9, <1>10 DEF importObjects, SyncInv, SyncTyped, history
<1>12. Grows /\ commits' = commits /\ Whole(commits')
  BY <1>1, Lengths DEF Grows, importObjects
<1>13. Named(d)'
  BY <1>1, <1>6 DEF Named, importObjects
<1>14. Ready(store'[d], commits', q)
  <2>1. Ready(store'[d], commits', todo[d])
    BY <1>1, <1>6, <1>12, ReadyGrows DEF Working, Writing
  <2> QED
    BY <1>7, <2>1 DEF Ready
<1>15. Working(d)'
  BY <1>1, <1>9, <1>10, <1>14 DEF Working, Writing, importObjects
<1>16. \A x \in Devices \ {d} : Still(x) /\ group'[x] \in store'[x] \cup {0} /\ mirror'[x] <= Len(commits')
  BY <1>6, <1>9, <1>10, <1>12 DEF Still, importObjects, SyncInv, Named
<1> QED
  BY <1>6, <1>11, <1>12, <1>13, <1>15, <1>16, OneMoves DEF importObjects

\* Two lines that have a commit in common are both in the store.
LEMMA CommonStored ==
  ASSUME SyncInv, NEW d \in Devices, NEW b \in Nat, Common(d, dev[d], b) # {}
  PROVE  /\ dev[d] \in store[d] /\ b \in store[d]
         /\ mergeBase(d, dev[d], b) \in commits[dev[d]].anc \cap commits[b].anc
<1>1. Named(d) /\ Closed(store[d], commits) /\ Whole(commits) /\ Len(commits) \in Nat
  BY Lengths DEF SyncInv
<1>2. dev[d] \in store[d]
  BY <1>1 DEF Named, Common, Ancestors
<1>3. Ancestors(d, dev[d]) = commits[dev[d]].anc /\ commits[dev[d]].anc \subseteq store[d]
  <2>1. dev[d] \in 1..Len(commits)
    BY <1>1, <1>2 DEF Closed
  <2> QED
    BY <1>1, <1>2, <2>1 DEF Ancestors, Closed
<1>4. b \in store[d]
  BY <1>3 DEF Common, Ancestors
<1>5. Ancestors(d, b) = commits[b].anc
  <2>1. b \in 1..Len(commits)
    BY <1>1, <1>4 DEF Closed
  <2> QED
    BY <1>4, <2>1 DEF Ancestors
<1> DEFINE S == Common(d, dev[d], b)
<1>6. S = commits[dev[d]].anc \cap commits[b].anc
  BY <1>3, <1>5 DEF Common
<1>7. S \in SUBSET (0..Len(commits))
  BY <1>1, <1>3, <1>6 DEF Closed
<1> HIDE DEF S
<1>8. \E m \in S : \A x \in S : x <= m
  BY <1>1, <1>7, HasMaximum DEF S
<1>9. mergeBase(d, dev[d], b) \in S
  BY <1>8 DEF mergeBase, S
<1> QED
  BY <1>2, <1>4, <1>6, <1>9

LEMMA MergeUpToDateStep == ASSUME SyncInv, NEW d \in Devices, mergeUpToDate(d) PROVE SyncInv'
<1> DEFINE first == IF refs[d].mine # dev[d] THEN <<<<"dev", dev[d]>>>> ELSE <<>>
<1> DEFINE second == IF group[d] # 0 /\ refs[d].group # group[d] THEN <<<<"group", group[d]>>>> ELSE <<>>
<1> DEFINE push == first \o second
<1>1. /\ dev[d] \in store[d] /\ group[d] \in store[d] \cup {0} /\ dev[d] \in Nat /\ group[d] \in Nat
      /\ todo[d] \in Todos /\ Working(d)
  BY DEF SyncInv, SyncTyped, Named, Working, Writing, mergeUpToDate, Twoway
<1>2. /\ first \in Seq(Pushes) /\ \A i \in 1..Len(first) : first[i][2] \in store[d]
      /\ second \in Seq(Pushes) /\ \A i \in 1..Len(second) : second[i][2] \in store[d]
  <2>1. <<>> \in Seq(Pushes) /\ Len(<<>>) = 0
    OBVIOUS
  <2>2. /\ <<<<"dev", dev[d]>>>> \in Seq(Pushes)
        /\ \A i \in 1..Len(<<<<"dev", dev[d]>>>>) : <<<<"dev", dev[d]>>>>[i][2] = dev[d]
    BY <1>1 DEF Pushes
  <2>3. /\ <<<<"group", group[d]>>>> \in Seq(Pushes)
        /\ \A i \in 1..Len(<<<<"group", group[d]>>>>) : <<<<"group", group[d]>>>>[i][2] = group[d]
    BY <1>1 DEF Pushes
  <2> QED
    BY <1>1, <2>1, <2>2, <2>3
<1>3. todo' = [todo EXCEPT ![d] = [todo[d] EXCEPT !.push = push]]
  BY DEF mergeUpToDate
<1> HIDE DEF first, second
<1>4. push \in Seq(Pushes) /\ \A i \in DOMAIN push : push[i][2] \in store[d]
  <2>1. /\ push \in Seq(Pushes) /\ Len(push) = Len(first) + Len(second)
        /\ \A i \in 1..(Len(first) + Len(second)) :
             push[i] = IF i <= Len(first) THEN first[i] ELSE second[i - Len(first)]
    BY <1>2, ConcatProperties
  <2>2. Len(first) \in Nat /\ Len(second) \in Nat /\ DOMAIN push = 1..Len(push)
    BY <1>2, <2>1, LenProperties
  <2> HIDE DEF push
  <2>3. ASSUME NEW i \in DOMAIN push PROVE push[i][2] \in store[d]
    <3>1. i \in 1..(Len(first) + Len(second))
      BY <2>1, <2>2, <2>3
    <3>2. CASE i <= Len(first)
      <4>1. i \in 1..Len(first) /\ push[i] = first[i]
        BY <2>1, <2>2, <3>1, <3>2
      <4> QED
        BY <1>2, <4>1
    <3>3. CASE ~(i <= Len(first))
      <4>1. i - Len(first) \in 1..Len(second) /\ push[i] = second[i - Len(first)]
        BY <2>1, <2>2, <3>1, <3>3
      <4> QED
        BY <1>2, <4>1
    <3> QED
      BY <3>2, <3>3
  <2> QED
    BY <2>1, <2>3
<1> DEFINE q == [todo[d] EXCEPT !.push = push]
<1> HIDE DEF push
<1>5. /\ q \in Todos /\ q.push = push /\ q.next = todo[d].next /\ q.adv = todo[d].adv
      /\ q.expect = todo[d].expect /\ q.asked = todo[d].asked
  BY <1>1, <1>4 DEF Todos
<1> HIDE DEF q
<1>6. Ready(store[d], commits, q)
  BY <1>1, <1>4, <1>5 DEF Ready, Working, Writing
<1>7. /\ todo' \in [Devices -> Todos] /\ todo'[d] = q /\ \A x \in Devices \ {d} : todo'[x] = todo[x]
  BY <1>3, <1>5 DEF q, SyncInv, SyncTyped
<1>8. /\ pc' \in [Devices -> Stages] /\ pc'[d] = "push" /\ \A x \in Devices \ {d} : pc'[x] = pc[x]
  BY DEF mergeUpToDate, Go, SyncInv, SyncTyped, Stages
<1>9. SyncTyped'
  BY <1>7, <1>8 DEF mergeUpToDate, SyncInv, SyncTyped, persistent, history
<1>10. Working(d)'
  BY <1>6, <1>7, <1>8 DEF Working, Writing, mergeUpToDate, persistent
<1> QED
  BY <1>7, <1>8, <1>9, <1>10, MovesOn DEF mergeUpToDate

LEMMA MergeUnrelatedStep == ASSUME SyncInv, NEW d \in Devices, mergeUnrelated(d) PROVE SyncInv'
<1>1. SyncTyped'
  BY Over DEF mergeUnrelated, SyncInv, SyncTyped, persistent, history
<1> QED
  BY <1>1, Over, MovesOn DEF mergeUnrelated

\* One line continues the other.
LEMMA MergeFastForwardStep == ASSUME SyncInv, NEW d \in Devices, mergeFastForward(d) PROVE SyncInv'
<1> DEFINE c == mirror[d]
<1>1. c \in Nat /\ dev[d] \in Nat
  BY DEF SyncInv, SyncTyped
<1>2. dev[d] \in store[d] /\ c \in store[d] /\ mergeBase(d, dev[d], c) \in commits[c].anc
  BY <1>1, CommonStored DEF mergeFastForward
<1>3. refs' \in [Devices -> Peers]
  BY DEF mergeFastForward, SyncInv, SyncTyped
<1>4. CASE /\ mergeBase(d, dev[d], c) = dev[d]
           /\ Plan(d, c, buildMaterializeOps(d, tree(dev[d]), tree(c)),
                   [Advancing(d, c) EXCEPT !.push = <<<<"group", c>>>>])
  <2> DEFINE push == <<<<"group", c>>>>
  <2> DEFINE rest == [Advancing(d, c) EXCEPT !.push = push]
  <2> HIDE DEF c
  <2>1. push \in Seq(Pushes) /\ \A i \in DOMAIN push : push[i][2] = c
    BY <1>1, PushTyped
  <2> HIDE DEF push
  <2>2. rest \in Todos /\ rest.adv = c /\ rest.expect = dev[d] /\ rest.push = push
    BY <1>1, <2>1, AdvancingTyped DEF Todos
  <2> HIDE DEF rest
  <2>3. Ready(store[d], commits, rest)
    BY <1>2, <1>4, <2>1, <2>2 DEF Ready
  <2>4. buildMaterializeOps(d, tree(dev[d]), tree(c)) \in SUBSET Ops
    BY <1>2, TreeTyped, OpsTyped
  <2>5. Plan(d, c, buildMaterializeOps(d, tree(dev[d]), tree(c)), rest)
    BY <1>4 DEF rest, push
  <2> QED
    BY <1>2, <1>3, <2>2, <2>3, <2>4, <2>5, PlanOnly DEF mergeFastForward
<1>5. CASE Plan(d, dev[d], {}, Pushing(dev[d]))
  <2> DEFINE push == <<<<"dev", dev[d]>>, <<"group", dev[d]>>>>
  <2> DEFINE rest == [NoTodo EXCEPT !.next = "push", !.push = push]
  <2>1. push \in Seq(Pushes) /\ \A i \in DOMAIN push : push[i][2] = dev[d]
    BY <1>1, PushTyped
  <2> HIDE DEF push
  <2>2. rest \in Todos /\ rest.next = "push" /\ rest.push = push
    BY <1>1, <2>1, RestTyped
  <2> HIDE DEF rest
  <2>3. Ready(store[d], commits, rest) /\ {} \in SUBSET Ops
    BY <1>2, <2>1, <2>2 DEF Ready
  <2>4. Plan(d, dev[d], {}, rest)
    BY <1>5 DEF rest, push, Pushing
  <2> QED
    BY <1>2, <1>3, <2>2, <2>3, <2>4, PlanOnly DEF mergeFastForward
<1> QED
  BY <1>4, <1>5 DEF mergeFastForward

LEMMA MergedTyped ==
  ASSUME NEW b, NEW o \in Trees, NEW t \in Trees PROVE mergeTrees(b, o, t) \in Trees
  BY DEF mergeTrees, Trees

\* Two lines are joined by a commit, or a session for the user.
LEMMA MergeThreeWayStep == ASSUME SyncInv, NEW d \in Devices, mergeThreeWay(d) PROVE SyncInv'
<1> DEFINE base == mergeBase(d, dev[d], mirror[d])
<1> DEFINE ours == tree(dev[d])
<1> DEFINE merged == mergeTrees(tree(base), ours, tree(mirror[d]))
<1> DEFINE c == Len(commits) + 1
<1>1. mirror[d] \in Nat /\ dev[d] \in Nat /\ Named(d) /\ refs \in [Devices -> Peers] /\ c \in Nat
  BY Lengths DEF SyncInv, SyncTyped
<1>2. dev[d] \in store[d] /\ mirror[d] \in store[d] /\ base \in commits[dev[d]].anc
  BY <1>1, CommonStored DEF mergeThreeWay
<1>3. base \in Nat
  BY <1>2, Lengths DEF SyncInv, Closed
<1>4. ours \in Trees /\ tree(mirror[d]) \in Trees /\ merged \in Trees
  BY <1>2, TreeTyped, MergedTyped
<1> DEFINE s == [base |-> base, ours |-> dev[d], theirs |-> mirror[d]]
<1>5. CASE session' = [session EXCEPT ![d] = s] /\ RunEnds(d) /\ UNCHANGED <<commits, store, intent>>
  <2>1. s \in Sessions /\ s.ours = dev[d] /\ s.theirs = mirror[d]
    BY <1>1, <1>3 DEF Sessions
  <2> HIDE DEF s
  <2>2. session' \in [Devices -> Sessions] /\ session'[d] = s /\ \A x \in Devices \ {d} : session'[x] = session[x]
    BY <1>5, <2>1 DEF SyncInv, SyncTyped
  <2>3. SyncTyped'
    BY <1>5, <2>2, Over DEF mergeThreeWay, SyncInv, SyncTyped
  <2>4. Named(d)'
    BY <1>1, <1>2, <1>5, <2>1, <2>2 DEF Named, mergeThreeWay
  <2> QED
    BY <1>5, <2>2, <2>3, <2>4, Over, OnlyRefsMove DEF mergeThreeWay, Still
<1> DEFINE push == <<<<"dev", c>>, <<"group", c>>>>
<1> DEFINE rest == [Advancing(d, c) EXCEPT !.push = push]
<1>6. CASE /\ Made(d, merged, Parents(d))
           /\ Plan(d, c, buildMaterializeOps(d, ours, merged), rest)
           /\ UNCHANGED <<session, refs, retried>>
  <2> HIDE DEF base, ours, merged, s
  <2>1. Parents(d) \in SUBSET store[d] /\ dev[d] \in Parents(d)
    BY <1>2 DEF Parents
  <2>2. /\ commits' \in Seq(Commits) /\ store' \in [Devices -> SUBSET Nat] /\ Grows /\ Whole(commits')
        /\ \A x \in Devices : store[x] \subseteq store'[x] /\ Closed(store'[x], commits')
        /\ c \in store'[d] /\ \A p \in Parents(d) : p \in commits'[c].anc
    BY <1>4, <1>6, <2>1, MadeStands
  <2> HIDE DEF c
  <2>3. push \in Seq(Pushes) /\ \A i \in DOMAIN push : push[i][2] = c
    BY <1>1, PushTyped
  <2> HIDE DEF push
  <2>4. rest \in Todos /\ rest.adv = c /\ rest.expect = dev[d] /\ rest.push = push
    BY <1>1, <2>3, AdvancingTyped DEF Todos
  <2> HIDE DEF rest
  <2>5. Ready(store'[d], commits', rest)
    BY <2>1, <2>2, <2>3, <2>4 DEF Ready
  <2>6. buildMaterializeOps(d, ours, merged) \in SUBSET Ops
    BY <1>4, OpsTyped
  <2>7. session' \in [Devices -> Sessions] /\ refs' \in [Devices -> Peers] /\ session' = session
    BY <1>6 DEF SyncInv, SyncTyped
  <2> QED
    BY <1>6, <2>2, <2>4, <2>5, <2>6, <2>7, PlanStep DEF mergeThreeWay
<1> QED
  BY <1>5, <1>6 DEF mergeThreeWay

LEMMA RunOnewayStep == ASSUME SyncInv, NEW d \in Devices, runOneway(d) PROVE SyncInv'
<1> DEFINE c == refs[d].group
<1>1. CASE RunEnds(d) /\ UNCHANGED <<intent>>
  <2>1. SyncTyped'
    BY <1>1, Over DEF runOneway, SyncInv, SyncTyped
  <2> QED
    BY <1>1, <2>1, Over, MovesOn DEF runOneway, persistent
<1>2. CASE /\ c \in store[d] /\ (dev[d] # 0 => dev[d] \in Ancestors(d, c)) /\ c # 0
           /\ Plan(d, c, buildMaterializeOps(d, tree(dev[d]), tree(c)), Advancing(d, c))
           /\ UNCHANGED <<refs, retried>>
  <2>1. c \in Nat /\ refs' \in [Devices -> Peers] /\ dev[d] \in store[d] \cup {0}
    BY <1>2 DEF SyncInv, SyncTyped, Peers, Named
  <2> HIDE DEF c
  <2>2. dev[d] # 0 => dev[d] \in commits[c].anc
    BY <1>2 DEF Ancestors
  <2>3. Advancing(d, c) \in Todos /\ Ready(store[d], commits, Advancing(d, c))
    BY <1>2, <2>1, <2>2, AdvancingTyped DEF Ready
  <2>4. buildMaterializeOps(d, tree(dev[d]), tree(c)) \in SUBSET Ops
    BY <1>2, <2>1, TreeTyped, OpsTyped
  <2> QED
    BY <1>2, <2>1, <2>3, <2>4, PlanOnly DEF runOneway
<1> QED
  BY <1>1, <1>2 DEF runOneway

\* The peer gets the whole history of what its ref is moved to.
LEMMA HandlePushed ==
  ASSUME SyncInv, NEW d \in Devices, NEW ref \in {"dev", "group"}, NEW c \in store[d], handlePush(d, ref, c)
  PROVE  /\ store' \in [Devices -> SUBSET Nat] /\ group' \in [Devices -> Nat] /\ mirror' \in [Devices -> Nat]
         /\ \A x \in Devices : /\ store[x] \subseteq store'[x] /\ Closed(store'[x], commits)
                               /\ group'[x] \in store'[x] \cup {0} /\ mirror'[x] <= Len(commits)
         /\ store'[d] = store[d] /\ group'[d] = group[d] /\ mirror'[d] = mirror[d]
<1> DEFINE o == Other(d)
<1>1. o \in Devices /\ o # d
  BY OtherDevice
<1> HIDE DEF o
<1>2. /\ c \in 1..Len(commits) /\ c \in commits[c].anc /\ commits[c].anc \subseteq 1..Len(commits)
      /\ \A x \in commits[c].anc : commits[x].anc \subseteq commits[c].anc
  BY DEF SyncInv, Closed, Whole
<1>3. store' = [store EXCEPT ![o] = store[o] \cup commits[c].anc]
  BY DEF handlePush, Imported, o
<1>4. /\ group' = group \/ group' = [group EXCEPT ![o] = c]
      /\ mirror' = mirror \/ mirror' = [mirror EXCEPT ![o] = c]
  BY DEF handlePush, o
<1>5. \A x \in Devices : Named(x) /\ Closed(store[x], commits)
  BY DEF SyncInv
<1>6. /\ store \in [Devices -> SUBSET Nat] /\ group \in [Devices -> Nat] /\ mirror \in [Devices -> Nat]
      /\ c \in Nat /\ c <= Len(commits) /\ commits[c].anc \subseteq Nat
  <2>1. store \in [Devices -> SUBSET Nat] /\ group \in [Devices -> Nat] /\ mirror \in [Devices -> Nat]
    BY DEF SyncInv, SyncTyped
  <2>2. 1..Len(commits) \subseteq Nat /\ \A i \in 1..Len(commits) : i <= Len(commits)
    BY Lengths
  <2> QED
    BY <1>2, <2>1, <2>2
<1>7. Closed(store[o] \cup commits[c].anc, commits)
  BY <1>1, <1>2, <1>5 DEF Closed
<1>8. store' \in [Devices -> SUBSET Nat] /\ group' \in [Devices -> Nat] /\ mirror' \in [Devices -> Nat]
  BY <1>3, <1>4, <1>6
<1>9. ASSUME NEW x \in Devices
      PROVE  /\ store[x] \subseteq store'[x] /\ Closed(store'[x], commits)
             /\ group'[x] \in store'[x] \cup {0} /\ mirror'[x] <= Len(commits)
  <2>1. CASE x = o
    BY <1>1, <1>2, <1>3, <1>4, <1>5, <1>6, <1>7, <2>1 DEF Named
  <2>2. CASE x # o
    BY <1>3, <1>4, <1>5, <1>6, <2>2 DEF Named
  <2> QED
    BY <2>1, <2>2
<1>10. store'[d] = store[d] /\ group'[d] = group[d] /\ mirror'[d] = mirror[d]
  BY <1>1, <1>3, <1>4, <1>6
<1> QED
  BY <1>8, <1>9, <1>10

LEMMA PushToPeerStep == ASSUME SyncInv, NEW d \in Devices, pushToPeer(d) PROVE SyncInv'
<1> DEFINE ref == Head(todo[d].push)[1]
<1> DEFINE c == Head(todo[d].push)[2]
<1> DEFINE left == [todo[d] EXCEPT !.push = Tail(todo[d].push)]
<1>1. /\ todo[d] \in Todos /\ todo[d].push \in Seq(Pushes) /\ Ready(store[d], commits, todo[d])
      /\ Named(d) /\ Working(d) /\ syncFaults \in 0..MaxSyncFaults
  BY DEF SyncInv, SyncTyped, Todos, Working, Writing
<1>2. CASE todo[d].push # <<>>
  <2>1. ref \in {"dev", "group"} /\ c \in store[d]
    <3>1. Head(todo[d].push) = todo[d].push[1] /\ 1 \in DOMAIN todo[d].push /\ todo[d].push[1] \in Pushes
      BY <1>1, <1>2
    <3> QED
      BY <1>1, <3>1 DEF Ready, Pushes
  <2>2. /\ left \in Todos /\ Ready(store[d], commits, left)
    <3>1. Tail(todo[d].push) \in Seq(Pushes)
          /\ \A i \in DOMAIN Tail(todo[d].push) :
               i + 1 \in DOMAIN todo[d].push /\ Tail(todo[d].push)[i] = todo[d].push[i + 1]
      BY <1>1, <1>2, HeadTailProperties
    <3>2. left \in Todos /\ left.push = Tail(todo[d].push) /\ left.next = todo[d].next /\ left.adv = todo[d].adv
          /\ left.expect = todo[d].expect /\ left.asked = todo[d].asked
      BY <1>1, <3>1 DEF Todos
    <3> QED
      BY <1>1, <3>1, <3>2 DEF Ready
  <2>3. syncFaults' \in 0..MaxSyncFaults
    BY <1>1, SyncAssumption DEF pushToPeer, OneFault
  <2> HIDE DEF left, ref, c
  <2>4. /\ todo' \in [Devices -> Todos] /\ pc' \in [Devices -> Stages] /\ refs' \in [Devices -> Peers]
        /\ retried' \in [Devices -> BOOLEAN] /\ \A x \in Devices \ {d} : pc'[x] = pc[x] /\ todo'[x] = todo[x]
        /\ pc'[d] \in {"idle", "refs", "push"} /\ Ready(store[d], commits, todo'[d])
    <3>1. CASE RunEnds(d)
      BY <3>1, Over, NothingTodo
    <3>2. CASE todo' = [todo EXCEPT ![d] = left] /\ UNCHANGED <<pc, refs, retried>>
      BY <2>2, <3>2 DEF pushToPeer, SyncInv, SyncTyped
    <3>3. CASE /\ todo' = [todo EXCEPT ![d] = NoTodo] /\ retried' = [retried EXCEPT ![d] = TRUE]
               /\ refs' = [refs EXCEPT ![d] = NoRefs] /\ Go(d, "refs")
      <4>1. NoRefs \in Peers /\ "refs" \in Stages
        BY DEF NoRefs, Peers, Stages
      <4> QED
        BY <3>3, <4>1, NothingTodo DEF Go, SyncInv, SyncTyped
    <3> QED
      BY <1>2, <3>1, <3>2, <3>3 DEF pushToPeer, left
  <2>5. \/ UNCHANGED <<store, group, mirror>>
        \/ handlePush(d, ref, c)
    BY <1>2 DEF pushToPeer, ref, c
  <2>6. /\ store' \in [Devices -> SUBSET Nat] /\ group' \in [Devices -> Nat] /\ mirror' \in [Devices -> Nat]
        /\ \A x \in Devices : /\ store[x] \subseteq store'[x] /\ Closed(store'[x], commits)
                              /\ group'[x] \in store'[x] \cup {0} /\ mirror'[x] <= Len(commits)
        /\ store'[d] = store[d] /\ group'[d] = group[d] /\ mirror'[d] = mirror[d]
    <3>1. CASE UNCHANGED <<store, group, mirror>>
      BY <3>1 DEF SyncInv, SyncTyped, Named
    <3>2. CASE handlePush(d, ref, c)
      BY <2>1, <3>2, HandlePushed
    <3> QED
      BY <2>5, <3>1, <3>2
  <2>7. SyncTyped'
    BY <2>3, <2>4, <2>6 DEF pushToPeer, SyncInv, SyncTyped
  <2>8. Named(d)'
    BY <1>1, <2>6 DEF Named, pushToPeer
  <2>9. Working(d)'
    BY <1>1, <2>4, <2>6 DEF Working, Writing, pushToPeer
  <2>10. Grows /\ Whole(commits') /\ commits' = commits
    BY Lengths DEF Grows, pushToPeer, SyncInv
  <2>11. \A x \in Devices \ {d} : Still(x)
    BY <2>4 DEF Still, pushToPeer
  <2> QED
    BY <2>6, <2>7, <2>8, <2>9, <2>10, <2>11, OneMoves DEF pushToPeer
<1>3. CASE todo[d].push = <<>>
  <2>1. RunEnds(d) /\ UNCHANGED <<store, group, mirror, syncFaults>>
    BY <1>3 DEF pushToPeer
  <2>2. SyncTyped'
    BY <2>1, Over DEF pushToPeer, SyncInv, SyncTyped
  <2> QED
    BY <2>1, <2>2, Over, MovesOn DEF pushToPeer, persistent
<1> QED
  BY <1>2, <1>3

\* What a plan waits for besides its line: an answer, and what to push.
LEMMA AskedTyped == ASSUME NEW td \in Todos
                    PROVE  [td EXCEPT !.asked = TRUE] \in Todos /\ [td EXCEPT !.asked = TRUE].adv = td.adv
                           /\ [td EXCEPT !.asked = TRUE].asked /\ [td EXCEPT !.asked = TRUE].push = td.push
<1>1. td.adv \in Nat /\ td.push \in Seq(Pushes)
  BY DEF Todos
<1>2. [td EXCEPT !.asked = TRUE] \in Todos
  BY DEF Todos
<1>3. [td EXCEPT !.asked = TRUE].asked
  BY Zenon DEF Todos
<1>4. [td EXCEPT !.asked = TRUE].adv = td.adv /\ [td EXCEPT !.asked = TRUE].push = td.push
  BY DEF Todos
<1> QED
  BY <1>2, <1>3, <1>4

LEMMA PushingTyped == ASSUME NEW td \in Todos, NEW q \in Seq(Pushes)
                      PROVE  [td EXCEPT !.push = q] \in Todos /\ [td EXCEPT !.push = q].adv = td.adv
                             /\ [td EXCEPT !.push = q].asked = td.asked /\ [td EXCEPT !.push = q].push = q
<1>1. [td EXCEPT !.push = q] \in Todos
  BY DEF Todos
<1>2. [td EXCEPT !.push = q].asked = td.asked
  BY Zenon DEF Todos
<1>3. [td EXCEPT !.push = q].adv = td.adv /\ [td EXCEPT !.push = q].push = q
  BY DEF Todos
<1> QED
  BY <1>1, <1>2, <1>3

\* The user's choices make a commit that joins the lines of the session.
LEMMA ResolveConflictsStep == ASSUME SyncInv, NEW d \in Devices, resolveConflicts(d) PROVE SyncInv'
<1> DEFINE s == session[d]
<1> DEFINE bad == Conflicted(tree(s.base), tree(s.ours), tree(s.theirs))
<1> DEFINE c == Len(commits) + 1
<1> DEFINE both == mergeTrees(tree(s.base), tree(s.ours), tree(s.theirs))
<1> DEFINE final(choice) == [p \in Paths |->
             IF p \notin bad THEN mergeTrees(tree(s.base), tree(s.ours), tree(s.theirs))[p]
             ELSE CASE choice[p] = "ours" -> tree(s.ours)[p]
                    [] choice[p] = "theirs" -> tree(s.theirs)[p]
                    [] OTHER -> 0]
<1> DEFINE push == <<<<"dev", c>>, <<"group", c>>>>
<1> DEFINE rest == [Advancing(d, c) EXCEPT !.asked = TRUE, !.push = push]
<1>1. PICK choice \in [bad -> {"ours", "theirs", "delete"}] :
        /\ Made(d, final(choice), {s.ours, s.theirs})
        /\ Plan(d, c, buildMaterializeOps(d, tree(s.ours), final(choice)), rest)
  BY DEF resolveConflicts
<1>2. s.ours \in store[d] /\ s.theirs \in store[d]
  BY DEF resolveConflicts, SyncInv, Named
<1>3. tree(s.ours) \in Trees /\ tree(s.theirs) \in Trees
  BY <1>2, TreeTyped
<1>4. final(choice) \in Trees
  <2>1. both \in Trees
    BY <1>3, MergedTyped
  <2>2. ASSUME NEW p \in Paths PROVE final(choice)[p] \in Contents
    <3>1. tree(s.ours)[p] \in Contents /\ tree(s.theirs)[p] \in Contents /\ both[p] \in Contents /\ 0 \in Contents
      BY <1>3, <2>1, SyncAssumption DEF Trees
    <3>2. CASE p \notin bad
      BY <3>1, <3>2
    <3>3. CASE p \in bad
      <4>1. choice[p] \in {"ours", "theirs", "delete"}
        BY <3>3
      <4> QED
        BY <3>1, <3>3, <4>1
    <3> QED
      BY <3>2, <3>3
  <2> QED
    BY <2>2 DEF Trees
<1> DEFINE t == final(choice)
<1>5. t \in Trees /\ Made(d, t, {s.ours, s.theirs}) /\ Plan(d, c, buildMaterializeOps(d, tree(s.ours), t), rest)
  BY <1>1, <1>4
<1> HIDE DEF t
<1> DEFINE parents == {s.ours, s.theirs}
<1>6. parents \in SUBSET store[d]
  BY <1>2
<1> HIDE DEF parents
<1>7. /\ commits' \in Seq(Commits) /\ store' \in [Devices -> SUBSET Nat] /\ Grows /\ Whole(commits')
      /\ \A x \in Devices : store[x] \subseteq store'[x] /\ Closed(store'[x], commits')
      /\ c \in store'[d]
  <2>1. Made(d, t, parents)
    BY <1>5 DEF parents
  <2> QED
    BY <1>5, <1>6, <2>1, MadeStands
<1>8. c \in Nat
  BY Lengths
<1> HIDE DEF c
<1>9. push \in Seq(Pushes) /\ \A i \in DOMAIN push : push[i][2] = c
  BY <1>8, PushTyped
<1> HIDE DEF push
<1>10. rest \in Todos /\ rest.adv = c /\ rest.asked /\ rest.push = push
  <2> DEFINE adv == Advancing(d, c)
             asked == [adv EXCEPT !.asked = TRUE]
  <2>1. adv \in Todos /\ adv.adv = c
    BY <1>8, AdvancingTyped
  <2>2. rest = [asked EXCEPT !.push = push]
    OBVIOUS
  <2> HIDE DEF adv
  <2>3. asked \in Todos /\ asked.adv = c /\ asked.asked
    BY <2>1, AskedTyped
  <2> HIDE DEF asked, rest
  <2>4. [asked EXCEPT !.push = push] \in Todos /\ [asked EXCEPT !.push = push].adv = c
        /\ [asked EXCEPT !.push = push].asked = asked.asked /\ [asked EXCEPT !.push = push].push = push
    BY <2>3, <1>9, PushingTyped
  <2> QED
    BY <2>2, <2>3, <2>4, Zenon
<1> HIDE DEF rest
<1>11. Ready(store'[d], commits', rest)
  BY <1>7, <1>9, <1>10 DEF Ready
<1>12. buildMaterializeOps(d, tree(s.ours), t) \in SUBSET Ops
  BY <1>5, OpsTyped
<1>13. /\ session' \in [Devices -> Sessions] /\ session'[d] = NoSession /\ \A x \in Devices \ {d} : session'[x] = session[x]
  <2>1. NoSession \in Sessions
    BY DEF NoSession, Sessions
  <2>2. session' = [session EXCEPT ![d] = NoSession]
    BY DEF resolveConflicts
  <2> QED
    BY <2>1, <2>2 DEF SyncInv, SyncTyped
<1>14. refs' \in [Devices -> Peers]
  BY PeerTyped DEF resolveConflicts, SyncInv, SyncTyped
<1> HIDE DEF s
<1> QED
  BY <1>5, <1>7, <1>10, <1>11, <1>12, <1>13, <1>14, PlanStep DEF resolveConflicts

\* The user gives up the local files for the seed's.
LEMMA ResolveSeedBlockStep == ASSUME SyncInv, NEW d \in Devices, resolveSeedBlock(d) PROVE SyncInv'
<1> DEFINE rest == [Advancing(d, block[d]) EXCEPT !.asked = TRUE]
<1>1. block[d] \in store[d] /\ block[d] \in Nat
  BY DEF SyncInv, SyncTyped, Named, resolveSeedBlock
<1>2. rest \in Todos /\ rest.adv = block[d] /\ rest.asked /\ rest.push = <<>>
  <2> DEFINE adv == Advancing(d, block[d])
  <2>1. adv \in Todos /\ adv.adv = block[d] /\ adv.push = <<>>
    BY <1>1, AdvancingTyped
  <2>2. rest = [adv EXCEPT !.asked = TRUE]
    OBVIOUS
  <2> HIDE DEF adv, rest
  <2>3. [adv EXCEPT !.asked = TRUE] \in Todos /\ [adv EXCEPT !.asked = TRUE].adv = adv.adv
        /\ [adv EXCEPT !.asked = TRUE].asked /\ [adv EXCEPT !.asked = TRUE].push = adv.push
    BY <2>1, AskedTyped
  <2> QED
    BY <2>1, <2>2, <2>3, Zenon
<1>3. Plan(d, block[d], buildMaterializeOps(d, wt[d], tree(block[d])), rest)
  BY DEF resolveSeedBlock
<1> HIDE DEF rest
<1>4. Ready(store[d], commits, rest)
  BY <1>1, <1>2 DEF Ready
<1>5. buildMaterializeOps(d, wt[d], tree(block[d])) \in SUBSET Ops
  BY <1>1, TreeTyped, OpsTyped
<1>6. refs' \in [Devices -> Peers]
  BY DEF resolveSeedBlock, SyncInv, SyncTyped
<1> QED
  BY <1>1, <1>2, <1>3, <1>4, <1>5, <1>6, PlanOnly DEF resolveSeedBlock

LEMMA SyncKept == ASSUME SyncInv, [SyncNext]_syncVars PROVE SyncInv'
<1>1. CASE UNCHANGED syncVars
  <2>1. SyncTyped' /\ Whole(commits)'
    BY <1>1 DEF syncVars, persistent, run, history, SyncInv, SyncTyped, Whole
  <2>2. ASSUME NEW d \in Devices PROVE (Closed(store[d], commits) /\ Named(d) /\ Working(d))'
    BY <1>1 DEF syncVars, persistent, run, history, SyncInv, Named, Working, Writing
  <2> QED
    BY <2>1, <2>2 DEF SyncInv
<1>2. CASE SyncNext
  <2>1. PICK d \in Devices : Edit(d) \/ RunFails(d) \/ Run(d) \/ resolveConflicts(d) \/ resolveSeedBlock(d)
    BY <1>2 DEF SyncNext
  <2>2. CASE Run(d)
    BY <2>2, RecoverIntentStep, RecoverLookStep, RecoverOpStep, ApplyOpStep, AdvanceRefReadStep, AdvanceRefWriteStep, MarkDoneStep,
       AdvanceDeviceStep, FirstRefsStep, CommitLocalStep, PublishStep, FirstPullStep, FetchRefsStep,
       ImportObjectsStep, MergeUpToDateStep, MergeUnrelatedStep, MergeFastForwardStep, MergeThreeWayStep,
       RunOnewayStep, PushToPeerStep DEF Run
  <2> QED
    BY <2>1, <2>2, EditStep, FailStep, ResolveConflictsStep, ResolveSeedBlockStep
<1> QED
  BY <1>1, <1>2

\* The device line is moved by a commit on top of it, or to what continues it.
LEMMA LineForward ==
  ASSUME SyncInv, [SyncNext]_syncVars, NEW x \in Devices, dev'[x] # dev[x], dev[x] # 0, ~todo[x].asked
  PROVE  dev[x] \in commits'[dev'[x]].anc
<1>1. PICK d \in Devices : commitLocal(d) \/ advanceDevice(d)
  <2>1. dev' # dev
    OBVIOUS
  <2>2. SyncNext
    BY <2>1 DEF syncVars, persistent
  <2>3. PICK d \in Devices : Edit(d) \/ RunFails(d) \/ Run(d) \/ resolveConflicts(d) \/ resolveSeedBlock(d)
    BY <2>2 DEF SyncNext
  <2>4. ~Edit(d) /\ ~RunFails(d) /\ ~resolveConflicts(d) /\ ~resolveSeedBlock(d)
    BY <2>1 DEF Edit, RunFails, resolveConflicts, resolveSeedBlock, persistent
  <2>5. ~recoverIntent(d) /\ ~recoverLook(d) /\ ~recoverOp(d) /\ ~applyOp(d) /\ ~advanceRefRead(d) /\ ~advanceRefWrite(d) /\ ~markDone(d)
        /\ ~firstRefs(d) /\ ~publish(d) /\ ~firstPull(d)
    BY <2>1 DEF recoverIntent, recoverLook, recoverOp, applyOp, advanceRefRead, advanceRefWrite, markDone, firstRefs, publish,
       firstPull, persistent
  <2>6. ~fetchRefs(d) /\ ~importObjects(d) /\ ~mergeUpToDate(d) /\ ~mergeUnrelated(d) /\ ~mergeFastForward(d)
        /\ ~mergeThreeWay(d) /\ ~runOneway(d) /\ ~pushToPeer(d)
    BY <2>1 DEF fetchRefs, importObjects, mergeUpToDate, mergeUnrelated, mergeFastForward, mergeThreeWay, runOneway,
       pushToPeer, persistent
  <2> QED
    BY <2>3, <2>4, <2>5, <2>6 DEF Run
<1>2. Named(x) /\ Working(x) /\ Len(commits) \in Nat /\ wt[x] \in Trees
  BY Lengths DEF SyncInv, SyncTyped
<1>3. CASE commitLocal(d)
  <2>1. dev' = [dev EXCEPT ![d] = Len(commits) + 1] /\ Made(d, wt[d], IF dev[d] = 0 THEN {} ELSE {dev[d]})
    BY <1>3 DEF commitLocal, scanWorktree
  <2>2. x = d /\ dev'[x] = Len(commits) + 1
    BY <2>1 DEF SyncInv, SyncTyped
  <2> DEFINE parents == {dev[x]}
  <2>3. parents \in SUBSET store[x] /\ Made(x, wt[x], parents) /\ dev[x] \in parents
    BY <1>2, <2>1, <2>2 DEF Named
  <2> HIDE DEF parents
  <2> QED
    BY <1>2, <2>2, <2>3, MadeStands
<1>4. CASE advanceDevice(d)
  <2>1. dev' = [dev EXCEPT ![d] = todo[d].adv] /\ (todo[d].asked \/ dev[d] = todo[d].expect) /\ UNCHANGED commits
    BY <1>4 DEF advanceDevice
  <2>2. x = d /\ dev'[x] = todo[x].adv /\ dev[x] = todo[x].expect
    BY <2>1 DEF SyncInv, SyncTyped
  <2>3. todo[x].next = "advance"
    BY <1>2, <1>4, <2>2 DEF Working, Writing, advanceDevice
  <2> QED
    BY <1>2, <2>1, <2>2, <2>3 DEF Working, Writing, Ready
<1> QED
  BY <1>1, <1>3, <1>4

(***************************************************************************)
(* The edits.  What a recovery has found is never what the intent wants to *)
(* replace, so no operation passes the look at it again; a new intent is   *)
(* only written when there is none, and then nothing is found.             *)
(***************************************************************************)
OnePerPath(ops) == \A a, b \in ops : a.path = b.path => a = b

Kept(d) ==
  /\ OnePerPath(intent[d].ops)
  /\ \A f \in found[d] : /\ wt[d][f.path] = f.content
                         /\ \A op \in intent[d].ops : op.path = f.path => f.content # op.pre
  /\ intent[d] = NoIntent \/ pc[d] = "apply" => found[d] = {}
  /\ pc[d] \in {"recover", "recoverApply"} => todo[d].ops \subseteq intent[d].ops
  /\ pc[d] = "recoverApply" => \A f \in found[d] : f.path # First(todo[d].ops).path

EditsKept == \A d \in Devices : Kept(d)

LEMMA KeptBase == ASSUME SyncInit PROVE EditsKept
  BY DEF SyncInit, EditsKept, Kept, OnePerPath, NoIntent

\* Nothing is written, planned or found, and nobody begins to write.
LEMMA KeptRest ==
  ASSUME EditsKept, UNCHANGED <<wt, intent, found>>,
         \A x \in Devices : (pc'[x] = pc[x] /\ todo'[x] = todo[x]) \/ pc'[x] \notin Writing
  PROVE  EditsKept'
<1>1. ASSUME NEW x \in Devices PROVE Kept(x)'
  BY <1>1 DEF EditsKept, Kept, Writing
<1> QED
  BY <1>1 DEF EditsKept

\* One device moves to a place where it does not write.
LEMMA KeptElsewhere ==
  ASSUME SyncInv, EditsKept, NEW d \in Devices, UNCHANGED <<wt, intent, found>>, NEW w \in Stages \ Writing,
         Go(d, w), \A x \in Devices \ {d} : todo'[x] = todo[x]
  PROVE  EditsKept'
<1>1. \A x \in Devices : pc'[x] = IF x = d THEN w ELSE pc[x]
  BY DEF Go, SyncInv, SyncTyped
<1> QED
  BY <1>1, KeptRest

LEMMA KeptOver ==
  ASSUME SyncInv, EditsKept, NEW d \in Devices, UNCHANGED <<wt, intent, found>>, RunEnds(d)
  PROVE  EditsKept'
<1>1. Go(d, "idle") /\ "idle" \in Stages \ Writing /\ \A x \in Devices \ {d} : todo'[x] = todo[x]
  BY DEF RunEnds, SyncInv, SyncTyped, Stages, Writing
<1> QED
  BY <1>1, KeptElsewhere

LEMMA OneOpEach ==
  ASSUME NEW d, NEW ours, NEW merged
  PROVE  OnePerPath(buildMaterializeOps(d, ours, merged)) /\ OnePerPath({})
  BY DEF OnePerPath, buildMaterializeOps

LEMMA KeptPlan ==
  ASSUME SyncInv, EditsKept, NEW d \in Devices, NEW target, NEW ops, NEW rest, Plan(d, target, ops, rest),
         OnePerPath(ops), UNCHANGED <<wt, found>>
  PROVE  EditsKept'
<1>1. found[d] = {}
  BY DEF EditsKept, Kept, Plan
<1>2. /\ intent' = [intent EXCEPT ![d] = [target |-> target, old |-> group[d], ops |-> ops]]
      /\ pc' = [pc EXCEPT ![d] = "apply"] /\ \A x \in Devices \ {d} : todo'[x] = todo[x]
  BY DEF Plan, Go, SyncInv, SyncTyped
<1>3. intent'[d].ops = ops /\ pc'[d] = "apply" /\ \A x \in Devices \ {d} : intent'[x] = intent[x] /\ pc'[x] = pc[x]
  BY <1>2 DEF SyncInv, SyncTyped
<1>4. Kept(d)'
  BY <1>1, <1>3 DEF Kept
<1>5. ASSUME NEW x \in Devices \ {d} PROVE Kept(x)'
  BY <1>2, <1>3 DEF EditsKept, Kept
<1> QED
  BY <1>4, <1>5 DEF EditsKept

\* The user changes a file: what was found there is the user's no more to keep.
LEMMA KeptEdit == ASSUME SyncInv, EditsKept, NEW d \in Devices, Edit(d) PROVE EditsKept'
<1>1. PICK p \in Paths : /\ wt' = [wt EXCEPT ![d][p] = Typed(d)]
                         /\ found' = [found EXCEPT ![d] = {f \in @ : f.path # p}]
  BY SyncAssumption DEF Edit
<1>2. UNCHANGED <<intent, pc, todo>>
  BY DEF Edit, persistent, run
<1>3. ASSUME NEW x \in Devices PROVE Kept(x)'
  <2>1. wt \in [Devices -> Trees] /\ found \in [Devices -> SUBSET Finds] /\ Kept(x)
    BY DEF SyncInv, SyncTyped, EditsKept
  <2>2. found'[x] \subseteq found[x]
    BY <1>1, <2>1
  <2>3. \A f \in found'[x] : wt'[x][f.path] = wt[x][f.path]
    BY <1>1, <2>1 DEF Trees, Finds
  <2> QED
    BY <1>2, <2>1, <2>2, <2>3 DEF Kept
<1> QED
  BY <1>3 DEF EditsKept

LEMMA KeptRecoverIntent == ASSUME SyncInv, EditsKept, NEW d \in Devices, recoverIntent(d) PROVE EditsKept'
<1>1. UNCHANGED <<wt, intent, found>> /\ (\A x \in Devices \ {d} : todo'[x] = todo[x]) /\ intent[d] # NoIntent
  BY DEF recoverIntent, persistent, history, SyncInv, SyncTyped
<1>2. CASE Go(d, "done")
  BY <1>1, <1>2, KeptElsewhere DEF Stages, Writing
<1>3. CASE Go(d, "recover") /\ todo' = [todo EXCEPT ![d].ops = intent[d].ops, ![d].next = "refs"]
  <2>1. todo'[d].ops = intent[d].ops
    BY <1>3 DEF SyncInv, SyncTyped, Todos
  <2>2. pc'[d] = "recover" /\ \A x \in Devices \ {d} : pc'[x] = pc[x]
    BY <1>3 DEF Go, SyncInv, SyncTyped
  <2>3. Kept(d)'
    BY <1>1, <2>1, <2>2 DEF EditsKept, Kept
  <2>4. ASSUME NEW x \in Devices \ {d} PROVE Kept(x)'
    BY <1>1, <2>2 DEF EditsKept, Kept
  <2> QED
    BY <2>3, <2>4 DEF EditsKept
<1> QED
  BY <1>2, <1>3 DEF recoverIntent

LEMMA KeptRecoverLook == ASSUME SyncInv, EditsKept, NEW d \in Devices, recoverLook(d) PROVE EditsKept'
<1>1. Kept(d) /\ pc[d] = "recover" /\ todo[d].ops # {} /\ todo[d].ops \subseteq intent[d].ops
      /\ intent[d] # NoIntent /\ UNCHANGED <<wt, intent>>
  BY DEF EditsKept, Kept, recoverLook, persistent, SyncInv, Working, Writing
<1>2. PICK op \in intent[d].ops : op = First(todo[d].ops)
  BY <1>1, FirstIsOne
<1> DEFINE e1 == [path |-> op.path, content |-> wt[d][op.path]]
<1>3. /\ found'[d] = IF wt[d][op.path] \in {op.pre, op.post} THEN found[d] ELSE found[d] \cup {e1}
      /\ \A x \in Devices \ {d} : found'[x] = found[x]
  BY <1>2 DEF recoverLook, SyncInv, SyncTyped
<1>4. \A f \in found'[d] : /\ wt[d][f.path] = f.content
                           /\ \A o \in intent[d].ops : o.path = f.path => f.content # o.pre
  <2>1. wt[d][op.path] \notin {op.pre, op.post} =>
          /\ wt[d][e1.path] = e1.content /\ \A o \in intent[d].ops : o.path = e1.path => e1.content # o.pre
    BY <1>1 DEF Kept, OnePerPath
  <2> QED
    BY <1>1, <1>3, <2>1 DEF Kept
<1>5. ASSUME NEW x \in Devices \ {d} PROVE Kept(x)'
  <2>1. pc'[x] = pc[x] /\ todo'[x] = todo[x]
    BY DEF recoverLook, Go, SyncInv, SyncTyped
  <2> QED
    BY <1>1, <1>3, <2>1 DEF EditsKept, Kept
<1>6. CASE Untouched(d, op)
  <2>1. pc'[d] = "recoverApply" /\ todo' = todo /\ wt[d][op.path] = op.pre
    BY <1>2, <1>6 DEF recoverLook, Go, Untouched, SyncInv, SyncTyped
  <2>2. \A f \in found'[d] : f.path # op.path
    BY <1>4, <2>1
  <2>3. Kept(d)'
    BY <1>1, <1>2, <1>4, <2>1, <2>2 DEF Kept
  <2> QED
    BY <1>5, <2>3 DEF EditsKept
<1>7. CASE ~Untouched(d, op)
  <2>1. pc'[d] = "recover"
    BY <1>1, <1>2, <1>7 DEF recoverLook
  <2>2. todo' = [todo EXCEPT ![d].ops = @ \ {op}, ![d].bad = @ \/ wt[d][op.path] # op.post]
    BY <1>2, <1>7 DEF recoverLook
  <2>3. todo'[d].ops \subseteq todo[d].ops
    BY <2>2 DEF SyncInv, SyncTyped, Todos
  <2>4. Kept(d)'
    BY <1>1, <1>4, <2>1, <2>3 DEF Kept
  <2> QED
    BY <1>5, <2>4 DEF EditsKept
<1> QED
  BY <1>6, <1>7

\* An operation is written to a path where nothing was found.
LEMMA KeptWrite ==
  ASSUME SyncInv, EditsKept, NEW d \in Devices, NEW op \in Ops, wt' = [wt EXCEPT ![d][op.path] = op.post],
         \A f \in found[d] : f.path # op.path, UNCHANGED <<intent, found>>,
         \A x \in Devices \ {d} : pc'[x] = pc[x] /\ todo'[x] = todo[x],
         pc'[d] \in {"recover", "apply"}, pc'[d] = "apply" => found[d] = {},
         pc'[d] = "recover" => todo'[d].ops \subseteq intent[d].ops
  PROVE  EditsKept'
<1>1. ASSUME NEW x \in Devices PROVE \A f \in found[x] : wt'[x][f.path] = wt[x][f.path]
  BY DEF SyncInv, SyncTyped, Trees, Finds, Ops
<1>2. ASSUME NEW x \in Devices \ {d} PROVE Kept(x)'
  BY <1>1 DEF EditsKept, Kept
<1>3. Kept(d)'
  BY <1>1 DEF EditsKept, Kept
<1> QED
  BY <1>2, <1>3 DEF EditsKept

LEMMA KeptRecoverOp == ASSUME SyncInv, EditsKept, NEW d \in Devices, recoverOp(d) PROVE EditsKept'
<1>1. /\ Kept(d) /\ pc[d] = "recoverApply" /\ todo[d].ops # {} /\ todo[d].ops \subseteq intent[d].ops
      /\ todo[d].ops \subseteq Ops
  BY DEF EditsKept, Kept, recoverOp, SyncInv, Working, Writing
<1>2. PICK op \in Ops : op = First(todo[d].ops)
  BY <1>1, FirstIsOne
<1>3. wt' = [wt EXCEPT ![d][op.path] = op.post] /\ todo' = [todo EXCEPT ![d].ops = @ \ {op}]
  BY <1>2 DEF recoverOp
<1>4. /\ todo'[d].ops \subseteq todo[d].ops /\ pc'[d] = "recover"
      /\ \A x \in Devices \ {d} : pc'[x] = pc[x] /\ todo'[x] = todo[x]
  BY <1>3 DEF recoverOp, Go, SyncInv, SyncTyped, Todos
<1>5. (\A f \in found[d] : f.path # op.path) /\ UNCHANGED <<intent, found>>
  BY <1>1, <1>2 DEF Kept, recoverOp, persistent
<1> QED
  BY <1>1, <1>3, <1>4, <1>5, KeptWrite

LEMMA KeptApplyOp == ASSUME SyncInv, EditsKept, NEW d \in Devices, applyOp(d) PROVE EditsKept'
<1>1. Kept(d) /\ pc[d] = "apply" /\ todo[d].ops # {} /\ todo[d].ops \subseteq Ops /\ found[d] = {}
  BY DEF EditsKept, Kept, applyOp, SyncInv, Working, Writing
<1>2. PICK op \in Ops : op = First(todo[d].ops)
  BY <1>1, FirstIsOne
<1>3. wt' = [wt EXCEPT ![d][op.path] = op.post] /\ UNCHANGED <<intent, found, pc>>
  BY <1>2 DEF applyOp, persistent
<1>4. \A x \in Devices \ {d} : todo'[x] = todo[x]
  BY DEF applyOp, SyncInv, SyncTyped
<1> QED
  BY <1>1, <1>3, <1>4, KeptWrite

LEMMA KeptMarkDone == ASSUME SyncInv, EditsKept, NEW d \in Devices, markDone(d) PROVE EditsKept'
<1>1. /\ found'[d] = {} /\ intent'[d] = NoIntent /\ pc'[d] = todo[d].next /\ UNCHANGED <<wt, todo>>
      /\ \A x \in Devices \ {d} : found'[x] = found[x] /\ intent'[x] = intent[x] /\ pc'[x] = pc[x]
  BY DEF markDone, Go, SyncInv, SyncTyped
<1>2. todo[d].next \notin Writing
  BY DEF SyncInv, SyncTyped, Todos, Writing
<1>3. Kept(d)'
  BY <1>1, <1>2 DEF Kept, OnePerPath, NoIntent, Writing
<1>4. ASSUME NEW x \in Devices \ {d} PROVE Kept(x)'
  BY <1>1 DEF EditsKept, Kept
<1> QED
  BY <1>3, <1>4 DEF EditsKept

LEMMA KeptQuiet ==
  ASSUME SyncInv, EditsKept, NEW d \in Devices,
         \/ advanceRefRead(d) \/ advanceRefWrite(d) \/ advanceDevice(d) \/ firstRefs(d) \/ commitLocal(d)
         \/ fetchRefs(d) \/ importObjects(d) \/ mergeUpToDate(d) \/ mergeUnrelated(d) \/ RunFails(d)
  PROVE  EditsKept'
<1>1. UNCHANGED <<wt, intent, found>>
  BY DEF advanceRefRead, advanceRefWrite, advanceDevice, firstRefs, commitLocal, fetchRefs, importObjects,
     mergeUpToDate, mergeUnrelated, RunFails, persistent, history
<1>2. CASE RunEnds(d)
  BY <1>1, <1>2, KeptOver
<1>3. CASE ~RunEnds(d)
  <2>1. PICK w \in Stages \ Writing : Go(d, w)
    <3>1. {"casWrite", "done", "push", "commit", "fetch", "firstPull", "idle", "publish", "objects", "merge"}
             \subseteq Stages \ Writing
      BY DEF Stages, Writing
    <3> QED
      BY <1>3, <3>1 DEF advanceRefRead, advanceRefWrite, advanceDevice, firstRefs, commitLocal, fetchRefs,
         importObjects, mergeUpToDate, mergeUnrelated, RunFails
  <2>2. \A x \in Devices \ {d} : todo'[x] = todo[x]
    BY <1>3 DEF advanceRefRead, advanceRefWrite, advanceDevice, firstRefs, commitLocal, fetchRefs,
       importObjects, mergeUpToDate, mergeUnrelated, RunFails, SyncInv, SyncTyped
  <2> QED
    BY <1>1, <2>1, <2>2, KeptElsewhere
<1> QED
  BY <1>2, <1>3

LEMMA KeptPlanning ==
  ASSUME SyncInv, EditsKept, NEW d \in Devices,
         \/ publish(d) \/ firstPull(d) \/ mergeFastForward(d) \/ mergeThreeWay(d) \/ runOneway(d)
         \/ resolveConflicts(d) \/ resolveSeedBlock(d)
  PROVE  EditsKept'
<1>1. UNCHANGED <<wt, found>>
  BY DEF publish, firstPull, mergeFastForward, mergeThreeWay, runOneway, resolveConflicts, resolveSeedBlock
<1>2. CASE UNCHANGED intent /\ RunEnds(d)
  BY <1>1, <1>2, KeptOver
<1>3. CASE UNCHANGED intent /\ Go(d, "push") /\ \A x \in Devices \ {d} : todo'[x] = todo[x]
  BY <1>1, <1>3, KeptElsewhere DEF Stages, Writing
<1>4. CASE \E target, ops, rest : Plan(d, target, ops, rest) /\ OnePerPath(ops)
  BY <1>1, <1>4, KeptPlan
<1>5. CASE publish(d)
  <2>1. CASE group[d] = dev[d]
    <3>1. UNCHANGED intent /\ Go(d, "push") /\ \A x \in Devices \ {d} : todo'[x] = todo[x]
      BY <1>5, <2>1 DEF publish, SyncInv, SyncTyped
    <3> QED
      BY <3>1, <1>3
  <2>2. CASE group[d] # dev[d]
    BY <1>4, <1>5, <2>2, OneOpEach DEF publish
  <2> QED
    BY <2>1, <2>2
<1>6. CASE firstPull(d)
  BY <1>2, <1>4, <1>6, OneOpEach DEF firstPull
<1>7. CASE mergeFastForward(d)
  BY <1>4, <1>7, OneOpEach DEF mergeFastForward
<1>8. CASE mergeThreeWay(d)
  BY <1>2, <1>4, <1>8, OneOpEach DEF mergeThreeWay
<1>9. CASE runOneway(d)
  BY <1>2, <1>4, <1>9, OneOpEach DEF runOneway
<1>10. CASE resolveConflicts(d)
  BY <1>4, <1>10, OneOpEach DEF resolveConflicts
<1>11. CASE resolveSeedBlock(d)
  BY <1>4, <1>11, OneOpEach DEF resolveSeedBlock
<1> QED
  BY <1>5, <1>6, <1>7, <1>8, <1>9, <1>10, <1>11

\* A push ends, goes on, or begins the round again.
LEMMA KeptPush == ASSUME SyncInv, EditsKept, NEW d \in Devices, pushToPeer(d) PROVE EditsKept'
<1>1. UNCHANGED <<wt, intent, found>>
  BY DEF pushToPeer
<1>2. pc[d] = "push" /\ "push" \notin Writing /\ "refs" \in Stages \ Writing
  BY DEF pushToPeer, Stages, Writing
<1>3. CASE RunEnds(d)
  BY <1>1, <1>3, KeptOver
<1>4. CASE ~RunEnds(d)
  <2>1. \A x \in Devices \ {d} : todo'[x] = todo[x]
    BY <1>4 DEF pushToPeer, SyncInv, SyncTyped
  <2>2. UNCHANGED pc \/ Go(d, "refs")
    BY <1>4 DEF pushToPeer
  <2>3. CASE UNCHANGED pc
    BY <1>1, <1>2, <2>1, <2>3, KeptRest
  <2> QED
    BY <1>1, <1>2, <2>1, <2>2, <2>3, KeptElsewhere
<1> QED
  BY <1>3, <1>4

LEMMA EditsStayKept == ASSUME SyncInv, EditsKept, [SyncNext]_syncVars PROVE EditsKept'
<1>1. CASE UNCHANGED syncVars
  BY <1>1 DEF syncVars, persistent, run, history, EditsKept, Kept
<1>2. CASE SyncNext
  <2>1. PICK d \in Devices : Edit(d) \/ RunFails(d) \/ Run(d) \/ resolveConflicts(d) \/ resolveSeedBlock(d)
    BY <1>2 DEF SyncNext
  <2>2. CASE Run(d)
    BY <2>2, KeptRecoverIntent, KeptRecoverLook, KeptRecoverOp, KeptApplyOp, KeptMarkDone, KeptQuiet, KeptPlanning,
       KeptPush DEF Run
  <2> QED
    BY <2>1, <2>2, KeptEdit, KeptQuiet, KeptPlanning
<1> QED
  BY <1>1, <1>2

LEMMA SyncFollows == ASSUME SyncInv, EditsKept PROVE SyncHolds
<1>1. RefsClosed
  BY DEF SyncInv, Named, Closed, RefsClosed
<1>2. RecoveryKeepsEdits
  BY DEF EditsKept, Kept, RecoveryKeepsEdits
<1> QED
  BY <1>1, <1>2 DEF SyncHolds

\* The refs of a device name commits whose whole history it has, whatever was
\* pushed, fetched, cut off or replayed; and an edit that a recovery has found stays
\* through every later recovery, until its user changes it (engine.mjs, intent.mjs,
\* endpoint.mjs): for any worktrees and any number of commits, failures and restarts.
THEOREM SyncAlwaysHolds == SyncSpec => []SyncHolds
<1> QED
  BY SyncBase, SyncKept, KeptBase, EditsStayKept, SyncFollows, PTL DEF SyncSpec

\* A device's line only grows, unless the user decided otherwise (engine.mjs:
\* commitLocal, advanceDevice).
THEOREM LineAlwaysForward == SyncSpec => DeviceForward
<1> DEFINE Forward ==
      \A d \in Devices : dev'[d] # dev[d] /\ dev[d] # 0 /\ ~todo[d].asked => dev[d] \in commits'[dev'[d]].anc
<1>1. SyncInv /\ [SyncNext]_syncVars => [Forward]_syncVars
  BY LineForward
<1>2. DeviceForward <=> [][Forward]_syncVars
  BY DEF DeviceForward
<1> HIDE DEF Forward
<1> QED
  BY <1>1, <1>2, SyncBase, SyncKept, PTL DEF SyncSpec

\* The state keeps its shape, and a run that touches the files or the group ref
\* has its intent on the disk (intent.mjs).
THEOREM SyncTypeCorrect == SyncSpec => []SyncTypeOK
<1>1. ASSUME SyncInv PROVE SyncTypeOK
  <2>1. ASSUME NEW d \in Devices
        PROVE  /\ {group[d], dev[d], mirror[d], block[d], intent[d].target, intent[d].old} \subseteq 0..Len(commits)
               /\ store[d] \subseteq 1..Len(commits)
    <3>1. Named(d) /\ Closed(store[d], commits) /\ mirror[d] \in Nat /\ intent[d].old \in Nat /\ Len(commits) \in Nat
      BY <1>1, Lengths DEF SyncInv, SyncTyped, Intents
    <3>2. intent[d].target \in store[d] \cup {0}
      BY <3>1 DEF Named, NoIntent
    <3> QED
      BY <3>1, <3>2 DEF Named, Closed
  <2> QED
    BY <1>1, <2>1 DEF SyncInv, SyncTyped, SyncTypeOK, Working, Writing, Stages, Trees
<1> QED
  BY <1>1, SyncBase, SyncKept, PTL DEF SyncSpec
=============================================================================
