------------------------------ MODULE AiRelay ------------------------------
(***************************************************************************)
(* One AI request from a local HTTP client through the consumer's gateway, *)
(* the provider's admission, the response relay and the upstream, and back *)
(* piece by piece.  packages/opendweb-ext-ai/src: consumer/gateway.mjs,    *)
(* consumer/sessions.mjs, wire/endpoints.mjs, provider/forward.mjs,        *)
(* provider/limits.mjs, provider/relay.mjs, provider/upstream.mjs.         *)
(*                                                                         *)
(* Sequence numbers count from 1 here (committedSeq, producedSeq and       *)
(* servedSeq start at 0, the code's -1); a chunk is one unit of the ring.  *)
(***************************************************************************)
EXTENDS Naturals, FiniteSets

CONSTANTS Requests,   \* the local requests, all of one key and one group
          Streams,    \* those whose answer has a body
          MaxChunks,  \* bound: pieces an upstream answer has
          Ring,       \* perRidBufferBytes, in chunks
          GroupLimit, \* the group's maxConcurrency
          RelayLimit, \* the plane's maxConcurrency
          MaxFaults   \* bound: failures, timeouts and disconnects

ASSUME AiAssumption ==
  /\ Ring \in Nat \ {0} /\ GroupLimit \in Nat \ {0} /\ RelayLimit \in Nat \ {0}
  /\ Streams \subseteq Requests /\ MaxChunks \in Nat /\ MaxFaults \in Nat

VARIABLES
  local,    \* the gateway's answer to the local client
  k,        \* the consumer session's forward loop
  got,      \* chunks the loop wrote to the local client
  cancels,  \* cancel calls on their way to the provider
  locking,  \* cancel calls that found the entry active and wait for its lock
  pull,     \* the pull call of a request: [at, answer]
  h,        \* the provider's request handler
  read,     \* the in-flight count acquire read before its await
  inflight, \* LimitEnforcer's in-flight count of the group
  e,        \* the relay's entries
  summary,  \* the relay's terminal summaries
  u,        \* the upstream task
  cut,      \* the upstream task aborted itself (first byte, stall)
  faults    \* failures so far

consumerVars == <<local, k, got, cancels, locking>>
limitVars == <<h, read, inflight>>
relayVars == <<e, summary>>
upVars == <<u, cut>>
vars == <<consumerVars, pull, limitVars, relayVars, upVars, faults>>

Terminals == {"done", "error", "expired", "cancelled", "dropped"}
NoEntry == [live |-> FALSE, committed |-> 0, produced |-> 0, served |-> 0,
            eof |-> FALSE, meta |-> FALSE, terminal |-> "none"]
NoPull == [at |-> "none", answer |-> "none"]

Init ==
  /\ local = [r \in Requests |-> "idle"]
  /\ k = [r \in Requests |-> "idle"]
  /\ got = [r \in Requests |-> 0]
  /\ cancels = {} /\ locking = {}
  /\ pull = [r \in Requests |-> NoPull]
  /\ h = [r \in Requests |-> "off"]
  /\ read = [r \in Requests |-> 0]
  /\ inflight = 0
  /\ e = [r \in Requests |-> NoEntry]
  /\ summary = [r \in Requests |-> "none"]
  /\ u = [r \in Requests |-> "off"]
  /\ cut = [r \in Requests |-> FALSE]
  /\ faults = 0

Fault == faults < MaxFaults /\ faults' = faults + 1
Active == {r \in Requests : e[r].live}
Pending(r) == e[r].produced - e[r].committed

\* wireHandler refuses every wire call while the relay is full.
Busy == Cardinality(Active) >= RelayLimit

(***************************************************************************)
(* The end of an entry.  The first terminal stands: it aborts the          *)
(* upstream, empties the ring, gives the slot back and wakes both waiters. *)
(***************************************************************************)
Settled(r) == e[r].terminal # "none"
SlotBack(n) == IF inflight > n THEN inflight - n ELSE 0
WakeWriter(R) == [r \in Requests |-> IF r \in R /\ u[r] = "blocked" THEN "woken" ELSE u[r]]
WakePull(R) == [r \in Requests |->
  IF r \in R /\ pull[r].at = "held" THEN [pull[r] EXCEPT !.at = "stirred"] ELSE pull[r]]
\* Mutant: the guard on a terminal that was applied is missing.
MutOpen(R) == R
Open(R) == {r \in R : ~Settled(r)}

Close(R, kind) == [r \in Requests |->
  IF r \in R THEN [e[r] EXCEPT !.live = FALSE, !.terminal = kind] ELSE e[r]]

\* The model ends several entries at once for closeAll.
applyTerminal(R, kind) ==
  /\ e' = Close(Open(R), kind)
  /\ summary' = [r \in Requests |-> IF r \in Open(R) THEN kind ELSE summary[r]]
  /\ inflight' = SlotBack(Cardinality(Open(R)))

\* dropEntry: an answer that failed before its meta leaves no summary.
dropEntry(r) ==
  /\ e' = Close({r}, "dropped")
  /\ inflight' = SlotBack(1)
  /\ UNCHANGED summary

(***************************************************************************)
(* The request call: consumer, admission, limits, relay.create.            *)
(***************************************************************************)
Ask(r) ==
  /\ local[r] = "idle"
  /\ local' = [local EXCEPT ![r] = "waiting"]
  /\ k' = [k EXCEPT ![r] = "asking"]
  /\ h' = [h EXCEPT ![r] = IF Busy THEN "refused" ELSE "arrived"]
  /\ UNCHANGED <<got, cancels, locking, pull, read, inflight, relayVars, upVars, faults>>

\* acquire up to its await: the group's count is checked and remembered.
Check(r) ==
  /\ h[r] = "arrived"
  /\ IF inflight >= GroupLimit
     THEN h' = [h EXCEPT ![r] = "refused"] /\ UNCHANGED read
     ELSE h' = [h EXCEPT ![r] = "checked"] /\ read' = [read EXCEPT ![r] = inflight]
  /\ UNCHANGED <<consumerVars, pull, inflight, relayVars, upVars, faults>>

\* acquire after the await: what was read is written back, plus one.
Occupy(r) ==
  /\ h[r] = "checked"
  /\ h' = [h EXCEPT ![r] = "counted"]
  /\ inflight' = read[r] + 1
  /\ UNCHANGED <<consumerVars, pull, read, relayVars, upVars, faults>>

\* After persistQuota: relay.create, and the upstream task starts.
Create(r) ==
  /\ h[r] = "counted"
  /\ h' = [h EXCEPT ![r] = "meta"]
  /\ e' = [e EXCEPT ![r] = [NoEntry EXCEPT !.live = TRUE]]
  /\ u' = [u EXCEPT ![r] = "start"]
  /\ UNCHANGED <<consumerVars, pull, read, inflight, summary, cut, faults>>

\* persistQuota throws: the handler answers 500 and no entry exists.
PersistFails(r) ==
  /\ h[r] = "counted" /\ Fault
  /\ h' = [h EXCEPT ![r] = "refused"]
  /\ UNCHANGED <<consumerVars, pull, read, inflight, relayVars, upVars>>

\* onReqAbort: the caller is gone before the meta.
AbortLocal(r) ==
  /\ h[r] = "meta" /\ k[r] # "asking" /\ ~Settled(r) /\ ~e[r].meta
  /\ dropEntry(r)
  /\ h' = [h EXCEPT ![r] = "off"]
  /\ UNCHANGED <<consumerVars, pull, read, upVars, faults>>

\* The request call is answered: with the meta, or with an error.
Answer(r) ==
  /\ \/ h[r] = "refused"
     \/ h[r] = "meta" /\ (e[r].meta \/ e[r].terminal = "dropped")
  /\ h' = [h EXCEPT ![r] = "off"]
  /\ IF k[r] # "asking" THEN UNCHANGED <<local, k>>
     ELSE IF h[r] = "meta" /\ e[r].meta
     THEN k' = [k EXCEPT ![r] = "loop"] /\ local' = [local EXCEPT ![r] = "headers"]
     ELSE k' = [k EXCEPT ![r] = "failed"] /\ local' = [local EXCEPT ![r] = "error"]
  /\ UNCHANGED <<got, cancels, locking, pull, read, inflight, relayVars, upVars, faults>>

(***************************************************************************)
(* The gateway's local client.                                             *)
(***************************************************************************)
\* reply after an error: a JSON error, or just the end once headers are out.
LocalError(r) == CASE local[r] = "waiting" -> "error"
                   [] local[r] = "headers" -> "end"
                   [] OTHER -> local[r]
LocalEnd(r) == IF local[r] = "headers" THEN "end" ELSE local[r]
Dropped(r) == IF pull[r].at \in {"sent", "held", "stirred"} THEN [pull[r] EXCEPT !.at = "aborted"] ELSE NoPull

\* The local client disconnects: in-flight calls are aborted and a started
\* response is cancelled; the confirming pull carries no signal.
Disconnect(r) ==
  /\ local[r] \in {"waiting", "headers"} /\ Fault
  /\ local' = [local EXCEPT ![r] = "gone"]
  /\ cancels' = IF k[r] \in {"loop", "pulling", "confirming"} THEN cancels \cup {r} ELSE cancels
  /\ IF k[r] \in {"asking", "loop", "pulling"}
     THEN k' = [k EXCEPT ![r] = "failed"] /\ pull' = [pull EXCEPT ![r] = Dropped(r)]
     ELSE UNCHANGED <<k, pull>>
  /\ UNCHANGED <<got, locking, limitVars, relayVars, upVars>>

\* The session to the provider fails under a call.
CallFails(r) ==
  /\ k[r] \in {"asking", "pulling", "confirming"} /\ Fault
  /\ IF k[r] = "confirming"
     THEN k' = [k EXCEPT ![r] = "ended"] /\ local' = [local EXCEPT ![r] = LocalEnd(r)]
     ELSE k' = [k EXCEPT ![r] = "failed"] /\ local' = [local EXCEPT ![r] = LocalError(r)]
  /\ pull' = [pull EXCEPT ![r] = Dropped(r)]
  /\ UNCHANGED <<got, cancels, locking, limitVars, relayVars, upVars>>

(***************************************************************************)
(* Pulls.  fromSeq is always one more than what the loop has written.      *)
(***************************************************************************)
PullSend(r) ==
  /\ k[r] = "loop"
  /\ k' = [k EXCEPT ![r] = "pulling"]
  /\ pull' = [pull EXCEPT ![r] = [at |-> "sent", answer |-> "none"]]
  /\ UNCHANGED <<local, got, cancels, locking, limitVars, relayVars, upVars, faults>>

Answered(r, a) == [pull EXCEPT ![r] = [at |-> "answered", answer |-> a]]

\* decideReady: pulling fromSeq confirms what was served before it.
Confirm(r, from) == LET target == IF from - 1 < e[r].served THEN from - 1 ELSE e[r].served
                    IN IF target > e[r].committed THEN target ELSE e[r].committed
Confirmed(r, from) == [e[r] EXCEPT !.committed = Confirm(r, from)]
\* Mutant: a piece is released from the ring when it is served.
MutServed(r, from) == [Confirmed(r, from) EXCEPT !.served = from, !.committed = from]
Served(r, from) == [Confirmed(r, from) EXCEPT !.served = from]
\* Mutant: the pull frees room and does not wake the writer.
MutFreed(r, from) == {}
Freed(r, from) == IF Confirm(r, from) > e[r].committed THEN {r} ELSE {}

\* Mutant: the newest piece is taken for the last one.
MutLast(r, from) == from = e[r].produced
Last(r, from) == e[r].eof /\ from = e[r].produced

decideReady(r, from) ==
  LET c == Confirm(r, from) IN
  IF from # c + 1
  THEN /\ e' = [e EXCEPT ![r] = Confirmed(r, from)]
       /\ pull' = Answered(r, "invalid") /\ u' = WakeWriter(Freed(r, from))
       /\ UNCHANGED <<summary, inflight>>
  ELSE IF e[r].produced > c
  THEN /\ e' = [e EXCEPT ![r] = Served(r, from)]
       /\ pull' = Answered(r, IF Last(r, from) THEN "last" ELSE "chunk")
       /\ u' = WakeWriter(Freed(r, from))
       /\ UNCHANGED <<summary, inflight>>
  ELSE IF e[r].eof
  THEN /\ applyTerminal({r}, "done")
       /\ pull' = Answered(r, "summary") /\ u' = WakeWriter({r})
  ELSE /\ e' = [e EXCEPT ![r] = Confirmed(r, from)]
       /\ pull' = [pull EXCEPT ![r].at = "held"] /\ u' = WakeWriter(Freed(r, from))
       /\ UNCHANGED <<summary, inflight>>

terminalReplay(r) ==
  /\ pull' = Answered(r, IF summary[r] = "done" THEN "summary" ELSE "error")
  /\ UNCHANGED <<relayVars, u, inflight>>

\* The pull reaches the provider, or its hold was woken.
Pull(r) ==
  /\ pull[r].at \in {"sent", "stirred"}
  /\ IF pull[r].at = "sent" /\ Busy
     THEN pull' = Answered(r, "busy") /\ UNCHANGED <<relayVars, u, inflight>>
     ELSE IF e[r].live THEN decideReady(r, got[r] + 1) ELSE terminalReplay(r)
  /\ UNCHANGED <<consumerVars, h, read, cut, faults>>

\* The hold ends with nothing ready: 204.
HoldOver(r) ==
  /\ pull[r].at = "held"
  /\ pull' = Answered(r, "again")
  /\ UNCHANGED <<consumerVars, limitVars, relayVars, upVars, faults>>

PullAborted(r) ==
  /\ pull[r].at = "aborted"
  /\ pull' = [pull EXCEPT ![r] = NoPull]
  /\ UNCHANGED <<consumerVars, limitVars, relayVars, upVars, faults>>

\* The loop takes the answer of its pull.
Take(r) ==
  /\ pull[r].at = "answered" /\ k[r] = "pulling"
  /\ LET a == pull[r].answer IN
     /\ got' = [got EXCEPT ![r] = IF a \in {"chunk", "last"} THEN @ + 1 ELSE @]
     /\ k' = [k EXCEPT ![r] = CASE a \in {"chunk", "again"} -> "loop"
                                [] a \in {"last", "summary"} -> "confirming"
                                [] OTHER -> "failed"]
     /\ local' = [local EXCEPT ![r] = IF a \in {"error", "busy", "invalid"} THEN LocalError(r) ELSE @]
     /\ pull' = [pull EXCEPT ![r] = IF a \in {"last", "summary"} THEN [at |-> "sent", answer |-> "none"] ELSE NoPull]
  /\ UNCHANGED <<cancels, locking, limitVars, relayVars, upVars, faults>>

\* Whatever the confirming pull answers, the response has ended.
End(r) ==
  /\ pull[r].at = "answered" /\ k[r] = "confirming"
  /\ k' = [k EXCEPT ![r] = "ended"]
  /\ local' = [local EXCEPT ![r] = LocalEnd(r)]
  /\ pull' = [pull EXCEPT ![r] = NoPull]
  /\ UNCHANGED <<got, cancels, locking, limitVars, relayVars, upVars, faults>>

\* The cancel call reaches the provider (it is refused while the relay is
\* full); what it finds active may have ended when it gets the entry's lock.
Cancel(r) ==
  /\ r \in cancels
  /\ cancels' = cancels \ {r}
  /\ locking' = IF Busy \/ ~e[r].live THEN locking ELSE locking \cup {r}
  /\ UNCHANGED <<local, k, got, pull, limitVars, relayVars, upVars, faults>>

CancelLocked(r) ==
  /\ r \in locking
  /\ locking' = locking \ {r}
  /\ applyTerminal({r}, "cancelled")
  /\ u' = WakeWriter({r}) /\ pull' = WakePull({r})
  /\ UNCHANGED <<local, k, got, cancels, h, read, cut, faults>>

(***************************************************************************)
(* The upstream task (forwardHttp) and the relay's sink.                   *)
(***************************************************************************)
UpMeta(r) ==
  /\ u[r] = "start" /\ ~Settled(r)
  /\ e' = [e EXCEPT ![r].meta = TRUE]
  /\ u' = [u EXCEPT ![r] = "body"]
  /\ UNCHANGED <<consumerVars, pull, limitVars, summary, cut, faults>>

\* Nothing reached: rewrite, probe, script or first-byte timeout.
UpRefused(r) ==
  /\ u[r] = "start" /\ ~Settled(r) /\ Fault
  /\ dropEntry(r)
  /\ u' = [u EXCEPT ![r] = "stop"]
  /\ UNCHANGED <<consumerVars, pull, h, read, cut>>

\* sink.chunk: into the ring, or the writer waits for room.
Room(r) == Pending(r) < Ring
Chunk(r) ==
  /\ \/ u[r] = "body" /\ ~cut[r] /\ r \in Streams /\ e[r].produced < MaxChunks
     \/ u[r] = "woken"
  /\ ~Settled(r)
  /\ IF Room(r)
     THEN /\ e' = [e EXCEPT ![r].produced = @ + 1]
          /\ u' = [u EXCEPT ![r] = "body"] /\ pull' = WakePull({r})
     ELSE u' = [u EXCEPT ![r] = "blocked"] /\ UNCHANGED <<e, pull>>
  /\ UNCHANGED <<consumerVars, limitVars, summary, cut, faults>>

\* sink.end.
UpEnd(r) ==
  /\ u[r] = "body" /\ ~cut[r] /\ ~Settled(r)
  /\ e' = [e EXCEPT ![r].eof = TRUE]
  /\ u' = [u EXCEPT ![r] = "stop"] /\ pull' = WakePull({r})
  /\ UNCHANGED <<consumerVars, limitVars, summary, cut, faults>>

\* The stall timer fires, be the writer waiting for upstream or for room.
Stall(r) ==
  /\ u[r] \in {"body", "blocked", "woken"} /\ ~cut[r] /\ Fault
  /\ cut' = [cut EXCEPT ![r] = TRUE]
  /\ UNCHANGED <<consumerVars, pull, limitVars, relayVars, u>>

\* The body ends in an error: its stream failed, or the task cut it.
UpFails(r) ==
  /\ u[r] = "body" /\ ~Settled(r)
  /\ IF cut[r] THEN UNCHANGED faults ELSE Fault
  /\ applyTerminal({r}, "error")
  /\ u' = [u EXCEPT ![r] = "stop"] /\ pull' = WakePull({r})
  /\ UNCHANGED <<consumerVars, h, read, cut>>

\* A task whose entry has ended sees its signal aborted.
UpStop(r) ==
  /\ u[r] \in {"start", "body", "woken"} /\ Settled(r)
  /\ u' = [u EXCEPT ![r] = "stop"]
  /\ UNCHANGED <<consumerVars, pull, limitVars, relayVars, cut, faults>>

(***************************************************************************)
(* Timers and teardown.                                                    *)
(***************************************************************************)
\* sweep: certain once nobody pulls; before that only a slow answer expires.
\* Mutant: the sweep spares what the consumer gave up.
MutIdle(r) == k[r] = "ended"
Idle(r) == k[r] \in {"ended", "failed"}
Expire(r) ==
  /\ e[r].live
  /\ IF Idle(r) THEN UNCHANGED faults ELSE Fault
  /\ applyTerminal({r}, "expired")
  /\ u' = WakeWriter({r}) /\ pull' = WakePull({r})
  /\ UNCHANGED <<consumerVars, h, read, cut>>

\* A summary outlives its TTL (a tombstone stays) or the LRU's budget.
SummaryGone(r) ==
  /\ summary[r] \notin {"none", "expired"} /\ Fault
  /\ \E gone \in {"none", "expired"} : summary' = [summary EXCEPT ![r] = gone]
  /\ UNCHANGED <<consumerVars, pull, limitVars, e, upVars>>

\* dispose of the plane: closeAll aborts what is active.
closeAll ==
  /\ Active # {} /\ Fault
  /\ applyTerminal(Active, "error")
  /\ u' = WakeWriter(Active) /\ pull' = WakePull(Active)
  /\ UNCHANGED <<consumerVars, h, read, cut>>

Consumer(r) == Ask(r) \/ PullSend(r) \/ Take(r) \/ End(r)
Provider(r) == Check(r) \/ Occupy(r) \/ Create(r) \/ AbortLocal(r) \/ Answer(r)
Relay(r) == Pull(r) \/ HoldOver(r) \/ PullAborted(r) \/ Cancel(r) \/ CancelLocked(r)
Upstream(r) == UpMeta(r) \/ Chunk(r) \/ UpEnd(r) \/ UpStop(r)
Trouble(r) == Disconnect(r) \/ CallFails(r) \/ PersistFails(r) \/ UpRefused(r)
              \/ Stall(r) \/ UpFails(r) \/ Expire(r) \/ SummaryGone(r)
Next == \/ \E r \in Requests : Consumer(r) \/ Provider(r) \/ Relay(r) \/ Upstream(r) \/ Trouble(r)
        \/ closeAll
Spec == Init /\ [][Next]_vars

(***************************************************************************)
(* Handlers and timers run; the upstream is not obliged to be fast, but a  *)
(* request that nobody troubles gets its answer.                           *)
(***************************************************************************)
Fairness == \A r \in Requests :
  /\ WF_vars(PullSend(r)) /\ WF_vars(Take(r)) /\ WF_vars(End(r))
  /\ WF_vars(Provider(r))
  /\ WF_vars(Pull(r)) /\ WF_vars(HoldOver(r)) /\ WF_vars(PullAborted(r))
  /\ WF_vars(Cancel(r)) /\ WF_vars(CancelLocked(r))
  /\ WF_vars(UpMeta(r)) /\ WF_vars(Chunk(r)) /\ WF_vars(UpEnd(r)) /\ WF_vars(UpStop(r))
  /\ WF_vars(UpFails(r) /\ cut[r]) /\ WF_vars(Expire(r) /\ Idle(r))
FairSpec == Spec /\ Fairness

-----------------------------------------------------------------------------
\* The relay, the loop and the upstream task are where the code can be.
TypeOK ==
  /\ local \in [Requests -> {"idle", "waiting", "headers", "error", "end", "gone"}]
  /\ k \in [Requests -> {"idle", "asking", "loop", "pulling", "confirming", "ended", "failed"}]
  /\ got \in [Requests -> 0..MaxChunks + 1]
  /\ cancels \subseteq Requests /\ locking \subseteq Requests
  /\ pull \in [Requests -> [at : {"none", "sent", "held", "stirred", "aborted", "answered"},
                            answer : {"none", "chunk", "last", "summary", "again", "invalid", "busy", "error"}]]
  /\ h \in [Requests -> {"off", "arrived", "checked", "counted", "meta", "refused"}]
  /\ inflight \in 0..Cardinality(Requests) + 1
  /\ \A r \in Requests : e[r].terminal \in Terminals \cup {"none"} /\ (e[r].live => ~Settled(r))
  /\ summary \in [Requests -> (Terminals \ {"dropped"}) \cup {"none"}]
  /\ u \in [Requests -> {"off", "start", "body", "blocked", "woken", "stop"}]
  /\ faults \in 0..MaxFaults

\* The cursor follows the consumer: nothing is released from the ring before
\* the loop wrote it, nothing is written twice or skipped, and the ring keeps
\* its budget (relay.mjs, the committed cursor; "zero loss, zero repetition").
CursorFollows == \A r \in Requests :
  /\ e[r].committed <= got[r] /\ got[r] <= e[r].served /\ e[r].served <= e[r].produced
  /\ e[r].produced - e[r].committed <= Ring

\* A loop that reports the end of the response has written all of it: the
\* upstream had ended and every piece of it was taken, whatever raced.
CompleteEnd == \A r \in Requests : k[r] = "ended" => e[r].eof /\ got[r] = e[r].produced

\* Nothing is lost, repeated or cut off unseen (relay.mjs, forward.mjs).
RelayHolds == CursorFollows /\ CompleteEnd

\* Cancel, done, expiry, failure and teardown race for an entry: the first
\* verdict stands, and what the summary replays later is that verdict or its
\* expiry, never another.
FirstVerdictStands == [][\A r \in Requests :
  /\ Settled(r) => e'[r].terminal = e[r].terminal
  /\ summary'[r] \in {"none", "expired", e'[r].terminal}]_vars

\* Untroubled, a request that was let in is answered to the last piece: no wakeup
\* between ring, hold and confirmation is missed, and the group's and the relay's limits
\* stop it only by refusing one of its calls: a full relay turns pulls away too.
Refused(r) == pull[r].at = "answered" /\ pull[r].answer = "busy"
Completes == \A r \in Requests :
  k[r] = "asking" ~> (k[r] = "ended" \/ local[r] = "error" \/ Refused(r) \/ faults > 0)

\* Whatever fails, an entry ends and with it its upstream task: one whose pulls and
\* cancels a full relay refuses, too.
Settles == \A r \in Requests : e[r].live ~> (~e[r].live /\ u[r] = "stop")

\* Requests and entries come to their end (relay.mjs, runtime.mjs).
RelayEnds == Completes /\ Settles

\* Every local client that stays hears the end of its request.
Heard == \A r \in Requests : local[r] = "waiting" ~> local[r] \in {"end", "error", "gone"}

\* A local response that failed midway does not look complete.
NoSilentTruncation == \A r \in Requests : local[r] = "end" => k[r] = "ended"

\* With nothing in progress no slot of the group is taken.
SlotsReturned == (Active = {} /\ \A r \in Requests : h[r] = "off") => inflight = 0
=============================================================================
