--------------------------- MODULE StreamDelivery ---------------------------
(***************************************************************************)
(* One response stream of a continuity session, from the provider's HTTP   *)
(* engine to the client's reader, across the channel generations that a    *)
(* reconnecting session installs.                                          *)
(*                                                                         *)
(* Provider: dispatch_stream / send_resilient feed the stream's journal    *)
(* and send; the journal frees what the peer has acknowledged; after a     *)
(* RESUME a background task replays what is left.  Client: the pump feeds  *)
(* the receive window, queues what became contiguous, and recv() hands it  *)
(* to the application, which is the point where a segment is acknowledged. *)
(*                                                                         *)
(* A segment is one DATA payload and counts 1, so an offset is a segment   *)
(* index: the journal replays and the reader consumes whole segments, and  *)
(* RecvWindow checks at the level of bytes that nothing here splits one.   *)
(* Each generation is a reliable FIFO per direction until its connection   *)
(* breaks, which loses a suffix of what is in flight.                      *)
(***************************************************************************)
EXTENDS Integers, Sequences, FiniteSets

CONSTANTS
  MaxSegs,      \* bound: segments the handler's body supplies at most
  MaxGen,       \* bound: channel generations
  JournalCap,   \* JournalLimits.max_segments (2 MiB per stream alike)
  GapCap,       \* GAP_CAP
  QueueCap      \* DELIVER_QUEUE_STREAM_CAP

\* The journal limits are configurable per session, the other two are fixed:
\* no order between the caps is assumed.
ASSUME CapAssumption ==
  /\ MaxSegs \in Nat
  /\ MaxGen \in Nat \ {0}
  /\ JournalCap \in Nat
  /\ GapCap \in Nat
  /\ QueueCap \in Nat

VARIABLES
  \* --- provider: stream context and engine
  next,         \* journal.next_send_offset
  acked,        \* journal.acked_offset; the journal holds acked..next-1
  finalSent,    \* final_sent is Some(next)
  pReset,       \* term = PeerReset
  prod,         \* where dispatch_stream is
  pPhase,       \* the provider's SessionPhase
  pGen,         \* the provider's current channel
  accept,       \* where accept_resume is
  replay,       \* where the replay task of the current channel is
  repAt, repEnd,\* the part of the replay snapshot still to send
  \* --- wire, per generation
  data,         \* provider to client
  acks,         \* client to provider
  up,           \* the connection lives
  \* --- client: resume attempt and stream context
  cGen,         \* the client's current channel
  cPhase,       \* the client's SessionPhase
  attempt,      \* where resume_attempt is
  summary,      \* recv_ack of this stream in the RESUME_INIT under way
  expected,     \* recv.expected_offset
  gaps,         \* recv.gaps
  hand,         \* delivered by the window, not yet in the queue
  handAck,      \* the ACK value computed with hand
  queue,        \* the deliver queue
  committed,    \* committed_offset
  remoteFinal,  \* remote_final, or NoFinal
  cTerm,        \* the client's stream term
  reader,       \* where recv() is
  popped,       \* the segment recv() popped and has not yet committed
  consumed      \* history: what recv() returned

providerVars == <<next, acked, finalSent, pReset, prod, pPhase>>
resumeVars   == <<pGen, accept, replay, repAt, repEnd, cGen, cPhase, attempt, summary>>
wireVars     == <<data, acks, up>>
windowVars   == <<expected, gaps, hand, handAck, remoteFinal, cTerm>>
readerVars   == <<queue, committed, reader, popped, consumed>>
vars == <<providerVars, resumeVars, wireVars, windowVars, readerVars>>

NoFinal == -1
Gens == 1..MaxGen
Segs == 0..(MaxSegs - 1)
Offsets == 0..MaxSegs

DataFrame(i) == [type |-> "DATA", off |-> i]
FinFrame(n)  == [type |-> "FIN", off |-> n]
ResumeOk     == [type |-> "RESUME_OK", off |-> 0]
AckFrame(n)  == [type |-> "ACK", off |-> n]
ResetFrame   == [type |-> "RESET", off |-> 0]

DataFrames == [type : {"DATA", "FIN", "RESUME_OK"}, off : Offsets]
AckFrames  == [type : {"ACK", "RESET"}, off : Offsets]

Init ==
  /\ next = 0 /\ acked = 0 /\ finalSent = FALSE /\ pReset = FALSE
  /\ prod = "body" /\ pPhase = "Active"
  /\ pGen = 1 /\ accept = "none" /\ replay = "idle" /\ repAt = 0 /\ repEnd = 0
  /\ cGen = 1 /\ cPhase = "Active" /\ attempt = "none" /\ summary = 0
  /\ data = [g \in Gens |-> << >>]
  /\ acks = [g \in Gens |-> << >>]
  /\ up = [g \in Gens |-> TRUE]
  /\ expected = 0 /\ gaps = {} /\ hand = << >> /\ handAck = 0
  /\ remoteFinal = NoFinal /\ cTerm = "none"
  /\ queue = << >> /\ committed = 0
  /\ reader = "idle" /\ popped = 0 /\ consumed = << >>

-----------------------------------------------------------------------------
(* Sending on a channel.                                                   *)

\* The provider's current channel accepts a frame: it is delivered in order
\* unless the connection breaks.
Put(f) == data' = [data EXCEPT ![pGen] = Append(@, f)]

\* send_frame succeeds: on a live connection the frame is in flight; on one
\* that is already dead but not yet known to be, it is silently lost.
Sent(f) ==
  /\ accept # "stopping"
  /\ \/ up[pGen] /\ Put(f)
     \/ ~up[pGen] /\ UNCHANGED data

\* send_frame fails: the connection is dead, or the channel is being stopped
\* because a RESUME is about to replace it.  No whole frame leaves.
SendFails == ~up[pGen] \/ accept = "stopping"

\* The client answers on its own current channel, if that still lives.
Reply(f) ==
  acks' = IF up[cGen] THEN [acks EXCEPT ![cGen] = Append(@, f)] ELSE acks

-----------------------------------------------------------------------------
(* Provider engine: dispatch_stream and send_resilient.                    *)

\* prepare_send: the next body chunk enters the journal.
PrepareSend ==
  /\ prod = "body"
  /\ next < MaxSegs
  /\ ~pReset
  /\ next - acked < JournalCap
  /\ next' = next + 1
  /\ prod' = "sending"
  /\ UNCHANGED <<acked, finalSent, pReset, pPhase>>
  /\ UNCHANGED <<resumeVars, wireVars, windowVars, readerVars>>

\* prepare_send refuses the chunk (journal cap, terminal stream): the engine
\* returns, and the stream keeps neither FIN nor RESET.
PrepareRefused ==
  /\ prod = "body"
  /\ next < MaxSegs
  /\ pReset \/ next - acked >= JournalCap
  /\ prod' = "gone"
  /\ UNCHANGED <<next, acked, finalSent, pReset, pPhase>>
  /\ UNCHANGED <<resumeVars, wireVars, windowVars, readerVars>>

\* send_data_at succeeds for the segment just recorded.
SendDataAt ==
  /\ prod = "sending"
  /\ ~pReset
  /\ Sent(DataFrame(next - 1))
  /\ prod' = "body"
  /\ UNCHANGED <<next, acked, finalSent, pReset, pPhase>>
  /\ UNCHANGED <<resumeVars, acks, up, windowVars, readerVars>>

\* send_data_at fails: wait for the session to be Active and send again.
SendDataFails ==
  /\ prod = "sending"
  /\ ~pReset
  /\ SendFails
  /\ prod' = "wait"
  /\ UNCHANGED <<next, acked, finalSent, pReset, pPhase>>
  /\ UNCHANGED <<resumeVars, wireVars, windowVars, readerVars>>

\* The body is exhausted: the engine goes on to the half close.
EndBody ==
  /\ prod = "body"
  /\ prod' = "fin"
  /\ UNCHANGED <<next, acked, finalSent, pReset, pPhase>>
  /\ UNCHANGED <<resumeVars, wireVars, windowVars, readerVars>>

\* finish: final_sent is set and the FIN leaves.
Finish ==
  /\ prod = "fin"
  /\ ~pReset
  /\ Sent(FinFrame(next))
  /\ finalSent' = TRUE
  /\ prod' = "done"
  /\ UNCHANGED <<next, acked, pReset, pPhase>>
  /\ UNCHANGED <<resumeVars, acks, up, windowVars, readerVars>>

\* finish fails: final_sent is taken back and the engine waits to retry.
FinishFails ==
  /\ prod = "fin"
  /\ ~pReset
  /\ SendFails
  /\ prod' = "finwait"
  /\ UNCHANGED <<next, acked, finalSent, pReset, pPhase>>
  /\ UNCHANGED <<resumeVars, wireVars, windowVars, readerVars>>

\* The peer reset the stream: the engine stops.
EngineStops ==
  /\ prod \in {"body", "sending", "fin"}
  /\ pReset
  /\ prod' = "gone"
  /\ UNCHANGED <<next, acked, finalSent, pReset, pPhase>>
  /\ UNCHANGED <<resumeVars, wireVars, windowVars, readerVars>>

\* wait_active: the session is Active again.
WaitActive ==
  /\ prod \in {"wait", "finwait"}
  /\ pPhase = "Active"
  /\ prod' = IF prod = "wait" THEN "sending" ELSE "fin"
  /\ UNCHANGED <<next, acked, finalSent, pReset, pPhase>>
  /\ UNCHANGED <<resumeVars, wireVars, windowVars, readerVars>>

\* wait_active gives up after 30 seconds without an Active session.
WaitTimeout ==
  /\ prod \in {"wait", "finwait"}
  /\ pPhase # "Active"
  /\ prod' = "gone"
  /\ UNCHANGED <<next, acked, finalSent, pReset, pPhase>>
  /\ UNCHANGED <<resumeVars, wireVars, windowVars, readerVars>>

-----------------------------------------------------------------------------
(* Provider pump.                                                          *)

\* advance_ack: forward only, never beyond what was sent.
AdvanceAck(n) == IF n > acked /\ n <= next THEN n ELSE acked

\* An ACK or a RESET arrives on the provider's current channel.
ProviderReceives ==
  /\ acks[pGen] # << >>
  /\ accept # "stopping"
  /\ LET f == Head(acks[pGen]) IN
       \/ /\ f.type = "ACK"
          /\ acked' = AdvanceAck(f.off)
          /\ UNCHANGED pReset
       \/ /\ f.type = "RESET"
          /\ acked' = next
          /\ pReset' = TRUE
  /\ acks' = [acks EXCEPT ![pGen] = Tail(@)]
  /\ UNCHANGED <<next, finalSent, prod, pPhase>>
  /\ UNCHANGED <<resumeVars, data, up, windowVars, readerVars>>

\* The provider's pump sees its current channel end, possibly before
\* RESUME_OK is sent on it.
ProviderSeesEnd ==
  /\ ~up[pGen]
  /\ acks[pGen] = << >>
  /\ accept # "stopping"
  /\ pPhase' = "Recovering"
  /\ UNCHANGED <<next, acked, finalSent, pReset, prod>>
  /\ UNCHANGED <<resumeVars, wireVars, windowVars, readerVars>>

-----------------------------------------------------------------------------
(* RESUME.                                                                 *)

\* resume_attempt: RESUME_INIT leaves on a fresh transport, with the
\* client's committed offset as the stream's recv_ack.
ResumeInit ==
  /\ cPhase = "Recovering"
  /\ attempt = "none" /\ accept = "none"
  /\ pGen < MaxGen
  /\ attempt' = "init"
  /\ summary' = committed
  /\ UNCHANGED <<pGen, accept, replay, repAt, repEnd, cGen, cPhase>>
  /\ UNCHANGED <<providerVars, wireVars, windowVars, readerVars>>

\* The transport dies before the provider reads RESUME_INIT.
ResumeInitLost ==
  /\ attempt = "init"
  /\ attempt' = "none"
  /\ UNCHANGED <<pGen, accept, replay, repAt, repEnd, cGen, cPhase, summary>>
  /\ UNCHANGED <<providerVars, wireVars, windowVars, readerVars>>

\* accept_resume: the journal advances by the summary, and install_channel
\* stops the old channel.
AcceptResume ==
  /\ attempt = "init"
  /\ accept = "none"
  /\ acked' = AdvanceAck(summary)
  /\ accept' = "stopping"
  /\ attempt' = "wait"
  /\ UNCHANGED <<next, finalSent, pReset, prod, pPhase>>
  /\ UNCHANGED <<pGen, replay, repAt, repEnd, cGen, cPhase, summary>>
  /\ UNCHANGED <<wireVars, windowVars, readerVars>>

\* install_channel commits the new owner: from here on it is the current
\* channel of every sender, although RESUME_OK has not been sent.  What the
\* old channel still held is never read, and its replay task ends.
InstallChannel ==
  /\ accept = "stopping"
  /\ accept' = "installed"
  /\ pGen' = pGen + 1
  /\ acks' = [acks EXCEPT ![pGen] = << >>]
  /\ replay' = "idle"
  /\ UNCHANGED <<repAt, repEnd, cGen, cPhase, attempt, summary>>
  /\ UNCHANGED <<providerVars, data, up, windowVars, readerVars>>

\* RESUME_OK is sent; the session is Active and the replay task starts.
SendResumeOk ==
  /\ accept = "installed"
  /\ Sent(ResumeOk)
  /\ accept' = "none"
  /\ replay' = "snapshot"
  /\ pPhase' = "Active"
  /\ UNCHANGED <<next, acked, finalSent, pReset, prod>>
  /\ UNCHANGED <<pGen, repAt, repEnd, cGen, cPhase, attempt, summary>>
  /\ UNCHANGED <<acks, up, windowVars, readerVars>>

\* Sending RESUME_OK fails: the provider falls back to Recovering.
SendResumeOkFails ==
  /\ accept = "installed"
  /\ SendFails
  /\ accept' = "none"
  /\ pPhase' = "Recovering"
  /\ UNCHANGED <<next, acked, finalSent, pReset, prod>>
  /\ UNCHANGED <<pGen, replay, repAt, repEnd, cGen, cPhase, attempt, summary>>
  /\ UNCHANGED <<wireVars, windowVars, readerVars>>

\* The client reads RESUME_OK and installs its own end of the channel; what
\* the old one still held is never read.  (Should the new channel's pump end
\* before the attempt sets Active, the OPEN that the attempt resends fails
\* and the attempt is repeated: ClientSeesEnd stands for that, too.)
ResumeOkArrives ==
  /\ attempt = "wait" /\ accept # "stopping"
  /\ data[pGen] # << >>
  /\ Head(data[pGen]) = ResumeOk
  /\ hand = << >>
  /\ data' = [data EXCEPT ![cGen] = << >>, ![pGen] = Tail(@)]
  /\ cGen' = pGen
  /\ cPhase' = "Active"
  /\ attempt' = "none"
  /\ UNCHANGED <<pGen, accept, replay, repAt, repEnd, summary>>
  /\ UNCHANGED <<providerVars, acks, up, windowVars, readerVars>>

\* The first frame the client reads is not RESUME_OK: the attempt fails for
\* good and its transport is dropped.
UnexpectedFrame ==
  /\ attempt = "wait" /\ accept # "stopping"
  /\ data[pGen] # << >>
  /\ Head(data[pGen]) # ResumeOk
  /\ attempt' = "none"
  /\ up' = [up EXCEPT ![pGen] = FALSE]
  /\ UNCHANGED <<pGen, accept, replay, repAt, repEnd, cGen, cPhase, summary>>
  /\ UNCHANGED <<providerVars, data, acks, windowVars, readerVars>>

\* The transport of the attempt died and nothing is left to read.
AttemptFails ==
  /\ attempt = "wait" /\ accept # "stopping"
  /\ data[pGen] = << >>
  /\ ~up[pGen]
  /\ attempt' = "none"
  /\ UNCHANGED <<pGen, accept, replay, repAt, repEnd, cGen, cPhase, summary>>
  /\ UNCHANGED <<providerVars, wireVars, windowVars, readerVars>>

-----------------------------------------------------------------------------
(* Replay task of accept_resume.                                           *)

\* Mutation: the snapshot runs one segment past the journal.
ReplaySnapshotPastEnd ==
  /\ replay = "snapshot"
  /\ replay' = "data"
  /\ repAt' = acked
  /\ repEnd' = next + 1
  /\ UNCHANGED <<pGen, accept, cGen, cPhase, attempt, summary>>
  /\ UNCHANGED <<providerVars, wireVars, windowVars, readerVars>>

\* replay_batches: a snapshot of the journal, empty for a reset stream.
ReplaySnapshot ==
  /\ replay = "snapshot"
  /\ replay' = "data"
  /\ repAt' = acked
  /\ repEnd' = IF pReset THEN acked ELSE next
  /\ UNCHANGED <<pGen, accept, cGen, cPhase, attempt, summary>>
  /\ UNCHANGED <<providerVars, wireVars, windowVars, readerVars>>

\* replay_data_arbited: one segment of the snapshot is sent, or withdrawn
\* because the stream was reset meanwhile.
ReplayData ==
  /\ replay = "data"
  /\ repAt < repEnd
  /\ repAt' = repAt + 1
  /\ \/ ~pReset /\ Sent(DataFrame(repAt))
     \/ pReset /\ UNCHANGED data
  /\ UNCHANGED <<pGen, accept, replay, repEnd, cGen, cPhase, attempt, summary>>
  /\ UNCHANGED <<providerVars, acks, up, windowVars, readerVars>>

\* Mutation: the FIN is replayed with the acknowledged offset.
ReplayFinAtAcked ==
  /\ replay = "data"
  /\ repAt = repEnd
  /\ replay' = "idle"
  /\ \/ finalSent /\ Sent(FinFrame(acked))
     \/ ~finalSent /\ UNCHANGED data
  /\ UNCHANGED <<pGen, accept, repAt, repEnd, cGen, cPhase, attempt, summary>>
  /\ UNCHANGED <<providerVars, acks, up, windowVars, readerVars>>

\* replay_fin_arbited: the FIN follows if it had been declared.
ReplayFin ==
  /\ replay = "data"
  /\ repAt = repEnd
  /\ replay' = "idle"
  /\ \/ finalSent /\ Sent(FinFrame(next))
     \/ ~finalSent /\ UNCHANGED data
  /\ UNCHANGED <<pGen, accept, repAt, repEnd, cGen, cPhase, attempt, summary>>
  /\ UNCHANGED <<providerVars, acks, up, windowVars, readerVars>>

\* A send of the replay task fails: it ends, the next resume starts over.
ReplayFails ==
  /\ replay = "data"
  /\ SendFails
  /\ replay' = "idle"
  /\ UNCHANGED <<pGen, accept, repAt, repEnd, cGen, cPhase, attempt, summary>>
  /\ UNCHANGED <<providerVars, wireVars, windowVars, readerVars>>

-----------------------------------------------------------------------------
(* Client pump: dispatch_frame and handle_frame of one received frame.     *)

\* A frame of this type is at hand on the client's current channel, and the
\* previous one has been dealt with (the pump is sequential).
Receiving(type) ==
  /\ hand = << >>
  /\ data[cGen] # << >>
  /\ Head(data[cGen]).type = type

\* The offset of the frame at hand.
Off == Head(data[cGen]).off

TakeFrame == data' = [data EXCEPT ![cGen] = Tail(@)]

WithinFinal == remoteFinal = NoFinal \/ Off + 1 <= remoteFinal

\* The stream dies of a protocol error: nothing more is accepted, the peer
\* is told.
ProtocolError ==
  /\ remoteFinal' = expected
  /\ cTerm' = "ProtocolError"
  /\ Reply(ResetFrame)

\* A DATA frame beyond the declared final offset is dropped.
DataBeyondFinal ==
  /\ Receiving("DATA")
  /\ ~WithinFinal
  /\ TakeFrame
  /\ UNCHANGED <<providerVars, resumeVars, acks, up, windowVars, readerVars>>

\* A segment already delivered, or already waiting in a gap: acknowledge
\* again what is committed.
DataDuplicate ==
  /\ Receiving("DATA")
  /\ WithinFinal
  /\ Off < expected \/ Off \in gaps
  /\ TakeFrame
  /\ Reply(AckFrame(committed))
  /\ UNCHANGED <<providerVars, resumeVars, up, windowVars, readerVars>>

\* A segment that came early.
Early ==
  /\ Receiving("DATA")
  /\ WithinFinal
  /\ Off > expected
  /\ Off \notin gaps

\* It is kept for later.
DataBuffered ==
  /\ Early
  /\ Cardinality(gaps) < GapCap
  /\ gaps' = gaps \cup {Off}
  /\ TakeFrame
  /\ Reply(AckFrame(committed))
  /\ UNCHANGED <<providerVars, resumeVars, up, readerVars>>
  /\ UNCHANGED <<expected, hand, handAck, remoteFinal, cTerm>>

\* There is no room for it: gap overflow ends the stream.
GapOverflow ==
  /\ Early
  /\ Cardinality(gaps) >= GapCap
  /\ TakeFrame
  /\ ProtocolError
  /\ UNCHANGED <<providerVars, resumeVars, up, readerVars>>
  /\ UNCHANGED <<expected, gaps, hand, handAck>>

\* Mutation: a segment that was delivered before is delivered again, with
\* those after it.
DataDeliveredTwice ==
  /\ Receiving("DATA")
  /\ WithinFinal
  /\ Off <= expected
  /\ expected' = IF Off < expected THEN expected ELSE Off + 1
  /\ hand' = [k \in 1..(expected' - Off) |-> Off + k - 1]
  /\ handAck' = committed
  /\ TakeFrame
  /\ UNCHANGED <<providerVars, resumeVars, acks, up, gaps, remoteFinal, cTerm, readerVars>>

\* The expected segment: it is delivered with the gaps it closes.  The run
\* leaves the window under the streams lock and reaches the queue later.
DataDelivered ==
  /\ Receiving("DATA")
  /\ WithinFinal
  /\ Off = expected
  /\ \E j \in (expected + 1)..MaxSegs :
       /\ j \notin gaps
       /\ (expected + 1)..(j - 1) \subseteq gaps
       /\ expected' = j
       /\ gaps' = {k \in gaps : k > j}
       /\ hand' = [k \in 1..(j - expected) |-> expected + k - 1]
  /\ handAck' = committed
  /\ TakeFrame
  /\ UNCHANGED <<providerVars, resumeVars, acks, up, remoteFinal, cTerm, readerVars>>

\* Mutation: the ACK covers what has arrived, not what has been consumed.
EnqueueAcksArrival ==
  /\ hand # << >>
  /\ Len(queue) + Len(hand) <= QueueCap
  /\ queue' = queue \o hand
  /\ hand' = << >>
  /\ Reply(AckFrame(expected))
  /\ UNCHANGED <<providerVars, resumeVars, data, up>>
  /\ UNCHANGED <<expected, gaps, handAck, remoteFinal, cTerm>>
  /\ UNCHANGED <<committed, reader, popped, consumed>>

\* The run enters the deliver queue and its ACK is sent.
Enqueue ==
  /\ hand # << >>
  /\ Len(queue) + Len(hand) <= QueueCap
  /\ queue' = queue \o hand
  /\ hand' = << >>
  /\ Reply(AckFrame(handAck))
  /\ UNCHANGED <<providerVars, resumeVars, data, up>>
  /\ UNCHANGED <<expected, gaps, handAck, remoteFinal, cTerm>>
  /\ UNCHANGED <<committed, reader, popped, consumed>>

\* The deliver queue is full: the run is dropped and the stream ends.
QueueOverflow ==
  /\ hand # << >>
  /\ Len(queue) + Len(hand) > QueueCap
  /\ hand' = << >>
  /\ ProtocolError
  /\ UNCHANGED <<providerVars, resumeVars, data, up, readerVars>>
  /\ UNCHANGED <<expected, gaps, handAck>>

\* FIN declares the final offset, once.
FinArrives ==
  /\ Receiving("FIN")
  /\ IF remoteFinal = NoFinal
     THEN remoteFinal' = Off /\ cTerm' = "Fin"
     ELSE UNCHANGED <<remoteFinal, cTerm>>
  /\ TakeFrame
  /\ UNCHANGED <<providerVars, resumeVars, acks, up, readerVars>>
  /\ UNCHANGED <<expected, gaps, hand, handAck>>

\* The client's pump sees its current channel end.
ClientSeesEnd ==
  /\ hand = << >>
  /\ ~up[cGen]
  /\ data[cGen] = << >>
  /\ cPhase' = "Recovering"
  /\ UNCHANGED <<pGen, accept, replay, repAt, repEnd, cGen, attempt, summary>>
  /\ UNCHANGED <<providerVars, wireVars, windowVars, readerVars>>

-----------------------------------------------------------------------------
(* Client application: SessionShared::recv.                                *)

\* A segment is popped from the deliver queue.
Pop ==
  /\ reader = "idle"
  /\ queue # << >>
  /\ popped' = Head(queue)
  /\ queue' = Tail(queue)
  /\ reader' = "popped"
  /\ UNCHANGED <<providerVars, resumeVars, wireVars, windowVars>>
  /\ UNCHANGED <<committed, consumed>>

\* The popped segment is committed, acknowledged and returned.  What was
\* acknowledged before never exceeds the committed offset (last_acked_offset
\* is only ever set to it), so this ACK is always news.
Commit ==
  /\ reader = "popped"
  /\ committed' = committed + 1
  /\ Reply(AckFrame(committed'))
  /\ consumed' = Append(consumed, popped)
  /\ reader' = "idle"
  /\ UNCHANGED <<providerVars, resumeVars, data, up, windowVars, queue, popped>>

\* The queue was empty; the stream may have ended.
SeeEmpty ==
  /\ reader = "idle"
  /\ queue = << >>
  /\ reader' = "checking"
  /\ UNCHANGED <<providerVars, resumeVars, wireVars, windowVars>>
  /\ UNCHANGED <<queue, committed, popped, consumed>>

\* Under the streams lock: has the window reached the final offset?
CheckEnded ==
  /\ reader = "checking"
  /\ reader' = IF remoteFinal = expected THEN "confirm" ELSE "idle"
  /\ UNCHANGED <<providerVars, resumeVars, wireVars, windowVars>>
  /\ UNCHANGED <<queue, committed, popped, consumed>>

\* Under the queue lock: still empty, so the stream is over.
ConfirmEnded ==
  /\ reader = "confirm"
  /\ reader' = IF queue # << >> THEN "idle"
               ELSE IF cTerm = "ProtocolError" THEN "error" ELSE "eof"
  /\ UNCHANGED <<providerVars, resumeVars, wireVars, windowVars>>
  /\ UNCHANGED <<queue, committed, popped, consumed>>

-----------------------------------------------------------------------------
(* Environment.                                                            *)

\* The connection under a channel in use breaks: each direction loses a
\* suffix of what is in flight.
Break ==
  \E g \in {pGen, cGen} :
    /\ up[g]
    /\ up' = [up EXCEPT ![g] = FALSE]
    /\ \E n \in 0..Len(data[g]) :
         data' = [data EXCEPT ![g] = SubSeq(@, 1, n)]
    /\ \E n \in 0..Len(acks[g]) :
         acks' = [acks EXCEPT ![g] = SubSeq(@, 1, n)]
    /\ UNCHANGED <<providerVars, resumeVars, windowVars, readerVars>>

Engine ==
  \/ PrepareSend \/ PrepareRefused \/ SendDataAt \/ SendDataFails \/ EndBody
  \/ Finish \/ FinishFails \/ EngineStops \/ WaitActive \/ WaitTimeout

ProviderPump == ProviderReceives \/ ProviderSeesEnd

Resume ==
  \/ ResumeInit \/ ResumeInitLost \/ AcceptResume \/ InstallChannel
  \/ SendResumeOk \/ SendResumeOkFails
  \/ ResumeOkArrives \/ UnexpectedFrame \/ AttemptFails

Replay == ReplaySnapshot \/ ReplayData \/ ReplayFin \/ ReplayFails

ClientPump ==
  \/ DataBeyondFinal \/ DataDuplicate \/ DataBuffered \/ GapOverflow
  \/ DataDelivered \/ Enqueue \/ QueueOverflow \/ FinArrives \/ ClientSeesEnd

Reader == Pop \/ Commit \/ SeeEmpty \/ CheckEnded \/ ConfirmEnded

Next == Engine \/ ProviderPump \/ Resume \/ Replay \/ ClientPump \/ Reader \/ Break

Spec == Init /\ [][Next]_vars

\* What runs on its own as long as its process lives: the engine's task, the
\* pumps (each awaits its channel), the replay task, and the application that
\* keeps calling recv().  Nothing is assumed of the environment: connections
\* may break for ever and a RESUME need neither be tried nor succeed.
Fairness ==
  /\ WF_vars(Engine)
  /\ WF_vars(ProviderPump)
  /\ WF_vars(Replay)
  /\ WF_vars(ClientPump)
  /\ WF_vars(Reader)

FairSpec == Spec /\ Fairness

-----------------------------------------------------------------------------
(* Properties.                                                             *)

\* Frames in flight carry offsets of segments that exist.
TypeOK ==
  /\ next \in Offsets /\ acked \in 0..next
  /\ finalSent \in BOOLEAN /\ pReset \in BOOLEAN
  /\ prod \in {"body", "sending", "wait", "fin", "finwait", "done", "gone"}
  /\ pPhase \in {"Active", "Recovering"} /\ cPhase \in {"Active", "Recovering"}
  /\ pGen \in Gens /\ cGen \in Gens
  /\ accept \in {"none", "stopping", "installed"}
  /\ replay \in {"idle", "snapshot", "data"} /\ repAt \in Offsets /\ repEnd \in 0..next
  /\ data \in [Gens -> Seq(DataFrames)] /\ acks \in [Gens -> Seq(AckFrames)]
  /\ up \in [Gens -> BOOLEAN]
  /\ attempt \in {"none", "init", "wait"} /\ summary \in Offsets
  /\ expected \in Offsets /\ gaps \subseteq Segs
  /\ hand \in Seq(Segs) /\ handAck \in Offsets
  /\ queue \in Seq(Segs) /\ committed \in Offsets
  /\ remoteFinal \in Offsets \cup {NoFinal}
  /\ cTerm \in {"none", "Fin", "ProtocolError"}
  /\ reader \in {"idle", "popped", "checking", "confirm", "eof", "error"}
  /\ popped \in Segs \cup {0} /\ consumed \in Seq(Segs)

\* Whatever breaks, resumes, replays and duplicates, the application sees a
\* run of the writer's segments, each once and in order.
Recorded == [i \in 1..next |-> i - 1]
Delivery == INSTANCE OrderedDelivery WITH Item <- Segs, sent <- Recorded, got <- consumed
ImplementsOrderedDelivery == Delivery!Spec

\* Nothing the application has not yet been given has left the journal, so a
\* replay can still supply it.  Only a stream that died of a protocol error
\* gives its journal up.  (ACKs carry committed_offset, RESUME_INIT's summary
\* likewise; DATA that merely arrived must not be acknowledged.)
UnreadIsJournaled == acked <= committed \/ cTerm = "ProtocolError"

\* The receiver's buffer needs no bound of its own: what the window delivered
\* and the application has not taken is never more than the sender's journal
\* may hold (session.rs on DELIVER_QUEUE_CAP).
ReceiverBoundedByJournal == Len(queue) + Len(hand) <= JournalCap

\* The end the client believes in is the end the provider declared, and a
\* clean EOF is reported only when the window has reached it: a FIN that
\* overtakes replayed data, or is sent again, truncates nothing in the window.
FinalOffsetAgrees ==
  /\ cTerm = "Fin" => finalSent /\ remoteFinal = next
  /\ reader = "eof" => expected = next

\* Both ends use the same living channel and no handshake is under way.
Settled == up[pGen] /\ cGen = pGen /\ accept = "none" /\ attempt = "none"

\* Every recorded segment has arrived and, unless the reader was told of the
\* end too early (CleanEofIsComplete), been taken.
Arrived ==
  /\ expected = next
  /\ reader # "eof" => Len(consumed) = next

\* A session that settles brings the application everything the engine ever
\* recorded, unless the stream died of a protocol error.
RecordedArrives ==
  <>[]Settled => <>[](Arrived \/ cTerm = "ProtocolError")

\* ... and, once the engine declared the end, the reader learns of it, even
\* if it was declared on a channel that was already dying.
DeclaredEndIsSeen ==
  (<>[]Settled /\ <>(prod = "done")) => <>(reader \in {"eof", "error"})

\* What the repository says of this code and the runs with expect = violation
\* refute.

\* session.rs StreamTerm::Fin: a clean EOF is reported after the deliver
\* queue has been drained.
CleanEofIsComplete == reader = "eof" => Len(consumed) = next

\* continuity/spec.md: after a reconnect the response continues in order
\* without duplicates.  Both ends are honest here, so no stream is reset.
HonestStreamSurvives == cTerm # "ProtocolError"

\* continuity/spec.md: a slow consumer causes back pressure, its stream is not
\* declared dead.  The engine may give a body up only for a reset stream.
SlowReaderIsNotAbandoned ==
  [][prod = "body" /\ prod' = "gone" => pReset]_vars

\* resume_session: a failed transport is retried, only RESUME_REJECT is
\* final.  An attempt ends without success only with its transport dead.
AttemptEndsOnlyByFailure ==
  [][attempt = "wait" /\ attempt' = "none" => cGen' = pGen \/ ~up[pGen]]_vars
=============================================================================
