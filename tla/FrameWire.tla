----------------------------- MODULE FrameWire ------------------------------
(***************************************************************************)
(* One direction of a channel between TransportSend.send and               *)
(* TransportRecv.recv: tasks that send whole frames through one mutex, a   *)
(* byte stream that is written and read in pieces, and the framer that     *)
(* cuts the pieces into frames again.                                      *)
(*                                                                         *)
(* The stream is a sequence of cells.  A frame is two header cells (the    *)
(* fields that are checked, and the length) and one cell per payload byte; *)
(* a cell knows the frame it was written for, which the framer cannot see: *)
(* like Frame::decode, it looks only at what kind of cell it has.  There   *)
(* is no checksum.                                                         *)
(***************************************************************************)
EXTENDS Naturals, Sequences, FiniteSets, SequencesExt

CONSTANTS
  Tasks,      \* tasks that send on the channel: engine, pump, replay, ...
  MaxFrames,  \* bound: frames sent, by all tasks together
  MaxLen,     \* bound: payload bytes in a frame (MAX_FRAME)
  MaxChunk,   \* bound: cells one read returns
  MaxStalls   \* bound: writes that outlast SEND_FRAME_TIMEOUT

VARIABLES
  count,      \* frames begun so far, by all tasks
  frame,      \* the frame a task is sending or will retry
  holder,     \* the task that holds the mutex of TransportSend, or NoTask
  at,         \* cells of its frame already written
  stopping,   \* SessionChannel.stopping
  stalls,     \* history: write timeouts so far
  wire,       \* cells written and not yet read
  ended,      \* the connection is gone: nothing more is written
  buf,        \* StreamFramer.buf
  pending,    \* TransportRecv.pending
  failed,     \* recv returned an error
  sent,       \* history: frames written in full, in that order
  received,   \* history: frames recv returned
  poisoned    \* history: the framer has met a protocol violation

senderVars == <<count, frame, holder, at, stopping, stalls>>
readerVars == <<buf, pending, failed, received, poisoned>>
vars == <<senderVars, readerVars, wire, ended, sent>>

NoTask == "none"
HeaderLen == 2

Frame == [task : Tasks, n : 1..MaxFrames, len : 0..MaxLen]
NoFrame == [task |-> NoTask, n |-> 0, len |-> 0]

\* The cells Frame::encode produces.
Cells(f) == [i \in 1..(HeaderLen + f.len) |-> [of |-> f, pos |-> i]]
Payload(f) == SubSeq(Cells(f), HeaderLen + 1, HeaderLen + f.len)

\* What the framer makes of its buffer: a frame as its header says it is, with
\* the cells that stand behind the header.
Whole(f) == [frame |-> f, payload |-> Payload(f)]

Init ==
  /\ count = 0 /\ frame = [t \in Tasks |-> NoFrame]
  /\ holder = NoTask /\ at = 0 /\ stopping = FALSE /\ stalls = 0
  /\ wire = << >> /\ ended = FALSE
  /\ buf = << >> /\ pending = << >> /\ failed = FALSE
  /\ sent = << >> /\ received = << >> /\ poisoned = FALSE

-----------------------------------------------------------------------------
(* Sender: SessionChannel::send_frame.                                     *)

\* A task has a frame to send.
Submit(t) ==
  /\ frame[t] = NoFrame /\ count < MaxFrames
  /\ count' = count + 1
  /\ \E len \in 0..MaxLen :
       frame' = [frame EXCEPT ![t] = [task |-> t, n |-> count', len |-> len]]
  /\ UNCHANGED <<holder, at, stopping, stalls, wire, ended, sent, readerVars>>

\* The mutex is taken and the stop flag checked; a stopped channel or a dead
\* connection refuses the frame.  (Its retry goes to another channel.)
Acquire(t) ==
  /\ frame[t] # NoFrame /\ holder = NoTask
  /\ IF stopping \/ ended
     THEN frame' = [frame EXCEPT ![t] = NoFrame] /\ UNCHANGED <<holder, at>>
     ELSE holder' = t /\ at' = 0 /\ UNCHANGED frame
  /\ UNCHANGED <<count, stopping, stalls, wire, ended, sent, readerVars>>

\* write_all makes progress: some cells enter the stream, and with the last
\* one it returns Ok.
Write(t) ==
  /\ holder = t /\ ~ended
  /\ LET cells == Cells(frame[t])
     IN  \E k \in (at + 1)..Len(cells) :
           /\ wire' = wire \o SubSeq(cells, at + 1, k)
           /\ IF k = Len(cells)
              THEN /\ sent' = Append(sent, frame[t])
                   /\ frame' = [frame EXCEPT ![t] = NoFrame]
                   /\ holder' = NoTask /\ at' = 0
              ELSE at' = k /\ UNCHANGED <<sent, frame, holder>>
  /\ UNCHANGED <<count, stopping, stalls, ended, readerVars>>

\* SEND_FRAME_TIMEOUT drops write_all where it stands, and the channel lives
\* on: send_resilient, finding the session Active, sends the frame again; the
\* pump, for a reply, does not.
WriteTimeout(t) ==
  /\ holder = t /\ ~ended /\ stalls < MaxStalls
  /\ stalls' = stalls + 1
  /\ holder' = NoTask /\ at' = 0
  /\ frame' \in {frame, [frame EXCEPT ![t] = NoFrame]}
  /\ UNCHANGED <<count, stopping, wire, ended, sent, readerVars>>

\* Mutation: the stop flag is not set, so later sends are not refused.
StopUnflagged ==
  /\ ~stopping /\ ~ended
  /\ holder' = NoTask /\ at' = 0
  /\ UNCHANGED <<count, frame, stopping, stalls, wire, ended, sent, readerVars>>

\* stop_and_wait: a transition to another channel cancels the write under way
\* and refuses every later one.
Stop ==
  /\ ~stopping /\ ~ended
  /\ stopping' = TRUE
  /\ holder' = NoTask /\ at' = 0
  /\ frame' = IF holder = NoTask THEN frame ELSE [frame EXCEPT ![holder] = NoFrame]
  /\ UNCHANGED <<count, stalls, wire, ended, sent, readerVars>>

\* The connection ends and takes a suffix of the unread cells with it; the
\* write under way fails.
End ==
  /\ ~ended
  /\ ended' = TRUE
  /\ \E k \in 0..Len(wire) : wire' = SubSeq(wire, 1, k)
  /\ holder' = NoTask /\ at' = 0
  /\ frame' = IF holder = NoTask THEN frame ELSE [frame EXCEPT ![holder] = NoFrame]
  /\ UNCHANGED <<count, stopping, stalls, sent, readerVars>>

-----------------------------------------------------------------------------
(* Reader: StreamFramer, TransportRecv::recv.                              *)

\* Frame::decode has enough for the header, and the header is none: the magic
\* or one of the checked fields is not where it belongs.
BadHeader(b) ==
  Len(b) >= HeaderLen /\ \E i \in 1..HeaderLen : b[i].pos # i

\* StreamFramer::try_one finds a complete frame.
Complete(b) ==
  /\ Len(b) >= HeaderLen /\ ~BadHeader(b)
  /\ Len(b) >= HeaderLen + b[HeaderLen].of.len

\* Mutation: the payload is taken one cell too early.
FirstFrameEarly(b) ==
  LET n == b[HeaderLen].of.len
  IN  [got  |-> [frame |-> b[HeaderLen].of, payload |-> SubSeq(b, HeaderLen, HeaderLen + n - 1)],
       rest |-> SubSeq(b, HeaderLen + n + 1, Len(b))]

\* The frame at the head of the buffer and what follows it.
FirstFrame(b) ==
  LET n == b[HeaderLen].of.len
  IN  [got  |-> [frame |-> b[HeaderLen].of, payload |-> SubSeq(b, HeaderLen + 1, HeaderLen + n)],
       rest |-> SubSeq(b, HeaderLen + n + 1, Len(b))]

\* Mutation: one read yields at most one frame.
FramesOne(b, out) ==
  IF Complete(b) THEN [rest |-> FirstFrame(b).rest, out |-> Append(out, FirstFrame(b).got)]
  ELSE [rest |-> b, out |-> out]

\* The loop of StreamFramer::feed up to the first incomplete or bad frame.
RECURSIVE Frames(_, _)
Frames(b, out) ==
  IF Complete(b) THEN Frames(FirstFrame(b).rest, Append(out, FirstFrame(b).got))
  ELSE [rest |-> b, out |-> out]

\* StreamFramer::feed and drain_framed.  On a violation behind at least one
\* frame the buffer is cleared and the frames are delivered; with none before
\* it, the error is returned.
Feed(chunk) ==
  LET r == Frames(buf \o chunk, << >>)
      bad == BadHeader(r.rest)
  IN  /\ pending' = pending \o r.out
      /\ buf' = IF bad /\ r.out # << >> THEN << >> ELSE r.rest
      /\ failed' = (bad /\ r.out = << >>)
      /\ poisoned' = (poisoned \/ bad)

\* recv with nothing pending: the next chunk, of any size, or the end.
Read ==
  /\ ~failed /\ pending = << >>
  /\ \/ \E n \in 1..MaxChunk :
          /\ n <= Len(wire)
          /\ Feed(SubSeq(wire, 1, n))
          /\ wire' = SubSeq(wire, n + 1, Len(wire))
     \/ /\ wire = << >> /\ ended
        /\ failed' = TRUE
        /\ UNCHANGED <<buf, pending, poisoned, wire>>
  /\ UNCHANGED <<senderVars, ended, sent, received>>

\* recv returns a pending frame.
Recv ==
  /\ ~failed /\ pending # << >>
  /\ received' = Append(received, Head(pending))
  /\ pending' = Tail(pending)
  /\ UNCHANGED <<senderVars, buf, failed, poisoned, wire, ended, sent>>

Next ==
  \/ \E t \in Tasks : Submit(t) \/ Acquire(t) \/ Write(t) \/ WriteTimeout(t)
  \/ Stop \/ End \/ Read \/ Recv

\* The pump reads as long as there is something to read, and a live connection
\* takes the cells of a write.
Fairness ==
  /\ WF_vars(Read) /\ WF_vars(Recv)
  /\ \A t \in Tasks : WF_vars(Write(t))

Spec == Init /\ [][Next]_vars
LiveSpec == Spec /\ Fairness

-----------------------------------------------------------------------------
\* Every variable has its type.
TypeOK ==
  /\ count \in 0..MaxFrames
  /\ frame \in [Tasks -> Frame \cup {NoFrame}]
  /\ holder \in Tasks \cup {NoTask}
  /\ at \in 0..(HeaderLen + MaxLen)
  /\ stopping \in BOOLEAN /\ ended \in BOOLEAN /\ failed \in BOOLEAN /\ poisoned \in BOOLEAN
  /\ stalls \in 0..MaxStalls
  /\ \A i \in 1..Len(sent) : sent[i] \in Frame
  /\ \A i \in 1..Len(received) : received[i].frame \in Frame
  /\ holder # NoTask => frame[holder] # NoFrame /\ at < HeaderLen + frame[holder].len

\* What recv returns is what was sent, header and payload: however the stream
\* is cut into reads and whoever else writes to it, no frame carries cells of
\* another one.
FramesIntact == \A i \in 1..Len(received) : received[i] = Whole(received[i].frame)

\* A complete frame never waits in the framer for bytes of the next one: after
\* every read the buffer holds less than a frame.
NothingDecodableHeld == ~Complete(buf)

\* While no write has been cut short by its timeout the reader meets no
\* protocol violation: cancelling writes for a channel change and losing the
\* connection leave at most an unfinished frame at the very end.
NoFalseAlarm == stalls = 0 => ~poisoned

\* While no write has been cut short the channel is the queue of whole frames,
\* each with its own header and payload, that the session layer takes it for.
Wholes(frames) == [i \in DOMAIN frames |-> Whole(frames[i])]
Channel == INSTANCE OrderedDelivery
  WITH Item <- {Whole(f) : f \in Frame}, sent <- Wholes(sent), got <- received
ChannelStep == [Channel!Next \/ stalls > 0]_(Channel!vars)

\* The reader catches up with the frames written in full again and again,
\* whatever the reads return, unless the connection ends or a write was cut
\* short.
WrittenArrives == []<>(ended \/ stalls > 0 \/ Len(received) = Len(sent))

\* A violation met behind complete frames is reported by the next feed, as the
\* framer's comment has it: after it no further frame is decoded.
ErrorIsReplayed == [][poisoned => Len(pending') <= Len(pending)]_vars

=============================================================================
