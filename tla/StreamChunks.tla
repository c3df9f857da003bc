---------------------------- MODULE StreamChunks ----------------------------
(***************************************************************************)
(* The bytes of one response stream: the journal of the sender             *)
(* (StreamJournal) against the receive window of the reader, across        *)
(* reconnects.  StreamDelivery treats a DATA payload as one unit; here it  *)
(* is a sequence of bytes, and an acknowledgement or an overlap may fall   *)
(* anywhere.  The whole resume handshake is one action: it loses what is   *)
(* in flight, frees what the reader's summary covers and takes the replay  *)
(* snapshot.                                                               *)
(***************************************************************************)
EXTENDS RecvWindow

CONSTANTS
  MaxSegments,  \* JournalLimits.max_segments
  MaxBytes,     \* JournalLimits.max_stream_bytes
  MaxWrites,    \* bound: writes of the handler
  Sizes,        \* bound: their lengths, 0 for an empty write
  MaxResumes    \* bound: reconnects

VARIABLES
  next, acked,  \* journal.next_send_offset, journal.acked_offset
  segments,     \* journal.segments: offset -> payload
  sending,      \* the frame send_resilient has recorded and not yet sent
  replaying,    \* the frames of the replay snapshot still to send
  net,          \* DATA frames in flight on the current channel
  window,       \* the reader's RecvWindow
  reset,        \* the reader refused a frame and reset the stream
  committed,    \* committed_offset: bytes the application took
  resumes,      \* history: reconnects so far
  writes,       \* history: the handler's writes
  delivered,    \* history: the chunks delivered to the reader's queue
  read          \* history: how many of them the application took

journalVars == <<next, acked, segments, sending, writes>>
readerVars == <<window, reset, committed, delivered, read>>
vars == <<journalVars, replaying, net, readerVars, resumes>>

Bytes(off, n) == [i \in 1..n |-> off + i - 1]
Frame(off) == [off |-> off, p |-> segments[off]]
NoFrame == [off |-> -1, p |-> << >>]

Held == FoldSet(LAMBDA o, n : n + Len(segments[o]), 0, DOMAIN segments)
TotalLen(chunks) == FoldSeq(LAMBDA c, n : n + Len(c), 0, chunks)

Init ==
  /\ next = 0 /\ acked = 0 /\ segments = << >> /\ sending = NoFrame
  /\ replaying = << >> /\ net = << >>
  /\ window = EmptyWindow /\ reset = FALSE /\ committed = 0
  /\ resumes = 0 /\ writes = << >> /\ delivered = << >> /\ read = 0

-----------------------------------------------------------------------------
(* Sender.                                                                 *)

\* prepare_send: StreamJournal.record.  A zero-length segment does not move
\* next_send_offset, so the next record takes the same key.
Record(n) ==
  /\ sending = NoFrame
  /\ Cardinality(DOMAIN segments) < MaxSegments
  /\ Held + n <= MaxBytes
  /\ segments' = [o \in DOMAIN segments \cup {next} |->
                    IF o = next THEN Bytes(next, n) ELSE segments[o]]
  /\ sending' = [off |-> next, p |-> Bytes(next, n)]
  /\ next' = next + n
  /\ writes' = Append(writes, Bytes(next, n))
  /\ UNCHANGED <<acked, replaying, net, readerVars, resumes>>

\* send_data_at: a send that fails is repeated at the same offset after the
\* resume, which is this action taken later.
SendRecorded ==
  /\ sending # NoFrame
  /\ net' = Append(net, sending)
  /\ sending' = NoFrame
  /\ UNCHANGED <<next, acked, segments, writes, replaying, readerVars, resumes>>

\* replay_data_arbited: the next segment of the snapshot.
ReplayNext ==
  /\ replaying # << >>
  /\ net' = Append(net, Head(replaying))
  /\ replaying' = Tail(replaying)
  /\ UNCHANGED <<journalVars, readerVars, resumes>>

\* Mutation: off by one, the segment that starts at the new offset goes, too.
AdvanceAckPastStart(n) ==
  IF n <= acked THEN UNCHANGED <<acked, segments>>
  ELSE /\ acked' = IF n < next THEN n ELSE next
       /\ segments' = [o \in {o \in DOMAIN segments : o > acked'} |-> segments[o]]

\* StreamJournal.advance_ack: forward only, clamped to what was sent, and a
\* segment is freed only as a whole.
AdvanceAck(n) ==
  IF n <= acked THEN UNCHANGED <<acked, segments>>
  ELSE /\ acked' = IF n < next THEN n ELSE next
       /\ segments' = [o \in {o \in DOMAIN segments : o + Len(segments[o]) > acked'}
                         |-> segments[o]]

\* An ACK arrives.  It names a consumption watermark the reader had when it
\* sent the frame; one from an implementation that counts bytes may lie
\* inside a segment.
AckArrives ==
  /\ ~reset
  /\ \E n \in (acked + 1)..committed : AdvanceAck(n)
  /\ UNCHANGED <<next, sending, writes, replaying, net, readerVars, resumes>>

\* The segments of the journal from the lowest offset up, none if the journal
\* holds no byte (replay_batches skips such a stream).
Snapshot(segs) ==
  LET offs == SetToSortSeq(DOMAIN segs, <)
      held == \E o \in DOMAIN segs : segs[o] # << >>
  IN  IF held THEN [i \in DOMAIN offs |-> [off |-> offs[i], p |-> segs[offs[i]]]]
      ELSE << >>

\* The connection breaks and the session resumes on another one: what was in
\* flight is gone, the summary acknowledges what the application took, and
\* the rest is replayed.
Resume ==
  /\ resumes < MaxResumes
  /\ resumes' = resumes + 1
  /\ net' = << >>
  /\ AdvanceAck(committed)
  /\ replaying' = IF reset THEN << >> ELSE Snapshot(segments')
  /\ UNCHANGED <<next, sending, writes, readerVars>>

-----------------------------------------------------------------------------
(* Reader.                                                                 *)

\* on_frame for DATA.
Receive ==
  /\ net # << >>
  /\ net' = Tail(net)
  /\ ~reset
  /\ LET r == Feed(window, Head(net).off, Head(net).p)
     IN  /\ window' = r.w
         /\ delivered' = delivered \o r.out
         /\ reset' = (r.verdict \in {"OverlapMismatch", "GapOverflow"})
  /\ UNCHANGED <<journalVars, replaying, committed, read, resumes>>

\* recv() hands one chunk to the application and commits its length.
Consume ==
  /\ read < Len(delivered)
  /\ read' = read + 1
  /\ committed' = committed + Len(delivered[read + 1])
  /\ UNCHANGED <<journalVars, replaying, net, window, reset, delivered, resumes>>

Next ==
  \/ Len(writes) < MaxWrites /\ ~reset /\ \E n \in Sizes : Record(n)
  \/ SendRecorded
  \/ ReplayNext
  \/ AckArrives
  \/ Resume
  \/ Receive
  \/ Consume

Spec == Init /\ [][Next]_vars

-----------------------------------------------------------------------------
\* Every variable has its type.
TypeOK ==
  /\ next \in Nat /\ acked \in 0..next /\ committed \in 0..next
  /\ DOMAIN segments \subseteq 0..next
  /\ \A o \in DOMAIN segments : segments[o] \in Seq(Nat)
  /\ \A i \in 1..Len(net) : net[i].off \in 0..next
  /\ reset \in BOOLEAN /\ read \in 0..Len(delivered)
  /\ Cardinality(DOMAIN segments) <= MaxSegments
  /\ Held <= MaxBytes

\* One write is one DATA payload is one chunk at the reader: whatever is lost,
\* replayed or overtaken, the chunks delivered are the first writes, each once,
\* with their boundaries (the frozen contract of the response body).
ChunkPerWrite == IsPrefix(delivered, writes)

\* Every byte the application has not taken is in some segment of the journal,
\* although acknowledgements may fall inside a segment: the next replay can
\* always close the stream.
UnreadIsHeld ==
  \A b \in committed..(next - 1) :
    \E o \in DOMAIN segments :
      /\ o <= b /\ b < o + Len(segments[o])
      /\ segments[o][b - o + 1] = b

\* The reader never mistakes an honest repeat for a contradiction: replayed,
\* overtaken and repeated segments of one journal never reset the stream.  (The
\* gap buffer is large enough here; StreamDelivery shows what happens if not.)
HonestNeverReset == ~reset

\* With segments cut by one journal, delivery never stops short of a segment
\* that is already there.
GapPrefixDrained ==
  \A o \in DOMAIN window.gaps : window.expected < o

=============================================================================
