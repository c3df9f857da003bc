----------------------------- MODULE RecvWindow -----------------------------
(***************************************************************************)
(* The receive window of one direction of one stream (continuity/model.rs),*)
(* byte by byte: segments that arrive out of order wait in a bounded gap   *)
(* buffer, what overlaps the delivered past is compared with a bounded     *)
(* history, and what became contiguous is delivered segment by segment.    *)
(*                                                                         *)
(* A window is a record and every operation a function from window to      *)
(* window; WindowPeer feeds one from an arbitrary peer, StreamChunks from  *)
(* the journal of the other side.  A payload is a sequence of bytes.       *)
(***************************************************************************)
EXTENDS Integers, Sequences, FiniteSets, SequencesExt

CONSTANTS
  GapCap,       \* GAP_CAP: segments in the gap buffer
  GapByteCap,   \* GAP_BYTE_CAP: bytes in the gap buffer
  HistoryCap,   \* HISTORY_CAP: delivered bytes kept for comparison
  OffsetMax     \* u64::MAX

ASSUME WindowCaps ==
  /\ GapCap \in Nat /\ GapByteCap \in Nat
  /\ HistoryCap \in Nat /\ OffsetMax \in Nat

\* RecvWindow::new.  gaps maps an offset to the payload that waits there.
EmptyWindow ==
  [expected |-> 0, gaps |-> << >>, gapBytes |-> 0,
   history |-> << >>, histStart |-> 0, total |-> 0]

GapOffsets(w) == DOMAIN w.gaps

-----------------------------------------------------------------------------
\* Mutation: the history is trimmed without moving its first offset.
AppendForgetsStart(w, p) ==
  LET h == w.history \o p
      excess == IF Len(h) > HistoryCap THEN Len(h) - HistoryCap ELSE 0
  IN  [w EXCEPT !.history = SubSeq(h, excess + 1, Len(h)),
                !.expected = @ + Len(p),
                !.total = @ + Len(p)]

\* append_delivered and the advance of expected_offset that goes with it: the
\* history slides, the counters do not.
AppendDelivered(w, p) ==
  LET h == w.history \o p
      excess == IF Len(h) > HistoryCap THEN Len(h) - HistoryCap ELSE 0
  IN  [w EXCEPT !.history = SubSeq(h, excess + 1, Len(h)),
                !.histStart = @ + excess,
                !.expected = @ + Len(p),
                !.total = @ + Len(p)]

\* Mutation: a drained segment stays on the gap byte account.
TakeGapUncounted(w, off) ==
  [w EXCEPT !.gaps = [o \in GapOffsets(w) \ {off} |-> w.gaps[o]]]

\* Remove one segment from the gap buffer.
TakeGap(w, off) ==
  [w EXCEPT !.gaps = [o \in GapOffsets(w) \ {off} |-> w.gaps[o]],
            !.gapBytes = IF @ >= Len(w.gaps[off]) THEN @ - Len(w.gaps[off]) ELSE 0]

\* Mutation: at most one segment is drained.
DrainOnce(w, out) ==
  IF w.expected \notin GapOffsets(w) THEN [w |-> w, out |-> out]
  ELSE LET p == w.gaps[w.expected]
       IN  [w |-> AppendDelivered(TakeGap(w, w.expected), p), out |-> Append(out, p)]

\* drain_gaps: while the LOWEST buffered offset is the expected one, deliver it.
RECURSIVE DrainGaps(_, _)
DrainGaps(w, out) ==
  IF /\ w.expected \in GapOffsets(w)
     /\ \A o \in GapOffsets(w) : w.expected <= o
  THEN LET p == w.gaps[w.expected]
       IN  DrainGaps(AppendDelivered(TakeGap(w, w.expected), p), Append(out, p))
  ELSE [w |-> w, out |-> out]

\* Mutation: the drained segments are glued to the one that released them.
DeliverGlued(w, p) ==
  LET d == DrainGaps(AppendDelivered(w, p), <<p>>)
  IN  [w |-> d.w, verdict |-> "Deliver", out |-> <<FlattenSeq(d.out)>>]

\* Deliver p, whose first byte is the expected one, and what then drains.
Deliver(w, p) ==
  LET d == DrainGaps(AppendDelivered(w, p), <<p>>)
  IN  [w |-> d.w, verdict |-> "Deliver", out |-> d.out]

Verdict(w, v) == [w |-> w, verdict |-> v, out |-> << >>]

\* Mutation: only the first byte of the overlap is compared.
OverlapAgreesAtStart(w, off, p) ==
  LET from == IF off > w.histStart THEN off ELSE w.histStart
      upto == IF off + Len(p) < w.expected THEN off + Len(p) ELSE w.expected
  IN  from < upto => p[from - off + 1] = w.history[from - w.histStart + 1]

\* Mutation: the history is indexed as if it began with the overlap.
OverlapAgreesShifted(w, off, p) ==
  LET from == IF off > w.histStart THEN off ELSE w.histStart
      upto == IF off + Len(p) < w.expected THEN off + Len(p) ELSE w.expected
  IN  \A i \in from..(upto - 1) : p[i - off + 1] = w.history[i - from + 1]

\* The part of the payload that lies in the retained history equals it; what
\* lies below the history cannot be compared and is taken for a repeat.
OverlapAgrees(w, off, p) ==
  LET from == IF off > w.histStart THEN off ELSE w.histStart
      upto == IF off + Len(p) < w.expected THEN off + Len(p) ELSE w.expected
  IN  \A i \in from..(upto - 1) : p[i - off + 1] = w.history[i - w.histStart + 1]

\* feed_with_limits, offset below the expected one.
FeedBelow(w, off, p) ==
  IF ~OverlapAgrees(w, off, p) THEN Verdict(w, "OverlapMismatch")
  ELSE IF off + Len(p) <= w.expected THEN Verdict(w, "Duplicate")
  ELSE Deliver(w, SubSeq(p, w.expected - off + 1, Len(p)))

\* feed_with_limits, offset above the expected one: the gap buffer.
FeedAbove(w, off, p) ==
  CASE off \in GapOffsets(w) ->
         Verdict(w, IF w.gaps[off] = p THEN "Duplicate" ELSE "OverlapMismatch")
    [] off \notin GapOffsets(w)
       /\ \/ Cardinality(GapOffsets(w)) >= GapCap
          \/ w.gapBytes + Len(p) > GapByteCap ->
         Verdict(w, "GapOverflow")
    [] OTHER ->
         Verdict([w EXCEPT !.gaps = [o \in GapOffsets(w) \cup {off} |->
                                       IF o = off THEN p ELSE w.gaps[o]],
                           !.gapBytes = @ + Len(p)], "Buffered")

\* feed_with_limits; the checked addition comes before anything else.
Feed(w, off, p) ==
  CASE off + Len(p) > OffsetMax -> Verdict(w, "OverlapMismatch")
    [] off + Len(p) <= OffsetMax /\ off < w.expected -> FeedBelow(w, off, p)
    [] off + Len(p) <= OffsetMax /\ off = w.expected -> Deliver(w, p)
    [] off + Len(p) <= OffsetMax /\ off > w.expected -> FeedAbove(w, off, p)

=============================================================================
