----------------------------- MODULE WindowPeer -----------------------------
(***************************************************************************)
(* A receive window against a peer bound only by the frame format: any     *)
(* offset, any length, cut as it likes, repeated, reordered and not always *)
(* with the same bytes.  The first mismatch or overflow ends the stream    *)
(* (SessionShared::on_frame resets it), so nothing is fed afterwards.      *)
(***************************************************************************)
EXTENDS RecvWindow

CONSTANTS
  MaxLen,     \* bound: bytes in one payload
  MaxFeeds,   \* bound: frames the peer sends
  Lies        \* bound: whether the peer may send other bytes than the true ones

VARIABLES
  window,     \* ctx.recv
  delivered,  \* history: the bytes delivered, in order
  seen,       \* history: the last frame fed
  verdict,    \* its SegmentAction
  feeds       \* history: frames fed

vars == <<window, delivered, seen, verdict, feeds>>

\* The true byte at offset o is o; every lie looks the same.
Lie == -1
Byte == {Lie} \cup 0..OffsetMax
Truth(off, n) == [i \in 1..n |-> off + i - 1]
Lied(off, n, k) == [Truth(off, n) EXCEPT ![k] = Lie]

Payloads(off) ==
  {Truth(off, n) : n \in 0..MaxLen}
    \cup (IF Lies THEN UNION {{Lied(off, n, k) : k \in 1..n} : n \in 1..MaxLen} ELSE {})

Init ==
  /\ window = EmptyWindow
  /\ delivered = << >>
  /\ seen = [off |-> 0, p |-> << >>]
  /\ verdict = "none"
  /\ feeds = 0

\* on_frame for DATA: the verdict of the window decides whether the stream goes on.
OnData(off, p) ==
  LET r == Feed(window, off, p)
  IN  /\ window' = r.w
      /\ verdict' = r.verdict
      /\ delivered' = delivered \o FlattenSeq(r.out)
      /\ seen' = [off |-> off, p |-> p]

Next ==
  /\ feeds < MaxFeeds
  /\ verdict \notin {"OverlapMismatch", "GapOverflow"}
  /\ feeds' = feeds + 1
  /\ \E off \in 0..OffsetMax : \E p \in Payloads(off) : OnData(off, p)

Spec == Init /\ [][Next]_vars

-----------------------------------------------------------------------------
\* Every variable has its type.
TypeOK ==
  /\ window \in [expected : 0..OffsetMax, gaps : {window.gaps}, gapBytes : Nat,
                 history : {window.history}, histStart : 0..OffsetMax, total : Nat]
  /\ GapOffsets(window) \subseteq 0..OffsetMax
  /\ \A o \in GapOffsets(window) : window.gaps[o] \in Seq(Byte)
  /\ window.history \in Seq(Byte) /\ delivered \in Seq(Byte)
  /\ feeds \in 0..MaxFeeds
  /\ verdict \in {"none", "Deliver", "Duplicate", "Buffered", "OverlapMismatch", "GapOverflow"}

\* The accounting feed_with_limits relies on when it slices the history (it
\* panics otherwise): the history is the last bytes delivered, it ends at the
\* expected offset, and the counter of delivered bytes is that offset.
HistoryCovers ==
  /\ Len(window.history) <= HistoryCap
  /\ window.histStart + Len(window.history) = window.expected
  /\ window.total = window.expected
  /\ Len(delivered) = window.expected
  /\ window.history = SubSeq(delivered, window.histStart + 1, window.expected)

\* Whatever the order, the gap buffer accounts for the bytes it holds and stays
\* within both caps, so a peer cannot make it grow by leaving holes.
GapsAccounted ==
  /\ window.gapBytes = FoldSet(LAMBDA o, n : n + Len(window.gaps[o]), 0, GapOffsets(window))
  /\ window.gapBytes <= GapByteCap
  /\ Cardinality(GapOffsets(window)) <= GapCap

\* A frame that contradicts a delivered byte still in the history is refused:
\* taken (delivered or counted as a repeat), it agrees with all of them.
RefusedStep ==
  verdict' \in {"Deliver", "Duplicate"} /\ seen'.off < window.expected
    => \A i \in 1..Len(seen'.p) :
         LET at == seen'.off + i - 1
         IN  window.histStart <= at /\ at < window.expected
             => seen'.p[i] = delivered[at + 1]
ContradictionRefused == [][RefusedStep]_vars

\* feed_with_limits documents that delivery drains the gap prefix: no segment
\* keeps waiting at the offset delivery has reached.
GapPrefixDrained == window.expected \notin GapOffsets(window)

=============================================================================
