----------------------------- MODULE Continuity -----------------------------
(***************************************************************************)
(* Parts of the continuity core, each on its own: the control of a resume, *)
(* the receive window against any peer, the journal against the window,    *)
(* the frames of a channel.  A behaviour looks at one of them.  The last   *)
(* three stand at zero until they are looked at, and the same variables    *)
(* hold the state of whichever it is.                                      *)
(***************************************************************************)
EXTENDS ResumeControl, RecvWindow

CONSTANTS Focuses,              \* the parts looked at
          PeerLen, PeerFeeds,   \* WindowPeer
          MaxWrites, MaxResumes, \* StreamChunks
          Tasks, MaxFrames, MaxChunk, MaxStalls \* FrameWire

VARIABLES
  focus, \* the part looked at
  s1, s2, s3, s4, s5, s6, s7, s8, s9, s10, s11, s12, s13, s14 \* its state

Window == INSTANCE WindowPeer WITH
  MaxLen <- PeerLen, MaxFeeds <- PeerFeeds, Lies <- TRUE,
  window <- s1, delivered <- s2, seen <- s3, verdict <- s4, feeds <- s5
Chunks == INSTANCE StreamChunks WITH
  GapCap <- 5, GapByteCap <- 8, OffsetMax <- 100, MaxSegments <- 3, MaxBytes <- 5, Sizes <- {1, 2},
  next <- s1, acked <- s2, segments <- s3, sending <- s4, replaying <- s5, net <- s6,
  window <- s7, reset <- s8, committed <- s9, resumes <- s10, writes <- s11,
  delivered <- s12, read <- s13
Wire == INSTANCE FrameWire WITH
  MaxLen <- 1, count <- s1, frame <- s2, holder <- s3, at <- s4, stopping <- s5, stalls <- s6,
  wire <- s7, ended <- s8, buf <- s9, pending <- s10, failed <- s11, sent <- s12,
  received <- s13, poisoned <- s14

Zero5 == s1 = 0 /\ s2 = 0 /\ s3 = 0 /\ s4 = 0 /\ s5 = 0
Zero13 == s6 = 0 /\ s7 = 0 /\ s8 = 0 /\ s9 = 0 /\ s10 = 0 /\ s11 = 0 /\ s12 = 0 /\ s13 = 0
After5 == <<s6, s7, s8, s9, s10, s11, s12, s13>>
own == <<s1, s2, s3, s4, s5, After5, s14>>
continuityVars == <<focus, vars, own>>

ContinuityInit ==
  /\ focus \in Focuses
  /\ Init
  /\ \/ focus = "resume" /\ Zero5 /\ Zero13 /\ s14 = 0
     \/ focus = "window" /\ Window!Init /\ Zero13 /\ s14 = 0
     \/ focus = "chunks" /\ Chunks!Init /\ s14 = 0
     \/ focus = "frames" /\ Wire!Init

ContinuityNext ==
  /\ UNCHANGED focus
  /\ \/ focus = "resume" /\ Next /\ UNCHANGED own
     \/ focus = "window" /\ Window!Next /\ UNCHANGED <<vars, After5, s14>>
     \/ focus = "chunks" /\ Chunks!Next /\ UNCHANGED <<vars, s14>>
     \/ focus = "frames" /\ Wire!Next /\ UNCHANGED vars

ContinuitySpec == ContinuityInit /\ [][ContinuityNext]_continuityVars

(***************************************************************************)
(* Properties: those of ResumeControl, and those of the other parts.       *)
(***************************************************************************)
\* The window's history and its gap buffer account for what they hold, against
\* any peer; journal and window together give the reader one chunk for each
\* write, keep what is unread, and never reset an honest stream; the framer
\* keeps no frame it could decode, and while no write has been cut short it
\* finds no violation (model.rs, transport.rs, frame.rs).
BytesHold ==
  /\ focus = "window" => Window!HistoryCovers /\ Window!GapsAccounted
  /\ focus = "chunks" =>
       Chunks!ChunkPerWrite /\ Chunks!UnreadIsHeld /\ Chunks!HonestNeverReset /\ Chunks!GapPrefixDrained
  /\ focus = "frames" => Wire!NothingDecodableHeld /\ Wire!NoFalseAlarm

\* The window refuses a frame that contradicts its history; a channel on which
\* no write was cut short is a queue of whole frames (model.rs, transport.rs).
StepsHold ==
  [][/\ focus = "window" => Window!RefusedStep
     /\ focus = "frames" => Wire!ChannelStep]_continuityVars
=============================================================================
