------------------------ MODULE StreamDelivery_proofs ------------------------
(***************************************************************************)
(* StreamDelivery for all values of its constants: type correctness, the   *)
(* safety invariants, and that it implements OrderedDelivery.              *)
(*                                                                         *)
(* The argument.  Three numbers order the stream: what the application has *)
(* (Taken), what the window has delivered (expected), what the engine has  *)
(* recorded (next).  Queue and hand are exactly the segments between the   *)
(* first two, gaps lie above the second, every DATA frame below the third. *)
(* ACKs in flight never exceed committed, hence neither does the journal's *)
(* acked offset, until a protocol error lets a RESET clear the journal.    *)
(***************************************************************************)
EXTENDS StreamDelivery, SequenceTheorems, TLAPS

\* The frames that may be in flight.
GoodData ==
  {f \in DataFrames : /\ f.type = "DATA" => f.off < next
                      /\ f.type = "FIN" => finalSent /\ f.off = next}
GoodAcks ==
  {f \in AckFrames : /\ f.type = "ACK" => f.off <= committed
                     /\ f.type = "RESET" => cTerm = "ProtocolError"}

\* How many segments the application has taken out of the queue.
Taken == committed + (IF reader = "popped" THEN 1 ELSE 0)

EngineInv ==
  /\ next \in Nat /\ next <= MaxSegs /\ acked \in 0..next
  /\ finalSent \in BOOLEAN /\ pReset \in BOOLEAN
  /\ prod \in {"body", "sending", "wait", "fin", "finwait", "done", "gone"}
  /\ prod \in {"sending", "wait"} => next > 0
  /\ finalSent => prod = "done"
  /\ next - acked <= JournalCap
  /\ acked <= committed \/ cTerm = "ProtocolError"
  /\ pReset => cTerm = "ProtocolError"

ResumeInv ==
  /\ pPhase \in {"Active", "Recovering"} /\ cPhase \in {"Active", "Recovering"}
  /\ pGen \in Gens /\ cGen \in Gens
  /\ accept \in {"none", "stopping", "installed"}
  /\ accept = "stopping" => pGen < MaxGen /\ attempt = "wait"
  /\ attempt = "init" => pGen < MaxGen
  /\ attempt \in {"none", "init", "wait"}
  /\ summary \in Nat /\ summary <= committed
  /\ replay \in {"idle", "snapshot", "data"}
  /\ repAt \in Nat /\ repEnd \in Nat /\ repAt <= repEnd /\ repEnd <= next

WireInv ==
  /\ data \in [Gens -> Seq(GoodData)]
  /\ acks \in [Gens -> Seq(GoodAcks)]
  /\ up \in [Gens -> BOOLEAN]

WindowInv ==
  /\ expected \in Nat /\ expected <= next
  /\ gaps \subseteq (expected + 1)..(next - 1)
  /\ cTerm \in {"none", "Fin", "ProtocolError"}
  /\ cTerm = "none" => remoteFinal = NoFinal
  /\ cTerm = "Fin" => finalSent /\ remoteFinal = next
  /\ cTerm = "ProtocolError" => remoteFinal = expected /\ hand = << >>

\* What is between the window and the application.
PipeInv ==
  /\ hand \in Seq(Segs) /\ queue \in Seq(Segs) /\ consumed \in Seq(Segs)
  /\ committed \in Nat /\ handAck \in Nat /\ handAck <= committed
  /\ popped \in Nat /\ (popped \in Segs \cup {0})
  /\ reader = "popped" => popped = committed
  /\ Len(consumed) = committed
  /\ \A k \in 1..Len(consumed) : consumed[k] = k - 1
  /\ \A k \in 1..Len(queue) : queue[k] = Taken + k - 1
  /\ \A k \in 1..Len(hand) : hand[k] = Taken + Len(queue) + k - 1
  /\ Taken + Len(queue) + Len(hand) <= expected
  /\ cTerm # "ProtocolError" => Taken + Len(queue) + Len(hand) = expected
  /\ Len(queue) + Len(hand) <= JournalCap

EndInv ==
  /\ reader \in {"idle", "popped", "checking", "confirm", "eof", "error"}
  /\ reader = "confirm" => cTerm # "none"
  /\ reader = "confirm" /\ cTerm = "Fin" => expected = next
  /\ reader = "eof" => finalSent /\ expected = next

IInv == EngineInv /\ ResumeInv /\ WireInv /\ WindowInv /\ PipeInv /\ EndInv

-----------------------------------------------------------------------------
(* Sequences.                                                              *)

\* A sequence over a set is one over any larger set.
LEMMA SeqWider ==
  ASSUME NEW S, NEW T, S \subseteq T, NEW s \in Seq(S)
  PROVE  s \in Seq(T)
  OBVIOUS

\* What is left of a channel that lost a suffix.
LEMMA PrefixInSeq ==
  ASSUME NEW S, NEW s \in Seq(S), NEW n \in 0..Len(s)
  PROVE  SubSeq(s, 1, n) \in Seq(S)
  OBVIOUS

-----------------------------------------------------------------------------
(* The initial state.                                                      *)

LEMMA InitIInv == Init => IInv
  <1> SUFFICES ASSUME Init PROVE IInv
    OBVIOUS
  <1> USE CapAssumption DEF Init
  <1>1. EngineInv
    <2>1. finalSent \in BOOLEAN /\ pReset \in BOOLEAN /\ ~finalSent /\ ~pReset
      BY Zenon
    <2>2. /\ next \in Nat /\ next <= MaxSegs /\ acked \in 0..next
          /\ next - acked <= JournalCap /\ acked <= committed
      OBVIOUS
    <2>3. prod \in {"body", "sending", "wait", "fin", "finwait", "done", "gone"}
          /\ prod \notin {"sending", "wait"}
      OBVIOUS
    <2> QED
      BY <2>1, <2>2, <2>3, Zenon DEF EngineInv
  <1>2. ResumeInv
    BY DEF ResumeInv, Gens
  <1>3. WireInv
    BY DEF WireInv
  <1>4. WindowInv
    BY DEF WindowInv
  <1>5. PipeInv
    BY DEF PipeInv, Taken
  <1>6. EndInv
    BY DEF EndInv
  <1> QED
    BY <1>1, <1>2, <1>3, <1>4, <1>5, <1>6 DEF IInv

-----------------------------------------------------------------------------
(* One lemma per part of the invariant, one step per action in it.         *)

\* Nothing recorded is forgotten, nothing committed taken back, and a
\* declared end or a protocol error is for ever.
LEMMA Forward ==
  ASSUME IInv, [Next]_vars
  PROVE  /\ next <= next' /\ (finalSent => finalSent' /\ next' = next)
         /\ committed <= committed'
         /\ cTerm = "ProtocolError" => cTerm' = "ProtocolError"
  <1>0. /\ next \in Nat /\ committed \in Nat /\ (finalSent => prod = "done")
        /\ cTerm = "ProtocolError" => remoteFinal = expected /\ expected \in Nat
    BY DEF IInv, EngineInv, WindowInv, PipeInv
  <1> USE <1>0 DEF vars, providerVars, resumeVars, wireVars, windowVars, readerVars
  <1>1. CASE Engine
    BY <1>1 DEF Engine, PrepareSend, PrepareRefused, SendDataAt, SendDataFails, EndBody,
       Finish, FinishFails, EngineStops, WaitActive, WaitTimeout
  <1>2. CASE ProviderPump
    BY <1>2 DEF ProviderPump, ProviderReceives, ProviderSeesEnd
  <1>3. CASE Resume
    BY <1>3 DEF Resume, ResumeInit, ResumeInitLost, AcceptResume, InstallChannel,
       SendResumeOk, SendResumeOkFails, ResumeOkArrives, UnexpectedFrame, AttemptFails
  <1>4. CASE Replay
    BY <1>4 DEF Replay, ReplaySnapshot, ReplayData, ReplayFin, ReplayFails
  <1>5. CASE ClientPump
    <2> USE <1>5 DEF ClientPump, DataBeyondFinal, DataDuplicate, DataBuffered, GapOverflow,
            DataDelivered, Enqueue, QueueOverflow, FinArrives, ClientSeesEnd, ProtocolError
    <2>1. UNCHANGED <<next, finalSent, committed>>
      OBVIOUS
    <2>2. cTerm = "ProtocolError" => cTerm' = "ProtocolError"
      BY <1>0 DEF NoFinal
    <2> QED
      BY <1>0, <2>1, <2>2
  <1>6. CASE Reader
    <2>1. CASE Commit
      BY <2>1 DEF Commit
    <2>2. CASE Pop \/ SeeEmpty
      BY <2>2 DEF Pop, SeeEmpty
    <2>3. CASE CheckEnded \/ ConfirmEnded
      BY <2>3 DEF CheckEnded, ConfirmEnded
    <2> QED
      BY <1>6, <2>1, <2>2, <2>3 DEF Reader
  <1>7. CASE Break \/ UNCHANGED vars
    BY <1>7 DEF Break
  <1> QED
    BY <1>1, <1>2, <1>3, <1>4, <1>5, <1>6, <1>7 DEF Next

-----------------------------------------------------------------------------
(* Frames at hand.                                                         *)

\* What a DATA or FIN frame in flight says is true.
LEMMA FrameAtHand ==
  ASSUME IInv, NEW type, Receiving(type)
  PROVE  /\ Off \in Nat /\ Off <= MaxSegs
         /\ type = "DATA" => Off < next
         /\ type = "FIN" => finalSent /\ Off = next
  <1>1. data[cGen] \in Seq(GoodData) /\ data[cGen] # << >>
    BY DEF IInv, WireInv, ResumeInv, Receiving
  <1>2. Head(data[cGen]) \in GoodData
    BY <1>1
  <1> QED
    BY <1>2 DEF GoodData, DataFrames, Receiving, Off, Offsets

\* What an ACK or RESET in flight says is true.
LEMMA AckAtHand ==
  ASSUME IInv, acks[pGen] # << >>, NEW f, f = Head(acks[pGen])
  PROVE  /\ f.off \in Nat
         /\ f.type = "ACK" => f.off <= committed
         /\ f.type = "RESET" => cTerm = "ProtocolError"
  <1>1. acks[pGen] \in Seq(GoodAcks)
    BY DEF IInv, WireInv, ResumeInv
  <1>2. f \in GoodAcks
    BY <1>1
  <1> QED
    BY <1>2 DEF GoodAcks, AckFrames, Offsets

\* A run leaves the window only while the stream is healthy, and never
\* reaches beyond what was recorded.
LEMMA RunLength ==
  ASSUME NEW t \in Int, NEW q \in Int, NEW x \in Int, NEW j \in Int, NEW l \in Int,
         t + q = x, l = j - x
  PROVE  t + q + l = j /\ t + q + l <= j
  OBVIOUS

LEMMA RunDelivered ==
  ASSUME IInv, DataDelivered
  PROVE  /\ cTerm # "ProtocolError"
         /\ hand = << >>
         /\ \E j \in (expected + 1)..next :
              /\ j \notin gaps
              /\ expected' = j
              /\ gaps' = {k \in gaps : k > j}
              /\ hand' = [k \in 1..(j - expected) |-> expected + k - 1]
  <1>1. Receiving("DATA") /\ WithinFinal /\ Off = expected
    BY DEF DataDelivered
  <1>2. Off \in Nat /\ Off < next
    BY <1>1, FrameAtHand
  <1>3. /\ WindowInv /\ next \in Nat
    BY DEF IInv, EngineInv
  <1>4. cTerm # "ProtocolError"
    BY <1>1, <1>2, <1>3 DEF WindowInv, WithinFinal, NoFinal
  <1>5. PICK j \in (expected + 1)..MaxSegs :
          /\ j \notin gaps
          /\ (expected + 1)..(j - 1) \subseteq gaps
          /\ expected' = j
          /\ gaps' = {k \in gaps : k > j}
          /\ hand' = [k \in 1..(j - expected) |-> expected + k - 1]
    BY DEF DataDelivered
  <1>6. j <= next
    <2>1. CASE j = expected + 1
      BY <1>1, <1>2, <1>3, <2>1
    <2>2. CASE j > expected + 1
      <3>1. j - 1 \in (expected + 1)..(j - 1)
        BY <1>3, <1>5, <2>2, CapAssumption DEF WindowInv
      <3>2. j - 1 \in gaps
        BY <1>5, <3>1
      <3> QED
        BY <1>3, <1>5, <3>2, CapAssumption DEF WindowInv
    <2> QED
      BY <1>3, <1>5, <2>1, <2>2, CapAssumption DEF WindowInv
  <1>7. j \in (expected + 1)..next
    BY <1>3, <1>5, <1>6, CapAssumption DEF WindowInv
  <1> QED
    BY <1>1, <1>4, <1>5, <1>7 DEF Receiving

-----------------------------------------------------------------------------
(* One lemma per part of the invariant, one step per action that disturbs  *)
(* the part and one per process for the others.                            *)

\* The journal and the engine.
LEMMA EngineStep ==
  ASSUME IInv, [Next]_vars
  PROVE  EngineInv'
  <1>0. /\ EngineInv /\ committed \in Nat
        /\ summary \in Nat /\ summary <= committed
        /\ cTerm = "ProtocolError" => remoteFinal = expected /\ expected \in Nat
    BY DEF IInv, ResumeInv, WindowInv, PipeInv
  <1> USE <1>0, CapAssumption DEF EngineInv, vars, providerVars, resumeVars,
     wireVars, windowVars, readerVars
  <1>1. CASE PrepareSend
    BY <1>1 DEF PrepareSend
  <1>2. CASE PrepareRefused
    BY <1>2 DEF PrepareRefused
  <1>3. CASE EndBody
    BY <1>3 DEF EndBody
  <1>4. CASE Finish
    BY <1>4 DEF Finish
  <1>5. CASE EngineStops
    BY <1>5 DEF EngineStops
  <1>6. CASE WaitActive
    BY <1>6 DEF WaitActive
  <1>7. CASE ProviderReceives
    <2>1. PICK f : /\ f = Head(acks[pGen])
                   /\ \/ f.type = "ACK" /\ acked' = AdvanceAck(f.off) /\ UNCHANGED pReset
                      \/ f.type = "RESET" /\ acked' = next /\ pReset' = TRUE
      BY <1>7 DEF ProviderReceives
    <2>2. /\ f.off \in Nat
          /\ f.type = "ACK" => f.off <= committed
          /\ f.type = "RESET" => cTerm = "ProtocolError"
      BY <1>7, <2>1, AckAtHand DEF ProviderReceives
    <2>3. UNCHANGED <<next, finalSent, prod, committed, cTerm>>
      BY <1>7 DEF ProviderReceives
    <2>4. CASE f.type = "ACK"
      BY <2>1, <2>2, <2>3, <2>4 DEF AdvanceAck
    <2>5. CASE f.type = "RESET" /\ acked' = next /\ pReset' = TRUE
      BY <2>1, <2>2, <2>3, <2>5
    <2> QED
      BY <2>1, <2>4, <2>5
  <1>8. CASE AcceptResume
    BY <1>8 DEF AcceptResume, AdvanceAck
  <1>9. CASE GapOverflow
    BY <1>9 DEF GapOverflow, ProtocolError
  <1>10. CASE QueueOverflow
    BY <1>10 DEF QueueOverflow, ProtocolError
  <1>11. CASE FinArrives
    <2>1. UNCHANGED <<providerVars, committed>>
      BY <1>11 DEF FinArrives
    <2>2. cTerm = "ProtocolError" => cTerm' = "ProtocolError"
      BY Forward
    <2> QED
      BY <2>1, <2>2
  <1>12. CASE Commit
    BY <1>12 DEF Commit
  <1>13. CASE SendDataAt \/ SendDataFails \/ FinishFails \/ WaitTimeout
    BY <1>13 DEF SendDataAt, SendDataFails, FinishFails, WaitTimeout
  <1>14. CASE ProviderSeesEnd
    BY <1>14 DEF ProviderSeesEnd
  <1>15. CASE ResumeInit \/ ResumeInitLost \/ InstallChannel \/ SendResumeOk
        \/ SendResumeOkFails \/ ResumeOkArrives \/ UnexpectedFrame \/
        AttemptFails
    BY <1>15 DEF ResumeInit, ResumeInitLost, InstallChannel, SendResumeOk,
       SendResumeOkFails, ResumeOkArrives, UnexpectedFrame, AttemptFails
  <1>16. CASE ReplaySnapshot \/ ReplayData \/ ReplayFin \/ ReplayFails
    BY <1>16 DEF ReplaySnapshot, ReplayData, ReplayFin, ReplayFails
  <1>17. CASE DataBeyondFinal \/ DataDuplicate \/ DataBuffered \/
        DataDelivered \/ Enqueue \/ ClientSeesEnd
    BY <1>17 DEF DataBeyondFinal, DataDuplicate, DataBuffered, DataDelivered,
       Enqueue, ClientSeesEnd
  <1>18. CASE Pop \/ SeeEmpty \/ CheckEnded \/ ConfirmEnded
    BY <1>18 DEF Pop, SeeEmpty, CheckEnded, ConfirmEnded
  <1>19. CASE Break
    BY <1>19 DEF Break
  <1>20. CASE UNCHANGED vars
    BY <1>20
  <1> QED
    BY <1>1, <1>2, <1>3, <1>4, <1>5, <1>6, <1>7, <1>8, <1>9, <1>10, <1>11,
       <1>12, <1>13, <1>14, <1>15, <1>16, <1>17, <1>18, <1>19, <1>20 DEF Next, Engine,
       ProviderPump, Resume, Replay, ClientPump, Reader

\* The handshake and the replay task.
LEMMA ResumeStep ==
  ASSUME IInv, [Next]_vars
  PROVE  ResumeInv'
  <1>0. /\ ResumeInv /\ next \in Nat /\ committed \in Nat /\ acked \in 0..next
        /\ next <= next' /\ next' \in Nat
        /\ committed <= committed' /\ committed' \in Nat
    <2>1. ResumeInv /\ next \in Nat /\ committed \in Nat /\ acked \in 0..next
      BY DEF IInv, EngineInv, PipeInv
    <2>2. next <= next' /\ committed <= committed'
      BY Forward
    <2>3. next' \in Nat
      BY EngineStep DEF EngineInv
    <2>4. committed' = committed \/ committed' = committed + 1
      <3> USE DEF vars, readerVars
      <3>1. CASE PrepareSend \/ PrepareRefused \/ SendDataAt \/ SendDataFails \/
            EndBody \/ Finish \/ FinishFails \/ EngineStops \/ WaitActive \/
            WaitTimeout
        BY <3>1 DEF PrepareSend, PrepareRefused, SendDataAt, SendDataFails,
           EndBody, Finish, FinishFails, EngineStops, WaitActive, WaitTimeout
      <3>2. CASE ProviderReceives \/ ProviderSeesEnd
        BY <3>2 DEF ProviderReceives, ProviderSeesEnd
      <3>3. CASE ResumeInit \/ ResumeInitLost \/ AcceptResume \/ InstallChannel \/
            SendResumeOk \/ SendResumeOkFails \/ ResumeOkArrives \/
            UnexpectedFrame \/ AttemptFails
        BY <3>3 DEF ResumeInit, ResumeInitLost, AcceptResume, InstallChannel,
           SendResumeOk, SendResumeOkFails, ResumeOkArrives, UnexpectedFrame,
           AttemptFails
      <3>4. CASE ReplaySnapshot \/ ReplayData \/ ReplayFin \/ ReplayFails
        BY <3>4 DEF ReplaySnapshot, ReplayData, ReplayFin, ReplayFails
      <3>5. CASE DataBeyondFinal \/ DataDuplicate \/ DataBuffered \/ GapOverflow
            \/ DataDelivered \/ Enqueue \/ QueueOverflow \/ FinArrives \/
            ClientSeesEnd
        BY <3>5 DEF DataBeyondFinal, DataDuplicate, DataBuffered, GapOverflow,
           DataDelivered, Enqueue, QueueOverflow, FinArrives, ClientSeesEnd
      <3>6. CASE Pop \/ Commit \/ SeeEmpty \/ CheckEnded \/ ConfirmEnded
        BY <3>6 DEF Pop, Commit, SeeEmpty, CheckEnded, ConfirmEnded
      <3>7. CASE Break
        BY <3>7 DEF Break
      <3>8. CASE UNCHANGED vars
        BY <3>8
      <3> QED
        BY <3>1, <3>2, <3>3, <3>4, <3>5, <3>6, <3>7, <3>8 DEF Next, Engine,
           ProviderPump, Resume, Replay, ClientPump, Reader
    <2> QED
      BY <2>1, <2>2, <2>3, <2>4
  <1> USE <1>0, CapAssumption DEF ResumeInv, Gens, vars, providerVars,
     resumeVars, wireVars, windowVars, readerVars
  <1>1. CASE ResumeInit
    BY <1>1 DEF ResumeInit
  <1>2. CASE AcceptResume
    BY <1>2 DEF AcceptResume
  <1>3. CASE InstallChannel
    BY <1>3 DEF InstallChannel
  <1>4. CASE ResumeOkArrives
    BY <1>4 DEF ResumeOkArrives
  <1>5. CASE ReplaySnapshot
    BY <1>5 DEF ReplaySnapshot
  <1>6. CASE ReplayData
    BY <1>6 DEF ReplayData
  <1>7. CASE PrepareSend \/ PrepareRefused \/ SendDataAt \/ SendDataFails \/
        EndBody \/ Finish \/ FinishFails \/ EngineStops \/ WaitActive \/
        WaitTimeout
    BY <1>7 DEF PrepareSend, PrepareRefused, SendDataAt, SendDataFails,
       EndBody, Finish, FinishFails, EngineStops, WaitActive, WaitTimeout
  <1>8. CASE ProviderReceives \/ ProviderSeesEnd
    BY <1>8 DEF ProviderReceives, ProviderSeesEnd
  <1>9. CASE ResumeInitLost \/ SendResumeOk \/ SendResumeOkFails \/
        UnexpectedFrame \/ AttemptFails
    BY <1>9 DEF ResumeInitLost, SendResumeOk, SendResumeOkFails,
       UnexpectedFrame, AttemptFails
  <1>10. CASE ReplayFin \/ ReplayFails
    BY <1>10 DEF ReplayFin, ReplayFails
  <1>11. CASE DataBeyondFinal \/ DataDuplicate \/ DataBuffered \/ GapOverflow
        \/ DataDelivered \/ Enqueue \/ QueueOverflow \/ FinArrives \/
        ClientSeesEnd
    BY <1>11 DEF DataBeyondFinal, DataDuplicate, DataBuffered, GapOverflow,
       DataDelivered, Enqueue, QueueOverflow, FinArrives, ClientSeesEnd
  <1>12. CASE Pop \/ Commit \/ SeeEmpty \/ CheckEnded \/ ConfirmEnded
    BY <1>12 DEF Pop, Commit, SeeEmpty, CheckEnded, ConfirmEnded
  <1>13. CASE Break
    BY <1>13 DEF Break
  <1>14. CASE UNCHANGED vars
    BY <1>14
  <1> QED
    BY <1>1, <1>2, <1>3, <1>4, <1>5, <1>6, <1>7, <1>8, <1>9, <1>10, <1>11,
       <1>12, <1>13, <1>14 DEF Next, Engine,
       ProviderPump, Resume, Replay, ClientPump, Reader

\* The receive window.
LEMMA WindowStep ==
  ASSUME IInv, [Next]_vars
  PROVE  WindowInv'
  <1>0. /\ WindowInv /\ next \in Nat /\ next <= MaxSegs
        /\ finalSent => prod = "done"
    BY DEF IInv, EngineInv
  <1> USE <1>0, CapAssumption DEF WindowInv, NoFinal, vars, providerVars,
     resumeVars, wireVars, windowVars, readerVars
  <1>1. CASE PrepareSend
    BY <1>1 DEF PrepareSend
  <1>2. CASE Finish
    BY <1>2 DEF Finish
  <1>3. CASE DataBuffered
    <2>1. Off \in Nat /\ Off < next /\ Off > expected
      BY <1>3, FrameAtHand DEF DataBuffered, Early
    <2> QED
      BY <1>3, <2>1 DEF DataBuffered, Early, Receiving
  <1>4. CASE GapOverflow
    BY <1>4 DEF GapOverflow, ProtocolError, Early, Receiving, Off, WithinFinal
  <1>5. CASE DataDelivered
    <2>1. PICK j \in (expected + 1)..next :
            j \notin gaps /\ expected' = j /\ gaps' = {k \in gaps : k > j}
      BY <1>5, RunDelivered
    <2>2. gaps' \subseteq (expected' + 1)..(next - 1)
      <3> SUFFICES ASSUME NEW k \in gaps' PROVE k \in (expected' + 1)..(next - 1)
        OBVIOUS
      <3>1. k \in gaps /\ k > expected' /\ k # expected'
        BY <2>1
      <3> QED
        BY <2>1, <3>1
    <2>3. cTerm # "ProtocolError" /\ UNCHANGED <<next, finalSent, remoteFinal, cTerm>>
      BY <1>5, RunDelivered DEF DataDelivered
    <2> QED
      BY <2>1, <2>2, <2>3
  <1>6. CASE Enqueue
    BY <1>6 DEF Enqueue
  <1>7. CASE QueueOverflow
    BY <1>7 DEF QueueOverflow, ProtocolError
  <1>8. CASE FinArrives
    <2>1. finalSent /\ Off = next
      BY <1>8, FrameAtHand DEF FinArrives
    <2>2. CASE remoteFinal = NoFinal /\ remoteFinal' = Off /\ cTerm' = "Fin"
      BY <1>8, <2>1, <2>2 DEF FinArrives
    <2>3. CASE UNCHANGED <<remoteFinal, cTerm>>
      BY <1>8, <2>3 DEF FinArrives
    <2> QED
      BY <1>8, <2>2, <2>3 DEF FinArrives
  <1>9. CASE PrepareRefused \/ SendDataAt \/ SendDataFails \/ EndBody \/
        FinishFails \/ EngineStops \/ WaitActive \/ WaitTimeout
    BY <1>9 DEF PrepareRefused, SendDataAt, SendDataFails, EndBody,
       FinishFails, EngineStops, WaitActive, WaitTimeout
  <1>10. CASE ProviderReceives \/ ProviderSeesEnd
    BY <1>10 DEF ProviderReceives, ProviderSeesEnd
  <1>11. CASE ResumeInit \/ ResumeInitLost \/ AcceptResume \/ InstallChannel
        \/ SendResumeOk \/ SendResumeOkFails \/ ResumeOkArrives \/
        UnexpectedFrame \/ AttemptFails
    BY <1>11 DEF ResumeInit, ResumeInitLost, AcceptResume, InstallChannel,
       SendResumeOk, SendResumeOkFails, ResumeOkArrives, UnexpectedFrame,
       AttemptFails
  <1>12. CASE ReplaySnapshot \/ ReplayData \/ ReplayFin \/ ReplayFails
    BY <1>12 DEF ReplaySnapshot, ReplayData, ReplayFin, ReplayFails
  <1>13. CASE DataBeyondFinal \/ DataDuplicate \/ ClientSeesEnd
    BY <1>13 DEF DataBeyondFinal, DataDuplicate, ClientSeesEnd
  <1>14. CASE Pop \/ Commit \/ SeeEmpty \/ CheckEnded \/ ConfirmEnded
    BY <1>14 DEF Pop, Commit, SeeEmpty, CheckEnded, ConfirmEnded
  <1>15. CASE Break
    BY <1>15 DEF Break
  <1>16. CASE UNCHANGED vars
    BY <1>16
  <1> QED
    BY <1>1, <1>2, <1>3, <1>4, <1>5, <1>6, <1>7, <1>8, <1>9, <1>10, <1>11,
       <1>12, <1>13, <1>14, <1>15, <1>16 DEF Next, Engine,
       ProviderPump, Resume, Replay, ClientPump, Reader

\* What is between the window and the application.
LEMMA PipeStep ==
  ASSUME IInv, [Next]_vars
  PROVE  PipeInv'
  <1>0. /\ PipeInv /\ expected \in Nat /\ expected <= next /\ next <= MaxSegs
        /\ next \in Nat /\ acked \in Nat /\ next - acked <= JournalCap
        /\ acked <= committed \/ cTerm = "ProtocolError"
        /\ cTerm = "ProtocolError" => remoteFinal = expected /\ hand = << >>
        /\ reader \in {"idle", "popped", "checking", "confirm", "eof", "error"}
    BY DEF IInv, EngineInv, WindowInv, EndInv
  <1> USE <1>0, CapAssumption DEF PipeInv, vars, providerVars, resumeVars,
     wireVars, windowVars, readerVars
  <1>1. CASE GapOverflow
    BY <1>1 DEF GapOverflow, ProtocolError, Early, Receiving, Off,
       WithinFinal, Taken
  <1>2. CASE DataDelivered
    <2>1. cTerm # "ProtocolError" /\ hand = << >>
      BY <1>2, RunDelivered
    <2>2. PICK j \in (expected + 1)..next :
            expected' = j /\ hand' = [k \in 1..(j - expected) |-> expected + k - 1]
      BY <1>2, RunDelivered
    <2>3. UNCHANGED <<cTerm, queue, committed, reader, popped, consumed>>
      BY <1>2 DEF DataDelivered
    <2>4. handAck' = committed /\ Taken' = Taken /\ Taken \in Nat /\ committed <= Taken
      BY <1>2, <2>3 DEF DataDelivered, Taken
    <2>5. Len(hand') = j - expected /\ hand' \in Seq(Segs)
      BY <2>2 DEF Segs
    <2>6. Taken + Len(queue) = expected
      BY <2>1, <2>4
    <2>7. \A k \in 1..Len(hand') : hand'[k] = Taken + Len(queue) + k - 1
      BY <2>2, <2>5, <2>6
    <2>8. Len(queue) + Len(hand') <= JournalCap
      BY <2>1, <2>2, <2>4, <2>5, <2>6
    <2>9. /\ Taken' + Len(queue') + Len(hand') = expected'
          /\ Taken' + Len(queue') + Len(hand') <= expected'
      <3>1. Taken' = Taken /\ Len(queue') = Len(queue) /\ expected' = j /\ Len(hand') = j - expected
        BY <2>2, <2>3, <2>4, <2>5
      <3>2. Taken \in Int /\ Len(queue) \in Int /\ expected \in Int /\ j \in Int /\ Len(hand') \in Int
        BY <2>2, <2>3, <2>4, <2>5
      <3> QED
        <4>1. /\ Taken + Len(queue) + Len(hand') = j
              /\ Taken + Len(queue) + Len(hand') <= j
          BY <2>6, <3>1, <3>2, RunLength
        <4> QED
          BY <3>1, <4>1, Zenon
    <2>11. /\ hand' \in Seq(Segs) /\ queue' \in Seq(Segs) /\ consumed' \in Seq(Segs)
           /\ committed' \in Nat /\ handAck' \in Nat /\ handAck' <= committed'
           /\ popped' \in Nat /\ (popped' \in Segs \cup {0})
           /\ reader' = "popped" => popped' = committed'
           /\ Len(consumed') = committed'
           /\ \A k \in 1..Len(consumed') : consumed'[k] = k - 1
      BY <2>3, <2>4, <2>5
    <2>12. Len(queue') + Len(hand') <= JournalCap
      BY <2>3, <2>8
    <2>10. /\ \A k \in 1..Len(queue') : queue'[k] = Taken' + k - 1
           /\ \A k \in 1..Len(hand') : hand'[k] = Taken' + Len(queue') + k - 1
      BY <2>3, <2>4, <2>7
    <2> QED
      BY <2>9, <2>10, <2>11, <2>12, Zenon
  <1>3. CASE Enqueue
    <2>1. /\ hand # << >> /\ hand' = << >> /\ queue' = queue \o hand
          /\ UNCHANGED <<cTerm, expected, handAck, committed, reader, popped, consumed>>
          /\ Taken' = Taken /\ Taken \in Nat
      BY <1>3 DEF Enqueue, Taken
    <2>2. queue' \in Seq(Segs) /\ Len(queue') = Len(queue) + Len(hand)
      BY <2>1
    <2>3. \A k \in 1..Len(queue') : queue'[k] = Taken + k - 1
      <3> SUFFICES ASSUME NEW k \in 1..Len(queue') PROVE queue'[k] = Taken + k - 1
        OBVIOUS
      <3>1. CASE k <= Len(queue)
        BY <2>1, <2>2, <3>1
      <3>2. CASE k > Len(queue)
        <4>1. k - Len(queue) \in 1..Len(hand) /\ queue'[k] = hand[k - Len(queue)]
          BY <2>1, <2>2, <3>2
        <4> QED
          BY <2>1, <4>1
      <3> QED
        BY <2>2, <3>1, <3>2
    <2> QED
      BY <2>1, <2>2, <2>3
  <1>4. CASE QueueOverflow
    BY <1>4 DEF QueueOverflow, ProtocolError, Taken
  <1>5. CASE FinArrives
    <2>1. /\ hand = << >> /\ UNCHANGED <<expected, hand, handAck, readerVars>>
      BY <1>5 DEF FinArrives, Receiving
    <2>2. CASE remoteFinal = NoFinal
      <3>1. cTerm' = "Fin"
        BY <1>5, <2>2 DEF FinArrives
      <3>2. cTerm # "ProtocolError"
        BY <2>2 DEF NoFinal
      <3> QED
        BY <2>1, <3>1, <3>2 DEF Taken
    <2>3. CASE remoteFinal # NoFinal
      <3>1. cTerm' = cTerm
        BY <1>5, <2>3 DEF FinArrives
      <3> QED
        BY <2>1, <3>1 DEF Taken
    <2> QED
      BY <2>2, <2>3
  <1>6. CASE Pop
    <2>1. /\ reader = "idle" /\ reader' = "popped" /\ queue # << >>
          /\ popped' = Head(queue) /\ queue' = Tail(queue)
          /\ UNCHANGED <<cTerm, expected, hand, handAck, committed, consumed>>
      BY <1>6 DEF Pop
    <2>2. queue' \in Seq(Segs) /\ Len(queue') = Len(queue) - 1 /\ Len(queue) > 0
      BY <2>1
    <2>3. popped' = committed /\ popped' \in Segs
      BY <2>1, <2>2 DEF Taken
    <2>4. Taken = committed /\ Taken' = Taken + 1
      BY <2>1 DEF Taken
    <2>9. /\ Taken' + Len(queue') = Taken + Len(queue)
          /\ Len(queue') + Len(hand') <= JournalCap
      BY <2>1, <2>2, <2>4
    <2>5. \A k \in 1..Len(queue') : queue'[k] = queue[k + 1]
      BY <2>1, <2>2
    <2>6. \A k \in 1..Len(queue') : queue'[k] = Taken' + k - 1
      BY <2>1, <2>2, <2>4, <2>5
    <2>7. \A k \in 1..Len(hand') : hand'[k] = Taken' + Len(queue') + k - 1
      BY <2>1, <2>2, <2>4
    <2> QED
      BY <2>1, <2>2, <2>3, <2>4, <2>6, <2>7, <2>9
  <1>7. CASE Commit
    <2>1. /\ reader = "popped" /\ reader' = "idle" /\ committed' = committed + 1
          /\ consumed' = Append(consumed, popped)
          /\ UNCHANGED <<cTerm, expected, hand, handAck, queue, popped>>
      BY <1>7 DEF Commit
    <2>2. Taken' = Taken
      BY <2>1 DEF Taken
    <2>3. popped \in Segs
      BY <2>1 DEF Segs, Taken
    <2>4. /\ consumed' \in Seq(Segs) /\ Len(consumed') = committed'
          /\ \A k \in 1..Len(consumed') : consumed'[k] = k - 1
      BY <2>1, <2>3
    <2> QED
      BY <2>1, <2>2, <2>4
  <1>8. CASE SeeEmpty
    BY <1>8 DEF SeeEmpty, Taken
  <1>9. CASE CheckEnded
    BY <1>9 DEF CheckEnded, Taken
  <1>10. CASE ConfirmEnded
    BY <1>10 DEF ConfirmEnded, ProtocolError, Taken
  <1>11. CASE PrepareSend \/ PrepareRefused \/ SendDataAt \/ SendDataFails \/
        EndBody \/ Finish \/ FinishFails \/ EngineStops \/ WaitActive \/
        WaitTimeout
    BY <1>11 DEF PrepareSend, PrepareRefused, SendDataAt, SendDataFails,
       EndBody, Finish, FinishFails, EngineStops, WaitActive, WaitTimeout,
       Taken
  <1>12. CASE ProviderReceives \/ ProviderSeesEnd
    BY <1>12 DEF ProviderReceives, ProviderSeesEnd, Taken
  <1>13. CASE ResumeInit \/ ResumeInitLost \/ AcceptResume \/ InstallChannel
        \/ SendResumeOk \/ SendResumeOkFails \/ ResumeOkArrives \/
        UnexpectedFrame \/ AttemptFails
    BY <1>13 DEF ResumeInit, ResumeInitLost, AcceptResume, InstallChannel,
       SendResumeOk, SendResumeOkFails, ResumeOkArrives, UnexpectedFrame,
       AttemptFails, Taken
  <1>14. CASE ReplaySnapshot \/ ReplayData \/ ReplayFin \/ ReplayFails
    BY <1>14 DEF ReplaySnapshot, ReplayData, ReplayFin, ReplayFails, Taken
  <1>15. CASE DataBeyondFinal \/ DataDuplicate \/ DataBuffered \/
        ClientSeesEnd
    BY <1>15 DEF DataBeyondFinal, DataDuplicate, DataBuffered, ClientSeesEnd,
       Taken
  <1>16. CASE Break
    BY <1>16 DEF Break, Taken
  <1>17. CASE UNCHANGED vars
    BY <1>17 DEF Taken
  <1> QED
    BY <1>1, <1>2, <1>3, <1>4, <1>5, <1>6, <1>7, <1>8, <1>9, <1>10, <1>11,
       <1>12, <1>13, <1>14, <1>15, <1>16, <1>17 DEF Next, Engine,
       ProviderPump, Resume, Replay, ClientPump, Reader

\* The end of the stream.
LEMMA EndStep ==
  ASSUME IInv, [Next]_vars
  PROVE  EndInv'
  <1>0. /\ EndInv /\ WindowInv
        /\ finalSent => prod = "done"
        /\ next \in Nat
    BY DEF IInv, EngineInv
  <1> USE <1>0, CapAssumption DEF EndInv, vars, providerVars, resumeVars,
     wireVars, windowVars, readerVars
  <1>1. CASE PrepareSend
    BY <1>1 DEF PrepareSend, WindowInv
  <1>2. CASE Finish
    BY <1>2 DEF Finish, WindowInv
  <1>3. CASE GapOverflow
    BY <1>3 DEF GapOverflow, ProtocolError, Early, Receiving, Off,
       WithinFinal, WindowInv, NoFinal
  <1>4. CASE DataDelivered
    <2>1. PICK j \in (expected + 1)..next : expected' = j
      BY <1>4, RunDelivered
    <2>2. UNCHANGED <<next, finalSent, reader, cTerm>>
      BY <1>4 DEF DataDelivered
    <2>3. expected = next => FALSE
      BY <2>1 DEF WindowInv
    <2> QED
      BY <2>1, <2>2, <2>3
  <1>5. CASE QueueOverflow
    BY <1>5 DEF QueueOverflow, ProtocolError, WindowInv, NoFinal
  <1>6. CASE FinArrives
    <2>1. UNCHANGED <<next, finalSent, expected, reader>>
      BY <1>6 DEF FinArrives
    <2>2. CASE remoteFinal = NoFinal
      <3>1. cTerm' = "Fin"
        BY <1>6, <2>2 DEF FinArrives
      <3>2. cTerm = "none"
        BY <2>2 DEF WindowInv, NoFinal
      <3> QED
        BY <2>1, <3>1, <3>2
    <2>3. CASE remoteFinal # NoFinal
      <3>1. cTerm' = cTerm
        BY <1>6, <2>3 DEF FinArrives
      <3> QED
        BY <2>1, <3>1
    <2> QED
      BY <2>2, <2>3
  <1>7. CASE CheckEnded
    <2>1. UNCHANGED <<next, finalSent, expected, remoteFinal, cTerm>>
      BY <1>7 DEF CheckEnded
    <2>2. CASE remoteFinal = expected /\ reader' = "confirm"
      BY <2>1, <2>2 DEF WindowInv, NoFinal
    <2>3. CASE reader' = "idle"
      BY <2>1, <2>3
    <2> QED
      BY <1>7, <2>2, <2>3 DEF CheckEnded
  <1>8. CASE ConfirmEnded
    BY <1>8 DEF ConfirmEnded, ProtocolError, WindowInv
  <1>9. CASE Pop
    BY <1>9 DEF Pop
  <1>10. CASE Commit
    BY <1>10 DEF Commit
  <1>11. CASE SeeEmpty
    BY <1>11 DEF SeeEmpty
  <1>12. CASE PrepareRefused \/ SendDataAt \/ SendDataFails \/ EndBody \/
        FinishFails \/ EngineStops \/ WaitActive \/ WaitTimeout
    BY <1>12 DEF PrepareRefused, SendDataAt, SendDataFails, EndBody,
       FinishFails, EngineStops, WaitActive, WaitTimeout
  <1>13. CASE ProviderReceives \/ ProviderSeesEnd
    BY <1>13 DEF ProviderReceives, ProviderSeesEnd
  <1>14. CASE ResumeInit \/ ResumeInitLost \/ AcceptResume \/ InstallChannel
        \/ SendResumeOk \/ SendResumeOkFails \/ ResumeOkArrives \/
        UnexpectedFrame \/ AttemptFails
    BY <1>14 DEF ResumeInit, ResumeInitLost, AcceptResume, InstallChannel,
       SendResumeOk, SendResumeOkFails, ResumeOkArrives, UnexpectedFrame,
       AttemptFails
  <1>15. CASE ReplaySnapshot \/ ReplayData \/ ReplayFin \/ ReplayFails
    BY <1>15 DEF ReplaySnapshot, ReplayData, ReplayFin, ReplayFails
  <1>16. CASE DataBeyondFinal \/ DataDuplicate \/ DataBuffered \/ Enqueue \/
        ClientSeesEnd
    BY <1>16 DEF DataBeyondFinal, DataDuplicate, DataBuffered, Enqueue,
       ClientSeesEnd
  <1>17. CASE Break
    BY <1>17 DEF Break
  <1>18. CASE UNCHANGED vars
    BY <1>18
  <1> QED
    BY <1>1, <1>2, <1>3, <1>4, <1>5, <1>6, <1>7, <1>8, <1>9, <1>10, <1>11,
       <1>12, <1>13, <1>14, <1>15, <1>16, <1>17, <1>18 DEF Next, Engine,
       ProviderPump, Resume, Replay, ClientPump, Reader

-----------------------------------------------------------------------------
(* The frames in flight.                                                   *)

\* Sending a good frame leaves only good frames in flight.
LEMMA SentKeeps ==
  ASSUME NEW S, data \in [Gens -> Seq(S)], pGen \in Gens, NEW f \in S, Sent(f)
  PROVE  data' \in [Gens -> Seq(S)]
  BY DEF Sent, Put

\* Answering with a good frame leaves only good frames in flight.
LEMMA ReplyKeeps ==
  ASSUME NEW S, acks \in [Gens -> Seq(S)], cGen \in Gens, NEW f \in S, Reply(f)
  PROVE  acks' \in [Gens -> Seq(S)]
  BY DEF Reply

\* What was a good frame stays one.
LEMMA GoodGrows ==
  ASSUME IInv, [Next]_vars
  PROVE  GoodData \subseteq GoodData' /\ GoodAcks \subseteq GoodAcks'
  <1>1. /\ next \in Nat /\ next' \in Nat /\ committed \in Nat /\ committed' \in Nat
    BY EngineStep, PipeStep DEF IInv, EngineInv, PipeInv
  <1>2. /\ next <= next' /\ (finalSent => finalSent' /\ next' = next)
        /\ committed <= committed'
        /\ cTerm = "ProtocolError" => cTerm' = "ProtocolError"
    BY Forward
  <1>3. GoodData \subseteq GoodData'
    <2> SUFFICES ASSUME NEW f \in GoodData PROVE f \in GoodData'
      OBVIOUS
    <2>1. f \in DataFrames /\ f.off \in Nat
      BY DEF GoodData, DataFrames, Offsets
    <2>2. f.type = "DATA" => f.off < next'
      BY <1>1, <1>2, <2>1 DEF GoodData
    <2>3. f.type = "FIN" => finalSent' /\ f.off = next'
      BY <1>2 DEF GoodData
    <2> QED
      BY <2>1, <2>2, <2>3 DEF GoodData
  <1>4. GoodAcks \subseteq GoodAcks'
    <2> SUFFICES ASSUME NEW f \in GoodAcks PROVE f \in GoodAcks'
      OBVIOUS
    <2>1. f \in AckFrames /\ f.off \in Nat
      BY DEF GoodAcks, AckFrames, Offsets
    <2>2. f.type = "ACK" => f.off <= committed'
      BY <1>1, <1>2, <2>1 DEF GoodAcks
    <2> QED
      BY <1>2, <2>1, <2>2 DEF GoodAcks
  <1> QED
    BY <1>3, <1>4

\* Every frame sent is a good one.
LEMMA WireStep ==
  ASSUME IInv, [Next]_vars
  PROVE  WireInv'
  <1>0. /\ pGen \in Gens /\ cGen \in Gens
        /\ next \in Nat /\ next <= MaxSegs /\ committed \in Nat /\ committed <= MaxSegs
        /\ prod = "sending" => next > 0
        /\ repAt \in Nat /\ repEnd \in Nat /\ repEnd <= next
        /\ handAck \in Nat /\ handAck <= committed
        /\ up \in [Gens -> BOOLEAN]
    BY CapAssumption DEF IInv, EngineInv, ResumeInv, WireInv, WindowInv, PipeInv, Taken
  <1>c. committed' \in Nat /\ committed' <= MaxSegs
    BY CapAssumption, EngineStep, WindowStep, PipeStep DEF EngineInv, WindowInv, PipeInv, Taken
  <1>a. GoodData \subseteq GoodData' /\ GoodAcks \subseteq GoodAcks'
    BY GoodGrows
  <1>b. data \in [Gens -> Seq(GoodData')] /\ acks \in [Gens -> Seq(GoodAcks')]
    <2>1. \A g \in Gens : data[g] \in Seq(GoodData') /\ acks[g] \in Seq(GoodAcks')
      BY <1>a, SeqWider DEF IInv, WireInv
    <2> QED
      BY <2>1 DEF IInv, WireInv
  <1> USE <1>0, <1>b, <1>c, CapAssumption DEF WireInv, vars, providerVars,
     resumeVars, wireVars, windowVars, readerVars
  <1>1. CASE SendDataAt
    <2>1. DataFrame(next - 1) \in GoodData'
      BY <1>1 DEF SendDataAt, GoodData, DataFrames, DataFrame, Offsets
    <2> QED
      BY <1>1, <2>1, SentKeeps DEF SendDataAt
  <1>2. CASE Finish
    <2>1. FinFrame(next) \in GoodData'
      BY <1>2 DEF Finish, GoodData, DataFrames, FinFrame, Offsets
    <2> QED
      BY <1>2, <2>1, SentKeeps DEF Finish
  <1>3. CASE SendResumeOk
    <2>1. ResumeOk \in GoodData'
      BY <1>3 DEF SendResumeOk, GoodData, DataFrames, ResumeOk, Offsets
    <2> QED
      BY <1>3, <2>1, SentKeeps DEF SendResumeOk
  <1>4. CASE ReplayData
    <2>1. CASE ~pReset /\ Sent(DataFrame(repAt))
      <3>1. DataFrame(repAt) \in GoodData'
        BY <1>4, <2>1 DEF ReplayData, GoodData, DataFrames, DataFrame, Offsets
      <3> QED
        BY <1>4, <2>1, <3>1, SentKeeps DEF ReplayData
    <2>2. CASE UNCHANGED data
      BY <1>4, <2>2 DEF ReplayData
    <2> QED
      BY <1>4, <2>1, <2>2 DEF ReplayData
  <1>5. CASE ReplayFin
    <2>1. CASE finalSent /\ Sent(FinFrame(next))
      <3>1. FinFrame(next) \in GoodData'
        BY <1>5, <2>1 DEF ReplayFin, GoodData, DataFrames, FinFrame, Offsets
      <3> QED
        BY <1>5, <2>1, <3>1, SentKeeps DEF ReplayFin
    <2>2. CASE UNCHANGED data
      BY <1>5, <2>2 DEF ReplayFin
    <2> QED
      BY <1>5, <2>1, <2>2 DEF ReplayFin
  <1>6. CASE ResumeOkArrives
    <2>1. Tail(data[pGen]) \in Seq(GoodData') /\ << >> \in Seq(GoodData')
      BY <1>6 DEF ResumeOkArrives
    <2>2. data' = [data EXCEPT ![cGen] = << >>, ![pGen] = Tail(data[pGen])]
      <3>1. CASE cGen = pGen
        BY <1>6, <3>1 DEF ResumeOkArrives
      <3>2. CASE cGen # pGen
        BY <1>6, <3>2 DEF ResumeOkArrives
      <3> QED
        BY <3>1, <3>2
    <2>3. data' \in [Gens -> Seq(GoodData')]
      BY <2>1, <2>2
    <2> QED
      BY <1>6, <2>3 DEF ResumeOkArrives
  <1>7. CASE ProviderReceives
    BY <1>7 DEF ProviderReceives
  <1>8. CASE InstallChannel
    BY <1>8 DEF InstallChannel
  <1>9. CASE DataBeyondFinal
    BY <1>9 DEF DataBeyondFinal, Receiving, TakeFrame
  <1>10. CASE DataDuplicate
    <2>1. AckFrame(committed) \in GoodAcks'
      BY <1>10 DEF DataDuplicate, GoodAcks, AckFrames, AckFrame, Offsets
    <2>2. acks' \in [Gens -> Seq(GoodAcks')]
      BY <1>10, <2>1, ReplyKeeps DEF DataDuplicate
    <2>3. data' \in [Gens -> Seq(GoodData')]
      BY <1>10 DEF DataDuplicate, Receiving, TakeFrame
    <2>4. UNCHANGED up
      BY <1>10 DEF DataDuplicate
    <2> QED
      BY <2>2, <2>3, <2>4
  <1>11. CASE DataBuffered
    <2>1. AckFrame(committed) \in GoodAcks'
      BY <1>11 DEF DataBuffered, GoodAcks, AckFrames, AckFrame, Offsets
    <2>2. acks' \in [Gens -> Seq(GoodAcks')]
      BY <1>11, <2>1, ReplyKeeps DEF DataBuffered
    <2>3. data' \in [Gens -> Seq(GoodData')]
      BY <1>11 DEF DataBuffered, Early, Receiving, TakeFrame
    <2>4. UNCHANGED up
      BY <1>11 DEF DataBuffered
    <2> QED
      BY <2>2, <2>3, <2>4
  <1>12. CASE GapOverflow
    <2>1. ResetFrame \in GoodAcks'
      BY <1>12 DEF GapOverflow, GoodAcks, AckFrames, ResetFrame, Offsets, ProtocolError
    <2>2. acks' \in [Gens -> Seq(GoodAcks')]
      BY <1>12, <2>1, ReplyKeeps DEF GapOverflow, ProtocolError
    <2>3. data' \in [Gens -> Seq(GoodData')]
      BY <1>12 DEF GapOverflow, Early, Receiving, TakeFrame
    <2>4. UNCHANGED up
      BY <1>12 DEF GapOverflow
    <2> QED
      BY <2>2, <2>3, <2>4
  <1>13. CASE DataDelivered
    BY <1>13 DEF DataDelivered, Receiving, TakeFrame
  <1>14. CASE Enqueue
    <2>1. AckFrame(handAck) \in GoodAcks'
      BY <1>14 DEF Enqueue, GoodAcks, AckFrames, AckFrame, Offsets
    <2> QED
      BY <1>14, <2>1, ReplyKeeps DEF Enqueue, Receiving, Early, TakeFrame, ProtocolError
  <1>15. CASE QueueOverflow
    <2>1. ResetFrame \in GoodAcks'
      BY <1>15 DEF QueueOverflow, GoodAcks, AckFrames, ResetFrame, Offsets, ProtocolError
    <2> QED
      BY <1>15, <2>1, ReplyKeeps DEF QueueOverflow, Receiving, Early, TakeFrame, ProtocolError
  <1>16. CASE FinArrives
    BY <1>16 DEF FinArrives, Receiving, TakeFrame
  <1>17. CASE Commit
    <2>1. AckFrame(committed') \in GoodAcks'
      BY <1>17, PipeStep DEF Commit, PipeInv, GoodAcks, AckFrames, AckFrame, Offsets
    <2> QED
      BY <1>17, <2>1, ReplyKeeps DEF Commit
  <1>18. CASE Break
    <2>1. PICK g \in {pGen, cGen} :
            /\ up' = [up EXCEPT ![g] = FALSE]
            /\ \E n \in 0..Len(data[g]) : data' = [data EXCEPT ![g] = SubSeq(@, 1, n)]
            /\ \E n \in 0..Len(acks[g]) : acks' = [acks EXCEPT ![g] = SubSeq(@, 1, n)]
      BY <1>18 DEF Break
    <2>2. g \in Gens /\ data[g] \in Seq(GoodData') /\ acks[g] \in Seq(GoodAcks')
      OBVIOUS
    <2>3. data' \in [Gens -> Seq(GoodData')]
      BY <2>1, <2>2, PrefixInSeq
    <2>4. acks' \in [Gens -> Seq(GoodAcks')]
      BY <2>1, <2>2, PrefixInSeq
    <2> QED
      BY <2>1, <2>2, <2>3, <2>4
  <1>19. CASE PrepareSend \/ PrepareRefused \/ SendDataFails \/ EndBody \/
        FinishFails \/ EngineStops \/ WaitActive \/ WaitTimeout
    BY <1>19 DEF PrepareSend, PrepareRefused, SendDataFails, EndBody,
       FinishFails, EngineStops, WaitActive, WaitTimeout
  <1>20. CASE ProviderSeesEnd
    BY <1>20 DEF ProviderSeesEnd
  <1>21. CASE ResumeInit \/ ResumeInitLost \/ AcceptResume \/
        SendResumeOkFails \/ UnexpectedFrame \/ AttemptFails
    BY <1>21 DEF ResumeInit, ResumeInitLost, AcceptResume, SendResumeOkFails,
       UnexpectedFrame, AttemptFails
  <1>22. CASE ReplaySnapshot \/ ReplayFails
    BY <1>22 DEF ReplaySnapshot, ReplayFails
  <1>23. CASE ClientSeesEnd
    BY <1>23 DEF ClientSeesEnd
  <1>24. CASE Pop \/ SeeEmpty \/ CheckEnded \/ ConfirmEnded
    BY <1>24 DEF Pop, SeeEmpty, CheckEnded, ConfirmEnded
  <1>25. CASE UNCHANGED vars
    BY <1>25
  <1> QED
    BY <1>1, <1>2, <1>3, <1>4, <1>5, <1>6, <1>7, <1>8, <1>9, <1>10, <1>11,
       <1>12, <1>13, <1>14, <1>15, <1>16, <1>17, <1>18, <1>19, <1>20, <1>21,
       <1>22, <1>23, <1>24, <1>25 DEF Next, Engine,
       ProviderPump, Resume, Replay, ClientPump, Reader

-----------------------------------------------------------------------------
(* The theorems.                                                           *)

\* The strengthened invariant holds of every state of every behaviour.
THEOREM Inductive == Spec => []IInv
  <1>1. IInv /\ [Next]_vars => IInv'
    BY EngineStep, ResumeStep, WireStep, WindowStep, PipeStep, EndStep DEF IInv
  <1> QED
    BY InitIInv, <1>1, PTL DEF Spec

\* All variables keep their types, frames in flight and segments included.
THEOREM TypeCorrect == Spec => []TypeOK
  <1>1. IInv => TypeOK
    <2> SUFFICES ASSUME IInv PROVE TypeOK
      OBVIOUS
    <2> USE CapAssumption DEF IInv, EngineInv, ResumeInv, WireInv, WindowInv, PipeInv, EndInv
    <2>1. data \in [Gens -> Seq(DataFrames)] /\ acks \in [Gens -> Seq(AckFrames)]
      <3>1. GoodData \subseteq DataFrames /\ GoodAcks \subseteq AckFrames
        BY DEF GoodData, GoodAcks
      <3>2. \A g \in Gens : data[g] \in Seq(DataFrames) /\ acks[g] \in Seq(AckFrames)
        BY <3>1, SeqWider
      <3> QED
        BY <3>2
    <2>2. /\ next \in Offsets /\ acked \in 0..next /\ repAt \in Offsets /\ repEnd \in 0..next
          /\ committed \in Offsets /\ summary \in Offsets /\ expected \in Offsets
          /\ handAck \in Offsets /\ remoteFinal \in Offsets \cup {NoFinal}
      BY DEF Offsets, Taken
    <2>3. gaps \subseteq Segs
      BY DEF Segs
    <2> QED
      BY <2>1, <2>2, <2>3 DEF TypeOK
  <1> QED
    BY <1>1, Inductive, PTL

\* What the application has not been given is still in the provider's
\* journal: ACKs and RESUME_INIT's summary carry the committed offset only.
THEOREM UnreadStaysJournaled == Spec => []UnreadIsJournaled
  <1>1. IInv => UnreadIsJournaled
    BY DEF IInv, EngineInv, UnreadIsJournaled
  <1> QED
    BY <1>1, Inductive, PTL

\* The sender's journal cap bounds the receiver's deliver queue.
THEOREM ReceiverBounded == Spec => []ReceiverBoundedByJournal
  <1>1. IInv => ReceiverBoundedByJournal
    BY DEF IInv, PipeInv, ReceiverBoundedByJournal
  <1> QED
    BY <1>1, Inductive, PTL

\* Both ends agree on the final offset, and EOF needs it to be reached.
THEOREM FinalOffset == Spec => []FinalOffsetAgrees
  <1>1. IInv => FinalOffsetAgrees
    BY DEF IInv, WindowInv, EndInv, FinalOffsetAgrees
  <1> QED
    BY <1>1, Inductive, PTL

\* The sequence 0, 1, 2... grows at its end.
LEMMA RecordedGrows ==
  \A n \in Nat : [i \in 1..(n + 1) |-> i - 1] = Append([i \in 1..n |-> i - 1], n)
  <1> SUFFICES ASSUME NEW n \in Nat
               PROVE  [i \in 1..(n + 1) |-> i - 1] = Append([i \in 1..n |-> i - 1], n)
    OBVIOUS
  <1> DEFINE s == [i \in 1..n |-> i - 1]
  <1>1. s \in Seq(Nat) /\ Len(s) = n
    OBVIOUS
  <1>2. \A i \in 1..n : s[i] = i - 1
    OBVIOUS
  <1> DEFINE t == [i \in 1..(n + 1) |-> i - 1]
  <1>3. t \in Seq(Nat) /\ Len(t) = n + 1
    OBVIOUS
  <1>4. \A i \in 1..(n + 1) : t[i] = i - 1
    OBVIOUS
  <1> HIDE DEF s, t
  <1>5. Append(s, n) \in Seq(Nat) /\ Len(Append(s, n)) = n + 1
    BY <1>1, AppendProperties
  <1>6. \A i \in 1..(n + 1) : Append(s, n)[i] = i - 1
    BY <1>1, <1>2
  <1>7. t = Append(s, n)
    BY <1>3, <1>4, <1>5, <1>6, SeqEqual
  <1> QED
    BY <1>7 DEF s, t

\* The stream implements OrderedDelivery: recording a segment and returning
\* one from recv are the only visible steps, and the latter returns the next.
THEOREM Refinement == Spec => ImplementsOrderedDelivery
  <1>1. Init => Delivery!Init
    BY DEF Init, Delivery!Init, Recorded
  <1>2. IInv /\ [Next]_vars => [Delivery!Next]_<<Recorded, consumed>>
    <2> SUFFICES ASSUME IInv, [Next]_vars, ~UNCHANGED <<next, consumed>> PROVE Delivery!Next
      BY DEF Recorded
    <2> USE DEF vars, providerVars, resumeVars, wireVars, windowVars, readerVars
    <2>1. CASE PrepareSend
      <3>1. next \in Nat /\ next' = next + 1 /\ next < MaxSegs /\ UNCHANGED consumed
        BY <2>1, CapAssumption DEF IInv, EngineInv, PrepareSend
      <3>2. next \in Segs
        BY <3>1, CapAssumption DEF Segs
      <3>3. Recorded' = Append(Recorded, next)
        BY <3>1, RecordedGrows DEF Recorded
      <3> QED
        BY <3>1, <3>2, <3>3 DEF Delivery!Next, Delivery!Record
    <2>2. CASE Commit
      <3>1. /\ reader = "popped" /\ consumed' = Append(consumed, popped) /\ UNCHANGED next
        BY <2>2 DEF Commit
      <3>2. popped = Len(consumed) /\ Len(consumed) < next
        BY <3>1, CapAssumption DEF IInv, EngineInv, WindowInv, PipeInv, Taken
      <3>3. next \in Nat /\ Len(consumed) \in Nat
        BY CapAssumption DEF IInv, EngineInv, WindowInv
      <3>4. Len(Recorded) = next /\ Recorded[Len(consumed) + 1] = Len(consumed) /\ Recorded' = Recorded
        BY <3>1, <3>2, <3>3 DEF Recorded
      <3> QED
        BY <3>1, <3>2, <3>4 DEF Delivery!Next, Delivery!Take
    <2>3. CASE PrepareRefused \/ SendDataAt \/ SendDataFails \/ EndBody \/
          Finish \/ FinishFails \/ EngineStops \/ WaitActive \/ WaitTimeout
      BY <2>3 DEF PrepareRefused, SendDataAt, SendDataFails, EndBody, Finish,
         FinishFails, EngineStops, WaitActive, WaitTimeout
    <2>4. CASE ProviderReceives \/ ProviderSeesEnd
      BY <2>4 DEF ProviderReceives, ProviderSeesEnd
    <2>5. CASE ResumeInit \/ ResumeInitLost \/ AcceptResume \/ InstallChannel
          \/ SendResumeOk \/ SendResumeOkFails \/ ResumeOkArrives \/
          UnexpectedFrame \/ AttemptFails
      BY <2>5 DEF ResumeInit, ResumeInitLost, AcceptResume, InstallChannel,
         SendResumeOk, SendResumeOkFails, ResumeOkArrives, UnexpectedFrame,
         AttemptFails
    <2>6. CASE ReplaySnapshot \/ ReplayData \/ ReplayFin \/ ReplayFails
      BY <2>6 DEF ReplaySnapshot, ReplayData, ReplayFin, ReplayFails
    <2>7. CASE DataBeyondFinal \/ DataDuplicate \/ DataBuffered \/ GapOverflow
          \/ DataDelivered \/ Enqueue \/ QueueOverflow \/ FinArrives \/
          ClientSeesEnd
      BY <2>7 DEF DataBeyondFinal, DataDuplicate, DataBuffered, GapOverflow,
         DataDelivered, Enqueue, QueueOverflow, FinArrives, ClientSeesEnd
    <2>8. CASE Pop \/ SeeEmpty \/ CheckEnded \/ ConfirmEnded
      BY <2>8 DEF Pop, SeeEmpty, CheckEnded, ConfirmEnded
    <2>9. CASE Break
      BY <2>9 DEF Break
    <2>10. CASE UNCHANGED vars
      BY <2>10
    <2> QED
      BY <2>1, <2>2, <2>3, <2>4, <2>5, <2>6, <2>7, <2>8, <2>9, <2>10 DEF Next, Engine,
         ProviderPump, Resume, Replay, ClientPump, Reader
  <1> QED
    BY <1>1, <1>2, Inductive, PTL DEF Spec, ImplementsOrderedDelivery, Delivery!Spec, Delivery!vars
=============================================================================
