------------------------ MODULE ResumeControl_proofs ------------------------
(***************************************************************************)
(* Theorems about ResumeControl, for every number of attempts, connections *)
(* and retries, whether or not close() and the watchdogs interfere.        *)
(*                                                                         *)
(* Shapes says as much of the types as the arguments use.  OnePump is then *)
(* inductive by itself: only Installs starts a pump, and it demands that   *)
(* the current one is dead.  NewestDecisionOwns rests on PendingIsNewest,  *)
(* which ties the cached decision to the token window.  That a repeated    *)
(* request keeps its generation, and that none is forgotten which the      *)
(* client may hold, needs more: TInv, on top of that.                      *)
(***************************************************************************)
EXTENDS ResumeControl, TLAPS

Shapes ==
  /\ pump \in [Channels -> {"none", "run", "dead"}]
  /\ dec \in [Attempts -> Decisions]
  /\ init \in [Attempts -> [nonce : Nat, gen : Nat]]
  /\ epochOf \in [Channels -> 0..MaxEpoch]
  /\ epoch \in 0..MaxEpoch
  /\ pending \in [decision : Decisions, installed : BOOLEAN]
  /\ inbox \subseteq Attempts
  /\ pChan \in Channels /\ att \in Nat /\ nonce \in Nat
  /\ cGen \in Nat /\ pGen \in Nat
  /\ resp \in [type : {"none", "OK", "REJECT"}, gen : Nat, epoch : 0..MaxEpoch]

\* The decision that a retry would be given is the one that made the current
\* generation.
PendingIsNewest == pending # NoPending => pending.decision.gen = pGen

IInv == Shapes /\ OnePump /\ PendingIsNewest

-----------------------------------------------------------------------------
THEOREM Base == Init => IInv
<1> SUFFICES ASSUME Init PROVE IInv
  OBVIOUS
<1> USE BoundAssumption DEF Attempts, Channels
<1>1. Shapes
  BY DEF Init, Shapes, NoDecision, NoPending, NoInit, NoAnswer, Decisions
<1>2. OnePump
  BY DEF Init, OnePump
<1>3. PendingIsNewest
  BY DEF Init, PendingIsNewest
<1> QED
  BY <1>1, <1>2, <1>3 DEF IInv

-----------------------------------------------------------------------------
(* What the arguments read of the provider.                                *)

ownerVars == <<pump, pChan, pGen, pending, dec>>
restVars == <<init, epochOf, epoch, inbox, att, nonce, cGen, resp>>

LEMMA Quiet ==
  ASSUME IInv, UNCHANGED ownerVars, UNCHANGED restVars
  PROVE  IInv'
<1>1. Shapes'
  BY DEF IInv, Shapes, ownerVars, restVars
<1>2. OnePump'
  BY DEF IInv, OnePump, ownerVars
<1>3. PendingIsNewest'
  BY DEF IInv, PendingIsNewest, ownerVars
<1> QED
  BY <1>1, <1>2, <1>3 DEF IInv

LEMMA ClientOnly ==
  ASSUME IInv, UNCHANGED ownerVars,
         /\ init' \in [Attempts -> [nonce : Nat, gen : Nat]]
         /\ epochOf' \in [Channels -> 0..MaxEpoch] /\ epoch' \in 0..MaxEpoch
         /\ inbox' \subseteq Attempts /\ att' \in Nat /\ nonce' \in Nat /\ cGen' \in Nat
         /\ resp' \in [type : {"none", "OK", "REJECT"}, gen : Nat, epoch : 0..MaxEpoch]
  PROVE  IInv'
<1>1. Shapes'
  BY DEF IInv, Shapes, ownerVars
<1>2. OnePump'
  BY DEF IInv, OnePump, ownerVars
<1>3. PendingIsNewest'
  BY DEF IInv, PendingIsNewest, ownerVars
<1> QED
  BY <1>1, <1>2, <1>3 DEF IInv

LEMMA ClientStep == IInv /\ Client => IInv'
<1> SUFFICES ASSUME IInv, Client PROVE IInv'
  OBVIOUS
<1> USE BoundAssumption DEF Attempts, Channels
<1>1. CASE ClientPumpEnds
  BY <1>1, Quiet DEF ClientPumpEnds, ownerVars, restVars,
    netVars, clientVars, attemptVars, providerVars, ctlVars, channelVars
<1>2. CASE CampaignFails
  BY <1>2, Quiet DEF CampaignFails, ownerVars, restVars,
    netVars, clientVars, attemptVars, providerVars, ctlVars, channelVars
<1>3. CASE AttemptFails
  BY <1>3, Quiet DEF AttemptFails, GiveUpTransport, ownerVars, restVars,
    netVars, clientVars, attemptVars, providerVars, ctlVars, channelVars
<1>4. CASE TakeUnexpected
  BY <1>4, Quiet DEF TakeUnexpected, GiveUpTransport, ownerVars, restVars,
    netVars, clientVars, attemptVars, providerVars, ctlVars, channelVars
<1>5. CASE RefuseOk
  BY <1>5, Quiet DEF RefuseOk, GiveUpTransport, ownerVars, restVars,
    netVars, clientVars, attemptVars, providerVars, ctlVars, channelVars
<1>6. CASE TakeReject
  BY <1>6, Quiet DEF TakeReject, GiveUpTransport, ownerVars, restVars,
    netVars, clientVars, attemptVars, providerVars, ctlVars, channelVars
<1>7. CASE ClientInstallBegin
  BY <1>7, Quiet DEF ClientInstallBegin, ownerVars, restVars,
    netVars, clientVars, attemptVars, providerVars, ctlVars, channelVars
<1>8. CASE ClientInstall
  BY <1>8, Quiet DEF ClientInstall, ownerVars, restVars,
    netVars, clientVars, attemptVars, providerVars, ctlVars, channelVars
<1>9. CASE ClientInstallFails
  BY <1>9, Quiet DEF ClientInstallFails, GiveUpTransport, ownerVars, restVars,
    netVars, clientVars, attemptVars, providerVars, ctlVars, channelVars
<1>10. CASE ClientComplete
  BY <1>10, Quiet DEF ClientComplete, ownerVars, restVars,
    netVars, clientVars, attemptVars, providerVars, ctlVars, channelVars
<1>11. CASE ClientCompleteRefused
  BY <1>11, Quiet DEF ClientCompleteRefused, GiveUpTransport, ownerVars, restVars,
    netVars, clientVars, attemptVars, providerVars, ctlVars, channelVars
<1>12. CASE BeginClose
  BY <1>12, Quiet DEF BeginClose, ownerVars, restVars,
    netVars, clientVars, attemptVars, providerVars, ctlVars, channelVars
<1>13. CASE FinishClose
  BY <1>13, Quiet DEF FinishClose, ownerVars, restVars,
    netVars, clientVars, attemptVars, providerVars, ctlVars, channelVars
<1>14. CASE StartCampaign
  BY <1>14, ClientOnly DEF StartCampaign, IInv, Shapes, ownerVars,
    netVars, clientVars, attemptVars, providerVars, ctlVars, channelVars
<1>15. CASE SendInit
  <2>1. att' \in Attempts /\ att' \in Channels /\ att' \in Nat
    BY <1>15 DEF SendInit, IInv, Shapes
  <2>2. init' \in [Attempts -> [nonce : Nat, gen : Nat]]
    BY <1>15, <2>1 DEF SendInit, IInv, Shapes
  <2>3. epochOf' \in [Channels -> 0..MaxEpoch]
    BY <1>15, <2>1 DEF SendInit, IInv, Shapes
  <2>4. resp' \in [type : {"none", "OK", "REJECT"}, gen : Nat, epoch : 0..MaxEpoch]
    BY <1>15 DEF SendInit, NoAnswer
  <2> QED
    BY <1>15, <2>1, <2>2, <2>3, <2>4, ClientOnly DEF SendInit, IInv, Shapes, ownerVars,
      netVars, clientVars, attemptVars, providerVars, ctlVars, channelVars
<1>16. CASE TakeOk
  BY <1>16, ClientOnly DEF TakeOk, Acceptable, IInv, Shapes, ownerVars,
    netVars, clientVars, attemptVars, providerVars, ctlVars, channelVars
<1>17. ASSUME NEW c \in Channels, ClientWatchdogChecks(c) \/ ClientWatchdogFires(c)
      PROVE  IInv'
  BY <1>17, Quiet DEF ClientWatchdogChecks, ClientWatchdogFires, ownerVars, restVars,
    netVars, clientVars, attemptVars, providerVars, ctlVars, channelVars
<1> QED
  BY <1>1, <1>2, <1>3, <1>4, <1>5, <1>6, <1>7, <1>8, <1>9, <1>10, <1>11, <1>12, <1>13, <1>14, <1>15, <1>16, <1>17 DEF Client, ResumeAttempt

LEMMA BreakStep == IInv /\ Break => IInv'
<1> SUFFICES ASSUME IInv, Break PROVE IInv'
  OBVIOUS
<1>1. epoch' \in 0..MaxEpoch
  BY BoundAssumption DEF Break, IInv, Shapes
<1>2. inbox' \subseteq Attempts
  BY DEF Break, IInv, Shapes
<1>3. resp' \in [type : {"none", "OK", "REJECT"}, gen : Nat, epoch : 0..MaxEpoch]
  BY BoundAssumption DEF Break, IInv, Shapes, NoAnswer
<1> QED
  BY <1>1, <1>2, <1>3, ClientOnly DEF Break, IInv, Shapes, ownerVars, netVars, clientVars, attemptVars, providerVars, ctlVars, channelVars

LEMMA AcceptStep ==
  ASSUME IInv, NEW a \in Attempts, AcceptResume(a)
  PROVE  IInv'
<1> USE BoundAssumption DEF Attempts, Channels
<1>1. CASE InstallRefused(a)
  BY <1>1, Quiet DEF InstallRefused, Withdraw, ownerVars, restVars,
    netVars, clientVars, attemptVars, providerVars, ctlVars, channelVars
<1>2. CASE InstallBegin(a)
  BY <1>2, Quiet DEF InstallBegin, ownerVars, restVars,
    netVars, clientVars, attemptVars, providerVars, ctlVars, channelVars
<1>3. CASE InstallAbandoned(a)
  BY <1>3, Quiet DEF InstallAbandoned, Withdraw, ownerVars, restVars,
    netVars, clientVars, attemptVars, providerVars, ctlVars, channelVars
<1>4. CASE Recheck(a)
  BY <1>4, Quiet DEF Recheck, ownerVars, restVars,
    netVars, clientVars, attemptVars, providerVars, ctlVars, channelVars
<1>5. CASE SendOkFails(a)
  BY <1>5, Quiet DEF SendOkFails, ownerVars, restVars,
    netVars, clientVars, attemptVars, providerVars, ctlVars, channelVars
<1>6. CASE Complete(a)
  BY <1>6, Quiet DEF Complete, ownerVars, restVars,
    netVars, clientVars, attemptVars, providerVars, ctlVars, channelVars
<1>7. CASE Decide(a)
  <2>1. dec'[a] = [nonce |-> init[a].nonce, from |-> init[a].gen, gen |-> pGen + 1,
                   epoch |-> epochOf[a], cached |-> FALSE]
    BY <1>7 DEF Decide, IInv, Shapes
  <2>2. dec'[a] \in Decisions
    <3>1. /\ init[a].nonce \in Nat /\ init[a].gen \in Nat /\ pGen + 1 \in Nat
          /\ epochOf[a] \in 0..MaxEpoch
      BY DEF IInv, Shapes
    <3> QED
      BY <2>1, <3>1 DEF Decisions
  <2>3. dec' \in [Attempts -> Decisions]
    BY <1>7, <2>1, <2>2 DEF Decide, IInv, Shapes
  <2>4. pending' \in [decision : Decisions, installed : BOOLEAN]
    BY <1>7, <2>2 DEF Decide
  <2>5. Shapes'
    BY <1>7, <2>3, <2>4 DEF Decide, Decides, IInv, Shapes, netVars, clientVars, attemptVars, providerVars, ctlVars, channelVars
  <2>6. OnePump'
    BY <1>7 DEF Decide, Decides, IInv, OnePump, channelVars
  <2>7. PendingIsNewest'
    BY <1>7, <2>1 DEF Decide, IInv, Shapes, PendingIsNewest
  <2> QED
    BY <2>5, <2>6, <2>7 DEF IInv
<1>8. CASE DecideCached(a)
  <2>1. [pending.decision EXCEPT !.cached = TRUE] \in Decisions
    BY DEF Decisions, IInv, Shapes
  <2>2. dec' \in [Attempts -> Decisions]
    BY <1>8, <2>1 DEF DecideCached, IInv, Shapes
  <2>3. Shapes'
    BY <1>8, <2>2 DEF DecideCached, Decides, IInv, Shapes, netVars, clientVars, attemptVars, providerVars, ctlVars, channelVars
  <2>4. OnePump' /\ PendingIsNewest'
    BY <1>8 DEF DecideCached, Decides, IInv, OnePump, PendingIsNewest, channelVars, ctlVars
  <2> QED
    BY <2>3, <2>4 DEF IInv
<1>9. CASE DecideReject(a)
  <2>1. resp' \in [type : {"none", "OK", "REJECT"}, gen : Nat, epoch : 0..MaxEpoch]
    BY <1>9 DEF DecideReject, Answers, Reject, IInv, Shapes
  <2> QED
    BY <1>9, <2>1, ClientOnly DEF DecideReject, Decides, IInv, Shapes, ownerVars, netVars, clientVars, attemptVars, providerVars, ctlVars, channelVars
<1>10. CASE SendOk(a)
  <2>1. Ok(dec[a].gen, epochOf[a]) \in [type : {"none", "OK", "REJECT"}, gen : Nat, epoch : 0..MaxEpoch]
    BY DEF Ok, Decisions, IInv, Shapes
  <2>2. resp' \in [type : {"none", "OK", "REJECT"}, gen : Nat, epoch : 0..MaxEpoch]
    BY <1>10, <2>1 DEF SendOk, Answers, IInv, Shapes
  <2> QED
    BY <1>10, <2>2, ClientOnly DEF SendOk, IInv, Shapes, ownerVars, netVars, clientVars, attemptVars, providerVars, ctlVars, channelVars
<1>11. CASE InstallCommit(a)
  <2>0. /\ pending' \in [decision : Decisions, installed : BOOLEAN]
        /\ pump' \in [Channels -> {"none", "run", "dead"}]
    BY <1>11 DEF InstallCommit, Installs, IInv, Shapes
  <2>1. Shapes'
    BY <1>11, <2>0 DEF InstallCommit, Installs, IInv, Shapes, netVars, clientVars, attemptVars, providerVars, ctlVars, channelVars
  <2>2. OnePump'
    \* The current pump is dead, so by OnePump no pump runs before the step.
    BY <1>11 DEF InstallCommit, Installs, Vacant, IInv, Shapes, OnePump
  <2>3. PendingIsNewest'
    BY <1>11 DEF InstallCommit, Installs, StillPending, NoPending, IInv, Shapes, PendingIsNewest
  <2> QED
    BY <2>1, <2>2, <2>3 DEF IInv
<1>12. CASE InstalledTooLate(a)
  <2>1. Shapes'
    BY <1>12 DEF InstalledTooLate, IInv, Shapes, netVars, clientVars, attemptVars, providerVars, ctlVars, channelVars
  <2>2. OnePump'
    BY <1>12 DEF InstalledTooLate, IInv, Shapes, OnePump
  <2>3. PendingIsNewest'
    BY <1>12 DEF InstalledTooLate, IInv, PendingIsNewest, ctlVars
  <2> QED
    BY <2>1, <2>2, <2>3 DEF IInv
<1>13. CASE Accept(a)
  BY <1>13, ClientOnly DEF Accept, IInv, Shapes, ownerVars, netVars, clientVars, attemptVars,
    providerVars, ctlVars, channelVars
<1> QED
  BY <1>1, <1>2, <1>3, <1>4, <1>5, <1>6, <1>7, <1>8, <1>9, <1>10, <1>11, <1>12, <1>13 DEF AcceptResume

LEMMA ChannelStep ==
  ASSUME IInv, NEW c \in Channels, Pump(c) \/ Watchdog(c)
  PROVE  IInv'
<1>1. CASE PumpStops(c)
  <2>1. Shapes'
    BY <1>1 DEF PumpStops, IInv, Shapes, netVars, clientVars, attemptVars, providerVars, ctlVars, channelVars
  <2>2. OnePump'
    BY <1>1 DEF PumpStops, IInv, Shapes, OnePump
  <2>3. PendingIsNewest'
    BY <1>1 DEF PumpStops, IInv, PendingIsNewest, ctlVars
  <2> QED
    BY <2>1, <2>2, <2>3 DEF IInv
<1>2. CASE PumpEnds(c)
  <2>1. Shapes'
    BY <1>2 DEF PumpEnds, IInv, Shapes, netVars, clientVars, attemptVars, providerVars, ctlVars, channelVars
  <2>2. OnePump'
    BY <1>2 DEF PumpEnds, IInv, Shapes, OnePump
  <2>3. PendingIsNewest'
    BY <1>2 DEF PumpEnds, IInv, PendingIsNewest, ctlVars
  <2> QED
    BY <2>1, <2>2, <2>3 DEF IInv
<1>3. CASE Confirm(c)
  <2>1. NoPending \in [decision : Decisions, installed : BOOLEAN]
    BY BoundAssumption DEF NoPending, NoDecision, Decisions
  <2>2. Shapes'
    BY <1>3, <2>1 DEF Confirm, IInv, Shapes, netVars, clientVars, attemptVars, providerVars, ctlVars, channelVars
  <2>3. OnePump' /\ PendingIsNewest'
    BY <1>3 DEF Confirm, IInv, OnePump, PendingIsNewest, channelVars
  <2> QED
    BY <2>2, <2>3 DEF IInv
<1>4. CASE Watchdog(c)
  BY <1>4, Quiet DEF Watchdog, WatchdogChecks, WatchdogFires, ownerVars, restVars, netVars, clientVars, attemptVars, providerVars, ctlVars, channelVars
<1> QED
  BY <1>1, <1>2, <1>3, <1>4 DEF Pump

\* Every step keeps the inductive invariant.
THEOREM Step == IInv /\ [Next]_vars => IInv'
<1> SUFFICES ASSUME IInv, [Next]_vars PROVE IInv'
  OBVIOUS
<1>1. CASE Next
  BY <1>1, BreakStep, ClientStep, AcceptStep, ChannelStep DEF Next
<1>2. CASE UNCHANGED vars
  BY <1>2, Quiet DEF vars, ownerVars, restVars, netVars, clientVars, attemptVars, providerVars, ctlVars, channelVars
<1> QED
  BY <1>1, <1>2

\* The inductive invariant holds of the program.
THEOREM Inductive == Spec => []IInv
BY Base, Step, PTL DEF Spec

-----------------------------------------------------------------------------
(* The properties.                                                         *)

\* One pump at a time, and it is the current channel's: a frame of an old
\* channel cannot be committed after a newer one was installed.
THEOREM OnePumpAlways == Spec => []OnePump
<1>1. IInv => OnePump
  BY DEF IInv
<1> QED
  BY <1>1, Inductive, PTL

\* A channel is installed only for the decision that made the current
\* generation: a superseded task never takes the ownership back.
THEOREM NewestOwns == Spec => NewestDecisionOwns
<1>1. ASSUME IInv, [Next]_vars
      PROVE  [pChan' # pChan => dec[pChan'].gen = pGen]_vars
  <2>1. CASE \E a \in Attempts : InstallCommit(a)
    <3>1. PICK a \in Attempts : InstallCommit(a)
      BY <2>1
    <3>2. pChan' = a /\ pending # NoPending
      BY <3>1 DEF InstallCommit, Installs, StillPending
    <3>3. dec[a].gen = pending.decision.gen
      <4>1. dec[a] \in Decisions
        BY <1>1 DEF IInv, Shapes
      <4>2. [dec[a] EXCEPT !.cached = FALSE].gen = dec[a].gen
        BY <4>1 DEF Decisions
      <4> QED
        BY <3>1, <4>2 DEF InstallCommit, StillPending
    <3> QED
      BY <1>1, <3>2, <3>3 DEF IInv, PendingIsNewest
  <2>2. CASE ~\E a \in Attempts : InstallCommit(a)
    <3>1. pChan' = pChan
      <4>1. CASE Break
        BY <4>1 DEF Break, providerVars, channelVars
      <4>2. CASE Client
        BY <4>2 DEF Client, ResumeAttempt, ClientPumpEnds, StartCampaign, SendInit, CampaignFails,
          AttemptFails, TakeUnexpected, TakeOk, RefuseOk, TakeReject, ClientInstallBegin,
          ClientInstall, ClientInstallFails, ClientComplete, ClientCompleteRefused, BeginClose,
          FinishClose, ClientWatchdogChecks, ClientWatchdogFires, GiveUpTransport,
          providerVars, channelVars
      <4>3. ASSUME NEW a \in Attempts, AcceptResume(a) PROVE pChan' = pChan
        BY <2>2, <4>3 DEF AcceptResume, Accept, Decide, DecideCached, DecideReject, Decides, InstallRefused,
          InstallBegin, InstallAbandoned, Withdraw, Recheck, InstalledTooLate, SendOk, SendOkFails,
          Complete, channelVars
      <4>4. ASSUME NEW c \in Channels, Pump(c) \/ Watchdog(c) PROVE pChan' = pChan
        BY <4>4 DEF Pump, PumpStops, PumpEnds, Confirm, Watchdog, WatchdogChecks, WatchdogFires,
          channelVars
      <4>5. CASE UNCHANGED vars
        BY <4>5 DEF vars, providerVars, channelVars
      <4> QED
        BY <1>1, <4>1, <4>2, <4>3, <4>4, <4>5 DEF Next
    <3> QED
      BY <3>1
  <2> QED
    BY <2>1, <2>2
<1> QED
  BY <1>1, Inductive, PTL DEF Spec, NewestDecisionOwns

\* No answer, however late and on whatever transport, moves the client back
\* to an older generation.
THEOREM NeverRollsBack == Spec => ClientNeverRollsBack
<1>1. ASSUME IInv, [Next]_vars
      PROVE  [cGen' >= cGen]_vars
  <2> USE DEF IInv, Shapes
  <2>1. CASE TakeOk
    BY <1>1, <2>1 DEF TakeOk, Acceptable
  <2>2. CASE ~TakeOk
    <3>1. cGen' = cGen
      <4>1. CASE Break
        BY <4>1 DEF Break
      <4>2. CASE Client
        BY <2>2, <4>2 DEF Client, ResumeAttempt, ClientPumpEnds, StartCampaign, SendInit,
          CampaignFails, AttemptFails, TakeUnexpected, RefuseOk, TakeReject, ClientInstallBegin,
          ClientInstall, ClientInstallFails, ClientComplete, ClientCompleteRefused, BeginClose,
          FinishClose, ClientWatchdogChecks, ClientWatchdogFires, GiveUpTransport
      <4>3. ASSUME NEW a \in Attempts, AcceptResume(a) PROVE cGen' = cGen
        BY <4>3 DEF AcceptResume, Accept, Decide, DecideCached, DecideReject, Decides, InstallRefused,
          InstallBegin, InstallCommit, Installs, InstallAbandoned, Withdraw, Recheck,
          InstalledTooLate, SendOk, SendOkFails, Complete, clientVars
      <4>4. ASSUME NEW c \in Channels, Pump(c) \/ Watchdog(c) PROVE cGen' = cGen
        BY <4>4 DEF Pump, PumpStops, PumpEnds, Confirm, Watchdog, WatchdogChecks, WatchdogFires,
          clientVars
      <4>5. CASE UNCHANGED vars
        BY <4>5 DEF vars, clientVars
      <4> QED
        BY <1>1, <4>1, <4>2, <4>3, <4>4, <4>5 DEF Next
    <3> QED
      BY <1>1, <3>1
  <2> QED
    BY <2>1, <2>2
<1> QED
  BY <1>1, Inductive, PTL DEF Spec, ClientNeverRollsBack

-----------------------------------------------------------------------------
(* The token window.  A decision answers the request of its attempt, its   *)
(* generation follows the one it was asked from, and while the window is   *)
(* open the decision of the newest generation is the one a retry would     *)
(* get.  The client's side: what it sent with an attempt is what it held,  *)
(* and it speaks on a channel only after leaving that generation.          *)

Places == {"none", "read", "decided", "stopping", "installed", "checked", "sent", "done"}

\* What concerns an attempt comes after the attempt.
Reached ==
  /\ att \in 0..MaxAttempts
  /\ pc \in [Attempts -> Places]
  /\ spoke \subseteq 0..att
  /\ \A a \in inbox : a <= att
  /\ \A a \in Attempts : pc[a] # "none" => a <= att

Window == pPrev = None \/ pPrev = pGen - 1

PendingDecision ==
  pending # NoPending =>
    ~pending.decision.cached /\ pending.decision.from < pending.decision.gen

\* The decision on attempt a answers a's request.
Answered(a) ==
  /\ pc[a] # "none"
  /\ dec[a].nonce = init[a].nonce /\ dec[a].from = init[a].gen /\ dec[a].epoch = epochOf[a]
  /\ dec[a].from < dec[a].gen /\ dec[a].gen <= pGen
  /\ dec[a].gen = pGen /\ pPrev # None =>
       pending # NoPending /\ pending.decision = [dec[a] EXCEPT !.cached = FALSE]

Decided ==
  \A a \in Attempts :
    /\ dec[a] # NoDecision => Answered(a)
    /\ pc[a] \in {"decided", "stopping"} => dec[a] # NoDecision

\* The channel that may confirm was installed for the pending decision.
Confirmable ==
  confirmer # None =>
    /\ confirmer \in Attempts /\ confirmer <= att
    /\ pending # NoPending /\ pending.decision.from = init[confirmer].gen

Credentials ==
  /\ cStep = "wait" => att >= 1 /\ init[att].gen = cGen
  /\ cStep \in {"rotated", "installing", "installed"} => att >= 1 /\ init[att].gen < cGen
  /\ \A a \in spoke : a # 0 => init[a].gen < cGen

TInv == IInv /\ Reached /\ Window /\ PendingDecision /\ Decided /\ Confirmable /\ Credentials /\ NonceRotatesOnce

THEOREM TBase == Init => TInv
<1> SUFFICES ASSUME Init PROVE TInv
  OBVIOUS
<1> USE BoundAssumption DEF Attempts, Channels
<1>1. IInv
  BY Base
<1>2. Reached
  BY DEF Init, Reached, Places
<1>3. Window /\ PendingDecision /\ Confirmable
  BY DEF Init, Window, PendingDecision, Confirmable
<1>4. Decided
  BY DEF Init, Decided
<1>5. Credentials
  BY DEF Init, Credentials
<1>6. NonceRotatesOnce
  BY DEF Init, NonceRotatesOnce
<1> QED
  BY <1>1, <1>2, <1>3, <1>4, <1>5, <1>6 DEF TInv

requestVars == <<init, epochOf, att>>
decisionVars == <<dec, pending, pGen, pPrev, confirmer>>

LEMMA DecisionsKept ==
  ASSUME TInv, UNCHANGED requestVars, UNCHANGED decisionVars, UNCHANGED pc
  PROVE  Window' /\ PendingDecision' /\ Decided' /\ Confirmable' /\ NonceRotatesOnce'
<1>1. Window' /\ PendingDecision'
  BY DEF TInv, Window, PendingDecision, decisionVars
<1>2. Decided'
  BY DEF TInv, Decided, Answered, requestVars, decisionVars
<1>3. Confirmable'
  BY DEF TInv, Confirmable, requestVars, decisionVars
<1>4. NonceRotatesOnce'
  BY DEF TInv, NonceRotatesOnce, requestVars, decisionVars
<1> QED
  BY <1>1, <1>2, <1>3, <1>4

\* An attempt goes on where it cannot make a decision or forget one.
LEMMA Advances ==
  ASSUME TInv, IInv', NEW a \in Attempts, NEW p \in Places \ {"none"},
         UNCHANGED requestVars, UNCHANGED decisionVars, UNCHANGED <<inbox, spoke, cGen, cStep>>,
         pc' = [pc EXCEPT ![a] = p], pc[a] # "none",
         p = "stopping" => pc[a] = "decided", p # "decided"
  PROVE  TInv'
<1>1. Reached'
  BY DEF TInv, Reached, requestVars
<1>2. Window' /\ PendingDecision'
  BY DEF TInv, Window, PendingDecision, decisionVars
<1>3. Decided'
  BY DEF TInv, Reached, Decided, Answered, requestVars, decisionVars
<1>4. Confirmable'
  BY DEF TInv, Confirmable, requestVars, decisionVars
<1>5. Credentials'
  BY DEF TInv, Credentials, requestVars
<1>6. NonceRotatesOnce'
  BY DEF TInv, NonceRotatesOnce, requestVars, decisionVars
<1> QED
  BY <1>1, <1>2, <1>3, <1>4, <1>5, <1>6 DEF TInv

\* A step that only the client takes.
LEMMA ClientTokens ==
  ASSUME TInv, IInv', UNCHANGED requestVars, UNCHANGED decisionVars, UNCHANGED pc,
         inbox' \subseteq inbox, spoke' \subseteq 0..att, Credentials'
  PROVE  TInv'
<1>1. Reached'
  BY DEF TInv, Reached, requestVars
<1> QED
  BY <1>1, DecisionsKept DEF TInv

LEMMA SameTokens ==
  ASSUME TInv, IInv', UNCHANGED requestVars, UNCHANGED decisionVars, UNCHANGED pc,
         inbox' \subseteq inbox, UNCHANGED <<spoke, cGen, cStep>>
  PROVE  TInv'
<1>1. Credentials'
  BY DEF TInv, Credentials, requestVars
<1>2. spoke' \subseteq 0..att
  BY DEF TInv, Reached
<1> QED
  BY <1>1, <1>2, ClientTokens

-----------------------------------------------------------------------------
(* The client's steps.                                                     *)

LEMMA SendInitTokens == TInv /\ IInv' /\ SendInit => TInv'
<1> SUFFICES ASSUME TInv, IInv', SendInit PROVE TInv'
  OBVIOUS
<1> USE BoundAssumption DEF Attempts, Channels
<1>1. att' = att + 1 /\ att' \in Attempts /\ att \in Nat
  BY DEF SendInit, TInv, Reached
<1>2. /\ UNCHANGED <<dec, pending, pGen, pPrev, confirmer, pc, spoke, cGen, nonce>>
      /\ inbox' = inbox \cup {att'} /\ cStep' = "wait"
      /\ init' = [init EXCEPT ![att'] = [nonce |-> nonce, gen |-> cGen]]
      /\ epochOf' = [epochOf EXCEPT ![att'] = epoch]
  BY DEF SendInit, providerVars, ctlVars
<1>3. /\ init'[att'] = [nonce |-> nonce, gen |-> cGen]
      /\ \A a \in Attempts : a <= att => init'[a] = init[a] /\ epochOf'[a] = epochOf[a]
  BY <1>1, <1>2 DEF TInv, IInv, Shapes
<1>4. Reached'
  <2>1. att' \in 0..MaxAttempts /\ 0..att \subseteq 0..att'
    BY <1>1
  <2>2. spoke' \subseteq 0..att'
    BY <1>2, <2>1 DEF TInv, Reached
  <2>3. \A a \in inbox' : a <= att'
    <3>1. \A a \in inbox : a \in Attempts /\ a <= att
      BY DEF TInv, Reached, IInv, Shapes
    <3> QED
      BY <1>1, <1>2, <3>1
  <2>4. \A a \in Attempts : pc[a] # "none" => a <= att'
    BY <1>1 DEF TInv, Reached
  <2>5. pc' \in [Attempts -> Places] /\ pc' = pc
    BY <1>2 DEF TInv, Reached
  <2> QED
    BY <2>1, <2>2, <2>3, <2>4, <2>5 DEF Reached
<1>5. Window' /\ PendingDecision'
  BY <1>2 DEF TInv, Window, PendingDecision
<1>6. Decided'
  \* The new attempt is not decided yet, and no other request changes.
  <2> SUFFICES ASSUME NEW a \in Attempts
               PROVE  /\ dec[a] # NoDecision => Answered(a)'
                      /\ pc[a] \in {"decided", "stopping"} => dec[a] # NoDecision
    BY <1>2 DEF Decided
  <2>1. dec[a] # NoDecision => a <= att
    BY DEF TInv, Decided, Answered, Reached
  <2> QED
    BY <1>2, <1>3, <2>1 DEF TInv, Decided, Answered
<1>7. Confirmable'
  BY <1>1, <1>2, <1>3 DEF TInv, Confirmable
<1>8. Credentials'
  <2>1. \A a \in spoke : a # 0 => a \in Attempts /\ a <= att
    BY <1>1 DEF TInv, Reached
  <2>2. \A a \in spoke : a # 0 => init'[a].gen < cGen
    BY <1>3, <2>1 DEF TInv, Credentials
  <2> QED
    BY <1>1, <1>2, <1>3, <2>2 DEF Credentials
<1>9. NonceRotatesOnce'
  <2>1. \A a \in Attempts : dec[a] # NoDecision => a <= att
    BY DEF TInv, Decided, Answered, Reached
  <2> QED
    BY <1>2, <1>3, <2>1 DEF TInv, NonceRotatesOnce
<1> QED
  BY <1>4, <1>5, <1>6, <1>7, <1>8, <1>9 DEF TInv

LEMMA ClientTokensStep == TInv /\ IInv' /\ Client => TInv'
<1> SUFFICES ASSUME TInv, IInv', Client PROVE TInv'
  OBVIOUS
<1> USE DEF requestVars, decisionVars, netVars, clientVars, attemptVars, providerVars, ctlVars
<1>1. CASE ClientPumpEnds \/ StartCampaign \/ CampaignFails \/ BeginClose
  BY <1>1, SameTokens DEF ClientPumpEnds, StartCampaign, CampaignFails, BeginClose
<1>2. CASE FinishClose
  BY <1>2, SameTokens DEF FinishClose
<1>3. CASE SendInit
  BY <1>3, SendInitTokens
<1>4. CASE AttemptFails \/ TakeUnexpected \/ RefuseOk \/ TakeReject \/ ClientInstallFails
           \/ ClientCompleteRefused
  <2>1. /\ UNCHANGED <<requestVars, decisionVars, pc, inbox, spoke, cGen>> /\ cStep' = "idle"
    BY <1>4 DEF AttemptFails, TakeUnexpected, RefuseOk, TakeReject, ClientInstallFails,
      ClientCompleteRefused, GiveUpTransport
  <2>2. Credentials'
    BY <2>1 DEF TInv, Credentials
  <2> QED
    BY <2>1, <2>2, ClientTokens DEF TInv, Reached
<1>5. CASE TakeOk
  <2>1. /\ UNCHANGED <<requestVars, decisionVars, pc, inbox, spoke>> /\ cStep = "wait"
        /\ cStep' = "rotated" /\ cGen' = resp.gen /\ resp.gen > cGen
    BY <1>5 DEF TakeOk, Acceptable
  <2>2. \A a \in spoke : a # 0 => a \in Attempts
    BY BoundAssumption DEF TInv, Reached, Attempts
  <2>3. att >= 1 => att \in Attempts
    BY BoundAssumption DEF TInv, Reached, Attempts
  <2>4. cGen \in Nat /\ resp.gen \in Nat /\ \A a \in Attempts : init[a].gen \in Nat
    BY DEF TInv, IInv, Shapes
  <2>5. Credentials'
    BY <2>1, <2>2, <2>3, <2>4 DEF TInv, Credentials
  <2> QED
    BY <2>1, <2>5, ClientTokens DEF TInv, Reached
<1>6. CASE ClientInstallBegin
  <2>1. /\ UNCHANGED <<requestVars, decisionVars, pc, inbox, spoke, cGen>>
        /\ cStep = "rotated" /\ cStep' = "installing"
    BY <1>6 DEF ClientInstallBegin
  <2>2. Credentials'
    BY <2>1 DEF TInv, Credentials
  <2> QED
    BY <2>1, <2>2, ClientTokens DEF TInv, Reached
<1>7. CASE ClientInstall
  <2>1. /\ UNCHANGED <<requestVars, decisionVars, pc, inbox, cGen>>
        /\ cStep = "installing" /\ cStep' = "installed" /\ spoke' = spoke \cup {att}
    BY <1>7 DEF ClientInstall
  <2>2. Credentials'
    BY <2>1 DEF TInv, Credentials
  <2> QED
    BY <2>1, <2>2, ClientTokens DEF TInv, Reached
<1>8. CASE ClientComplete
  <2>1. /\ UNCHANGED <<requestVars, decisionVars, pc, inbox, spoke, cGen>> /\ cStep' = "idle"
    BY <1>8 DEF ClientComplete
  <2>2. Credentials'
    BY <2>1 DEF TInv, Credentials
  <2> QED
    BY <2>1, <2>2, ClientTokens DEF TInv, Reached
<1>9. ASSUME NEW c \in Channels, ClientWatchdogChecks(c) \/ ClientWatchdogFires(c)
      PROVE  TInv'
  BY <1>9, SameTokens DEF ClientWatchdogChecks, ClientWatchdogFires
<1> QED
  BY <1>1, <1>2, <1>3, <1>4, <1>5, <1>6, <1>7, <1>8, <1>9 DEF Client, ResumeAttempt

-----------------------------------------------------------------------------
(* The provider's steps.                                                   *)

LEMMA RequestTyped ==
  ASSUME TInv, NEW a \in Attempts
  PROVE  /\ init[a].nonce \in Nat /\ init[a].gen \in Nat /\ epochOf[a] \in 0..MaxEpoch
         /\ dec[a] \in Decisions /\ pGen \in Nat /\ pending.decision \in Decisions
BY BoundAssumption DEF TInv, IInv, Shapes, Attempts, Channels

\* The heart of it: a decided request that is still in the window is the
\* pending one, so that asking again is a retry.
LEMMA DecidedIsRetry ==
  ASSUME TInv, NEW a \in Attempts, NEW b \in Attempts,
         dec[a] # NoDecision, init[a] = init[b], epochOf[a] = epochOf[b], Known(init[b].gen)
  PROVE  IsRetry(b) /\ pending.decision.gen = dec[a].gen
<1>1. Answered(a)
  BY DEF TInv, Decided
<1>2. /\ init[a].gen \in Nat /\ dec[a].gen \in Nat /\ pGen \in Nat /\ dec[a] \in Decisions
      /\ dec[a].from = init[a].gen
  BY <1>1, RequestTyped DEF Answered, Decisions
<1>3. pPrev # None /\ pPrev = pGen - 1 /\ dec[a].gen = pGen
  BY <1>1, <1>2 DEF Answered, Known, None, TInv, Window
<1>4. pending # NoPending /\ pending.decision = [dec[a] EXCEPT !.cached = FALSE]
  BY <1>1, <1>3 DEF Answered
<1>5. /\ pending.decision.nonce = dec[a].nonce /\ pending.decision.from = dec[a].from
      /\ pending.decision.epoch = dec[a].epoch /\ pending.decision.gen = dec[a].gen
  BY <1>2, <1>4 DEF Decisions
<1> QED
  BY <1>1, <1>4, <1>5 DEF Answered, IsRetry

LEMMA DecideTokens ==
  ASSUME TInv, IInv', NEW a \in Attempts, Decide(a)
  PROVE  TInv'
<1>1. /\ UNCHANGED <<requestVars, inbox, spoke, cGen, cStep>>
      /\ pc[a] = "read" /\ pc' = [pc EXCEPT ![a] = "decided"]
      /\ pGen' = pGen + 1 /\ pPrev' = pGen /\ confirmer' = None
      /\ Known(init[a].gen) /\ ~IsRetry(a)
  BY DEF Decide, Decides, netVars, attemptVars, requestVars
<1>2. /\ dec'[a] = [nonce |-> init[a].nonce, from |-> init[a].gen, gen |-> pGen + 1,
                    epoch |-> epochOf[a], cached |-> FALSE]
      /\ \A b \in Attempts \ {a} : dec'[b] = dec[b]
      /\ pending' = [decision |-> dec'[a], installed |-> FALSE]
  BY DEF Decide, TInv, IInv, Shapes
<1>3. init[a].gen \in Nat /\ pGen \in Nat /\ init[a].gen <= pGen
  BY <1>1, RequestTyped DEF Known, TInv, Window, None
<1>4. dec'[a] # NoDecision /\ pending' # NoPending
  BY <1>2, <1>3 DEF NoDecision, NoPending
<1>5. Reached'
  BY <1>1 DEF TInv, Reached, Places, requestVars
<1>6. Window'
  BY <1>1, <1>3 DEF Window
<1>7. PendingDecision'
  BY <1>2, <1>3 DEF PendingDecision
<1>8. Decided'
  <2> SUFFICES ASSUME NEW b \in Attempts
               PROVE  /\ dec'[b] # NoDecision => Answered(b)'
                      /\ pc'[b] \in {"decided", "stopping"} => dec'[b] # NoDecision
    BY DEF Decided
  <2>1. CASE b = a
    <3>1. pending'.decision = [dec'[a] EXCEPT !.cached = FALSE]
      <4>1. ASSUME NEW d \in Decisions, d.cached = FALSE
            PROVE  [d EXCEPT !.cached = FALSE] = d
        BY <4>1 DEF Decisions
      <4>2. dec'[a] \in Decisions
        BY DEF IInv, Shapes
      <4>3. dec'[a].cached = FALSE /\ pending'.decision = dec'[a]
        BY <1>2
      <4> QED
        BY <4>1, <4>2, <4>3
    <3>2. pc'[a] = "decided"
      BY <1>1 DEF TInv, Reached
    <3>3. Answered(a)'
      BY <1>1, <1>2, <1>3, <1>4, <3>1, <3>2 DEF Answered, requestVars
    <3> QED
      BY <1>4, <2>1, <3>3
  <2>2. CASE b # a
    <3>1. dec'[b] = dec[b] /\ pc'[b] = pc[b]
      BY <1>1, <1>2, <2>2 DEF TInv, Reached
    <3>2. dec[b] # NoDecision => dec[b].gen <= pGen /\ dec[b].gen \in Nat
      BY RequestTyped DEF TInv, Decided, Answered, Decisions
    <3> QED
      BY <1>1, <1>3, <3>1, <3>2 DEF TInv, Decided, Answered, requestVars
  <2> QED
    BY <2>1, <2>2
<1>9. Confirmable'
  BY <1>1 DEF Confirmable
<1>10. Credentials'
  BY <1>1 DEF TInv, Credentials, requestVars
<1>11. NonceRotatesOnce'
  <2>1. \A b \in Attempts : dec[b] # NoDecision => ~(init[a] = init[b] /\ epochOf[a] = epochOf[b])
    BY <1>1, DecidedIsRetry
  <2> QED
    BY <1>1, <1>2, <2>1 DEF TInv, NonceRotatesOnce, requestVars
<1> QED
  BY <1>5, <1>6, <1>7, <1>8, <1>9, <1>10, <1>11 DEF TInv

LEMMA DecideCachedTokens ==
  ASSUME TInv, IInv', NEW a \in Attempts, DecideCached(a)
  PROVE  TInv'
<1>1. /\ UNCHANGED <<requestVars, inbox, spoke, cGen, cStep, pending, pGen, pPrev, confirmer>>
      /\ pc[a] = "read" /\ pc' = [pc EXCEPT ![a] = "decided"]
      /\ Known(init[a].gen) /\ IsRetry(a)
  BY DEF DecideCached, Decides, netVars, attemptVars, requestVars, ctlVars
<1>2. /\ dec'[a] = [pending.decision EXCEPT !.cached = TRUE]
      /\ \A b \in Attempts \ {a} : dec'[b] = dec[b]
  BY DEF DecideCached, TInv, IInv, Shapes
<1>3. /\ dec'[a].nonce = init[a].nonce /\ dec'[a].from = init[a].gen /\ dec'[a].epoch = epochOf[a]
      /\ dec'[a].gen = pGen /\ dec'[a].from < dec'[a].gen /\ dec'[a].cached
      /\ pending # NoPending /\ pending.decision.gen = pGen
  BY <1>1, <1>2, RequestTyped DEF IsRetry, Decisions, TInv, IInv, PendingIsNewest, PendingDecision
<1>4. pending.decision = [dec'[a] EXCEPT !.cached = FALSE]
  BY <1>2, <1>3, RequestTyped DEF Decisions, TInv, PendingDecision
<1>5. dec'[a] # NoDecision
  BY <1>3 DEF NoDecision
<1>6. Reached'
  BY <1>1 DEF TInv, Reached, Places, requestVars
<1>7. Window' /\ PendingDecision' /\ Confirmable' /\ Credentials'
  BY <1>1 DEF TInv, Window, PendingDecision, Confirmable, Credentials, requestVars
<1>8. Decided'
  <2> SUFFICES ASSUME NEW b \in Attempts
               PROVE  /\ dec'[b] # NoDecision => Answered(b)'
                      /\ pc'[b] \in {"decided", "stopping"} => dec'[b] # NoDecision
    BY DEF Decided
  <2>1. CASE b = a
    <3>1. pc'[a] = "decided" /\ pGen \in Nat
      BY <1>1, RequestTyped DEF TInv, Reached
    <3>2. Answered(a)'
      BY <1>1, <1>3, <1>4, <3>1 DEF Answered, requestVars
    <3> QED
      BY <1>5, <2>1, <3>2
  <2>2. CASE b # a
    <3>1. dec'[b] = dec[b] /\ pc'[b] = pc[b]
      BY <1>1, <1>2, <2>2 DEF TInv, Reached
    <3> QED
      BY <1>1, <3>1 DEF TInv, Decided, Answered, requestVars
  <2> QED
    BY <2>1, <2>2
<1>9. NonceRotatesOnce'
  <2>1. \A b \in Attempts : dec[b] # NoDecision /\ init[a] = init[b] /\ epochOf[a] = epochOf[b]
                              => dec[b].gen = pGen
    BY <1>1, <1>3, DecidedIsRetry
  <2>2. dec'[a].gen = pGen
    BY <1>3
  <2>3. \A b, c \in Attempts :
          (/\ dec[b] # NoDecision /\ dec[c] # NoDecision
           /\ init[b] = init[c] /\ epochOf[b] = epochOf[c]) => dec[b].gen = dec[c].gen
    BY DEF TInv, NonceRotatesOnce
  <2>4. init' = init /\ epochOf' = epochOf
    BY <1>1 DEF requestVars
  <2> SUFFICES ASSUME NEW b \in Attempts, NEW c \in Attempts,
                      dec'[b] # NoDecision, dec'[c] # NoDecision,
                      init[b] = init[c], epochOf[b] = epochOf[c]
               PROVE  dec'[b].gen = dec'[c].gen
    BY <2>4 DEF NonceRotatesOnce
  <2>5. CASE b = a /\ c # a
    BY <1>2, <2>1, <2>2, <2>5
  <2>6. CASE b # a /\ c = a
    BY <1>2, <2>1, <2>2, <2>6
  <2>7. CASE b # a /\ c # a
    BY <1>2, <2>3, <2>7
  <2> QED
    BY <2>5, <2>6, <2>7
<1> QED
  BY <1>6, <1>7, <1>8, <1>9 DEF TInv

LEMMA InstallTokens ==
  ASSUME TInv, IInv', NEW a \in Attempts, InstallCommit(a)
  PROVE  TInv'
<1>1. /\ UNCHANGED <<requestVars, inbox, spoke, cGen, cStep, pGen, pPrev, dec>>
      /\ pc[a] = "stopping" /\ pc' = [pc EXCEPT ![a] = "installed"]
      /\ pending # NoPending /\ pending.decision = [dec[a] EXCEPT !.cached = FALSE]
      /\ pending' = [pending EXCEPT !.installed = TRUE]
      /\ confirmer' = IF pPrev # None THEN a ELSE confirmer
  BY DEF InstallCommit, Installs, StillPending, netVars, clientVars, attemptVars, requestVars
<1>2. pending' # NoPending /\ pending'.decision = pending.decision
  BY <1>1 DEF TInv, IInv, Shapes, NoPending
<1>3. dec[a] # NoDecision /\ pending.decision.from = init[a].gen
  BY <1>1, RequestTyped DEF TInv, Decided, Answered, Decisions
<1>4. Reached'
  BY <1>1 DEF TInv, Reached, Places, requestVars
<1>5. Window' /\ PendingDecision' /\ Credentials' /\ NonceRotatesOnce'
  BY <1>1, <1>2 DEF TInv, Window, PendingDecision, Credentials, NonceRotatesOnce, requestVars
<1>6. Decided'
  BY <1>1, <1>2 DEF TInv, Reached, Decided, Answered, requestVars
<1>7. Confirmable'
  <2>1. a <= att
    BY <1>1 DEF TInv, Reached
  <2> QED
    BY <1>1, <1>2, <1>3, <2>1 DEF TInv, Confirmable, requestVars
<1> QED
  BY <1>4, <1>5, <1>6, <1>7 DEF TInv

LEMMA AcceptTokens ==
  ASSUME TInv, IInv', NEW a \in Attempts, AcceptResume(a)
  PROVE  TInv'
<1> USE DEF requestVars, decisionVars, netVars, clientVars, attemptVars, providerVars, ctlVars
<1>1. CASE Accept(a)
  <2>1. /\ UNCHANGED <<requestVars, decisionVars, spoke, cGen, cStep>>
        /\ inbox' \subseteq inbox /\ a \in inbox /\ pc' = [pc EXCEPT ![a] = "read"]
    BY <1>1 DEF Accept
  <2>2. Reached'
    BY <2>1 DEF TInv, Reached, Places
  <2>3. Window' /\ PendingDecision' /\ Confirmable' /\ Credentials' /\ NonceRotatesOnce'
    BY <2>1 DEF TInv, Window, PendingDecision, Confirmable, Credentials, NonceRotatesOnce
  <2>4. Decided'
    BY <2>1 DEF TInv, Reached, Decided, Answered
  <2> QED
    BY <2>2, <2>3, <2>4 DEF TInv
<1>2. CASE Decide(a)
  BY <1>2, DecideTokens
<1>3. CASE DecideCached(a)
  BY <1>3, DecideCachedTokens
<1>4. CASE DecideReject(a)
  BY <1>4, Advances DEF DecideReject, Decides, Places
<1>5. CASE InstallRefused(a)
  BY <1>5, Advances DEF InstallRefused, Withdraw, Places
<1>6. CASE InstallBegin(a)
  BY <1>6, Advances DEF InstallBegin, Places
<1>7. CASE InstallCommit(a)
  BY <1>7, InstallTokens
<1>8. CASE InstallAbandoned(a)
  BY <1>8, Advances DEF InstallAbandoned, Withdraw, Places
<1>9. CASE Recheck(a)
  BY <1>9, Advances DEF Recheck, Places
<1>10. CASE InstalledTooLate(a)
  BY <1>10, Advances DEF InstalledTooLate, Places
<1>11. CASE SendOk(a)
  BY <1>11, Advances DEF SendOk, Places
<1>12. CASE SendOkFails(a)
  BY <1>12, Advances DEF SendOkFails, Places
<1>13. CASE Complete(a)
  BY <1>13, Advances DEF Complete, Places
<1> QED
  BY <1>1, <1>2, <1>3, <1>4, <1>5, <1>6, <1>7, <1>8, <1>9, <1>10, <1>11, <1>12, <1>13 DEF AcceptResume

LEMMA ChannelTokens ==
  ASSUME TInv, IInv', NEW c \in Channels, Pump(c) \/ Watchdog(c)
  PROVE  TInv'
<1> USE DEF requestVars, decisionVars, netVars, clientVars, attemptVars, providerVars, ctlVars
<1>1. CASE PumpStops(c) \/ PumpEnds(c) \/ Watchdog(c)
  BY <1>1, SameTokens DEF PumpStops, PumpEnds, Watchdog, WatchdogChecks, WatchdogFires
<1>2. CASE Confirm(c)
  <2>1. /\ UNCHANGED <<requestVars, pc, inbox, spoke, cGen, cStep, dec, pGen>>
        /\ pending' = NoPending /\ pPrev' = None /\ confirmer' = None
    BY <1>2 DEF Confirm
  <2>2. Reached' /\ Credentials' /\ NonceRotatesOnce'
    BY <2>1 DEF TInv, Reached, Credentials, NonceRotatesOnce
  <2>3. Window' /\ PendingDecision' /\ Confirmable'
    BY <2>1 DEF Window, PendingDecision, Confirmable
  <2>4. Decided'
    BY <2>1 DEF TInv, Decided, Answered
  <2> QED
    BY <2>2, <2>3, <2>4 DEF TInv
<1> QED
  BY <1>1, <1>2 DEF Pump

THEOREM TokenStep == TInv /\ [Next]_vars => TInv'
<1> SUFFICES ASSUME TInv, [Next]_vars PROVE TInv'
  OBVIOUS
<1>0. IInv'
  BY Step DEF TInv
<1>1. CASE Break
  BY <1>0, <1>1, SameTokens DEF Break, requestVars, decisionVars, attemptVars, providerVars, ctlVars
<1>2. CASE UNCHANGED vars
  BY <1>0, <1>2, SameTokens DEF vars, requestVars, decisionVars, netVars, clientVars, attemptVars,
    providerVars, ctlVars
<1> QED
  BY <1>0, <1>1, <1>2, ClientTokensStep, AcceptTokens, ChannelTokens DEF Next

THEOREM TokensInductive == Spec => []TInv
BY TBase, TokenStep, PTL DEF Spec

\* The same request, however often it is repeated and whatever other campaigns
\* do in between, is never given two generations.
THEOREM RotatesOnce == Spec => []NonceRotatesOnce
<1>1. TInv => NonceRotatesOnce
  BY DEF TInv
<1> QED
  BY <1>1, TokensInductive, PTL

\* The provider lets the previous generation go only once the client has left
\* the generation from which the confirmed decision was made: a client whose
\* answer was lost can still come back with the token it has.
THEOREM ConfirmsLate == Spec => ConfirmedAfterRotation
<1>1. ASSUME TInv, [Next]_vars
      PROVE  [pPrev # None /\ pPrev' = None => cGen > pending.decision.from]_vars
  <2>1. CASE \E c \in Channels : Confirm(c)
    <3>1. PICK c \in Channels : Confirm(c)
      BY <2>1
    <3>2. confirmer = c /\ c # None /\ c \in spoke
      BY <3>1, BoundAssumption DEF Confirm, Channels, None
    <3>3. c \in Attempts /\ c # 0 /\ pending.decision.from = init[c].gen
      BY <1>1, <3>2, BoundAssumption DEF TInv, Confirmable, Attempts
    <3>4. init[c].gen < cGen /\ init[c].gen \in Nat /\ cGen \in Nat
      BY <1>1, <3>2, <3>3 DEF TInv, Credentials, IInv, Shapes
    <3> QED
      BY <3>3, <3>4
  <2>2. CASE ~\E c \in Channels : Confirm(c)
    <3>1. pPrev' = pPrev \/ pPrev' # None
      <4>1. CASE Break
        BY <4>1 DEF Break, providerVars, ctlVars
      <4>2. CASE Client
        BY <4>2 DEF Client, ResumeAttempt, ClientPumpEnds, StartCampaign, SendInit, CampaignFails,
          AttemptFails, TakeUnexpected, TakeOk, RefuseOk, TakeReject, ClientInstallBegin,
          ClientInstall, ClientInstallFails, ClientComplete, ClientCompleteRefused, BeginClose,
          FinishClose, ClientWatchdogChecks, ClientWatchdogFires, GiveUpTransport,
          providerVars, ctlVars
      <4>3. ASSUME NEW a \in Attempts, Decide(a) PROVE pPrev' # None
        BY <1>1, <4>3 DEF Decide, TInv, IInv, Shapes, None
      <4>4. ASSUME NEW a \in Attempts, AcceptResume(a), ~Decide(a) PROVE pPrev' = pPrev
        BY <4>4 DEF AcceptResume, Accept, DecideCached, DecideReject, Decides, InstallRefused,
          InstallBegin, InstallCommit, Installs, InstallAbandoned, Withdraw, Recheck,
          InstalledTooLate, SendOk, SendOkFails, Complete, ctlVars
      <4>5. ASSUME NEW c \in Channels, Pump(c) \/ Watchdog(c) PROVE pPrev' = pPrev
        BY <2>2, <4>5 DEF Pump, PumpStops, PumpEnds, Watchdog, WatchdogChecks, WatchdogFires,
          ctlVars
      <4>6. CASE UNCHANGED vars
        BY <4>6 DEF vars, providerVars, ctlVars
      <4> QED
        BY <1>1, <4>1, <4>2, <4>3, <4>4, <4>5, <4>6 DEF Next
    <3> QED
      BY <3>1
  <2> QED
    BY <2>1, <2>2
<1> QED
  BY <1>1, TokensInductive, PTL DEF Spec, ConfirmedAfterRotation

\* What both ends know of the token agrees at every time: the conjunction that
\* the run checks.
THEOREM TokensAlwaysAgree == Spec => TokensAgree
BY NeverRollsBack, RotatesOnce, ConfirmsLate DEF TokensAgree

=============================================================================
