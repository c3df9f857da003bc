--------------------------- MODULE ResumeControl ---------------------------
(***************************************************************************)
(* Who owns a continuity session's channel, and with which token: the      *)
(* RESUME handshake between one client and one provider.                   *)
(*                                                                         *)
(* Client: one campaign at a time (resume_in_flight), each with a nonce    *)
(* that its attempts share; an attempt sends RESUME_INIT on a transport of *)
(* its own.  Provider: each accept worker (one per serve_http, and one is  *)
(* never stopped) runs accept_any, an attempt at a time; the decision is   *)
(* made under the ResumeCtl lock, the channel changes under                *)
(* channel_transition, and RESUME_OK leaves some time after.               *)
(*                                                                         *)
(* Attempt a opens transport a, which becomes channel a on the side that   *)
(* installs it; channel 0 is the one SESSION_INIT made.  A channel stands  *)
(* for its owner number too: no transport is installed twice.  A token and *)
(* the lease of its decision are known by the generation, for every        *)
(* decision makes a new one.  Both ends number the connections alike.      *)
(* What flows on an installed channel is StreamDelivery's subject.         *)
(***************************************************************************)
EXTENDS Integers, FiniteSets

CONSTANTS
  MaxAttempts,  \* bound: RESUME attempts
  MaxEpoch,     \* bound: connections
  MaxTries,     \* CONVERGENCE_RETRY: attempts of one campaign
  Acceptors,    \* concurrent callers of accept_any for this peer
  MayClose,     \* bound: the client's user may call close()
  MayGiveUp     \* bound: RESUME_GIVEUP may pass

ASSUME BoundAssumption ==
  /\ MaxAttempts \in Nat /\ MaxEpoch \in Nat \ {0} /\ MaxTries \in Nat \ {0}
  /\ Acceptors \in Nat \ {0}
  /\ MayClose \in BOOLEAN /\ MayGiveUp \in BOOLEAN

Attempts == 1..MaxAttempts
Channels == 0..MaxAttempts

VARIABLES
  \* --- connections and transports
  epoch,      \* the current connection
  epochOf,    \* the connection a transport runs on
  alive,      \* transports that carry frames
  inbox,      \* attempts whose transport the provider has not yet accepted
  resp,       \* first answer on the current attempt's transport, or NoAnswer
  \* --- client
  cPhase,     \* SessionPhase
  cGen,       \* tokens.current
  cChan,      \* the installed channel
  cPump,      \* its pump: run, dead, or aborted by close()
  cWatch,     \* give-up watchdog of each channel: off, armed or firing
  closing,    \* close() was called
  campaign,   \* resume_in_flight
  nonce,      \* of the current or last campaign
  tries,      \* its attempts so far
  att,        \* attempts so far: the last one is the current one
  cStep,      \* where resume_attempt is
  init,       \* nonce and token of an attempt's RESUME_INIT
  spoke,      \* channels on which the client may have sent data or ACKs
  \* --- provider
  registered, \* the registry still has the session
  pClosing,   \* its own closing flag
  pPhase, pGen,
  pPrev,      \* generation of tokens.previous, or None
  pending,    \* ctl.pending, or NoPending
  confirmer,  \* ctl.confirmation_owner, or None
  pSeen,      \* last_seen_remote_epoch
  pChan,      \* the current channel and owner
  pump,       \* state of each channel's pump
  stopping,   \* channels whose pump was asked to stop
  pWatch,     \* give-up watchdog of each channel
  pc,         \* where accept_resume of an attempt is
  dec,        \* its decision
  transition  \* who holds channel_transition, or None

netVars == <<epoch, epochOf, alive, inbox>>
attemptVars == <<campaign, nonce, tries, att, init>>
clientVars == <<cPhase, cGen, cChan, cPump, cWatch, closing, attemptVars, cStep, spoke, resp>>
ctlVars == <<pGen, pPrev, pending, confirmer, pSeen>>
channelVars == <<pChan, pump, stopping, transition>>
providerVars == <<registered, pClosing, pPhase, ctlVars, channelVars, pWatch, pc, dec>>
vars == <<netVars, clientVars, providerVars>>

None == -1
NoAnswer == [type |-> "none", gen |-> 0, epoch |-> 0]
Ok(g, e) == [type |-> "OK", gen |-> g, epoch |-> e]
Reject   == [type |-> "REJECT", gen |-> 0, epoch |-> 0]

NoInit == [nonce |-> 0, gen |-> 0]
NoDecision == [nonce |-> 0, from |-> 0, gen |-> 0, epoch |-> 0, cached |-> FALSE]
NoPending == [decision |-> NoDecision, installed |-> FALSE]

Terminal == {"Dead", "Closed"}

Init ==
  /\ epoch = 1 /\ epochOf = [c \in Channels |-> IF c = 0 THEN 1 ELSE 0]
  /\ alive = {0} /\ inbox = {} /\ resp = NoAnswer
  /\ cPhase = "Active" /\ cGen = 1 /\ cChan = 0 /\ cPump = "run" /\ closing = FALSE
  /\ cWatch = [c \in Channels |-> "off"] /\ cStep = "idle"
  /\ campaign = FALSE /\ nonce = 0 /\ tries = 0 /\ att = 0
  /\ init = [a \in Attempts |-> NoInit] /\ spoke = {0}
  /\ registered = TRUE /\ pClosing = FALSE
  /\ pPhase = "Active" /\ pGen = 1 /\ pPrev = None /\ pending = NoPending
  /\ confirmer = None /\ pSeen = 1
  /\ pChan = 0 /\ stopping = {} /\ transition = None
  /\ pump = [c \in Channels |-> IF c = 0 THEN "run" ELSE "none"]
  /\ pWatch = [c \in Channels |-> "off"]
  /\ pc = [a \in Attempts |-> "none"] /\ dec = [a \in Attempts |-> NoDecision]

-----------------------------------------------------------------------------
(* Connections.                                                            *)

\* The connection breaks and the manager builds the next one.  Transports not
\* yet accepted are lost, and so may be the answer in flight.
Break ==
  /\ epoch < MaxEpoch
  /\ epoch' = epoch + 1
  /\ alive' = {}
  /\ inbox' = {}
  /\ resp' \in {resp, NoAnswer}
  /\ UNCHANGED <<epochOf, cPhase, cGen, cChan, cPump, cWatch, closing, attemptVars, cStep, spoke>>
  /\ UNCHANGED providerVars

\* Frame m is written on transport c.  A RESUME answer matters only as the
\* first frame that the current attempt reads.
Answers(c, m) ==
  resp' = IF c \in alive /\ c = att /\ cStep = "wait" /\ resp = NoAnswer THEN m ELSE resp

-----------------------------------------------------------------------------
(* Client: pump, watchdog, driver.                                         *)

\* The client's pump meets the end of its channel: the session is Recovering
\* and the watchdog armed.
ClientPumpEnds ==
  /\ cPump = "run" /\ cChan \notin alive
  /\ cPump' = "dead"
  /\ cPhase' = "Recovering"
  /\ cWatch' = [cWatch EXCEPT ![cChan] = "armed"]
  /\ UNCHANGED <<cGen, cChan, closing, attemptVars, cStep, spoke, resp>>
  /\ UNCHANGED <<netVars, providerVars>>

\* spawn_resume_giveup: the watchdog looks at owner and phase, ...
ClientWatchdogChecks(c) ==
  /\ MayGiveUp /\ cWatch[c] = "armed"
  /\ cWatch' = [cWatch EXCEPT ![c] = IF c = cChan /\ cPhase = "Recovering" THEN "firing" ELSE "off"]
  /\ UNCHANGED <<cPhase, cGen, cChan, cPump, closing, attemptVars, cStep, spoke, resp>>
  /\ UNCHANGED <<netVars, providerVars>>

\* ... and gives the session up in a critical section of its own.
ClientWatchdogFires(c) ==
  /\ cWatch[c] = "firing"
  /\ cWatch' = [cWatch EXCEPT ![c] = "off"]
  /\ cPhase' = "Dead"
  /\ UNCHANGED <<cGen, cChan, cPump, closing, attemptVars, cStep, spoke, resp>>
  /\ UNCHANGED <<netVars, providerVars>>

\* spawn_session_driver finds the session Recovering; resume starts a campaign.
StartCampaign ==
  /\ cPhase = "Recovering" /\ ~campaign /\ ~closing
  /\ att < MaxAttempts
  /\ campaign' = TRUE
  /\ nonce' = nonce + 1
  /\ tries' = 0
  /\ UNCHANGED <<att, init, cPhase, cGen, cChan, cPump, cWatch, closing, cStep, spoke, resp>>
  /\ UNCHANGED <<netVars, providerVars>>

\* resume_attempt: a transport on the current connection, and RESUME_INIT.
SendInit ==
  /\ campaign /\ cStep = "idle"
  /\ tries < MaxTries /\ att < MaxAttempts
  /\ att' = att + 1 /\ tries' = tries + 1
  /\ cStep' = "wait" /\ resp' = NoAnswer
  /\ init' = [init EXCEPT ![att'] = [nonce |-> nonce, gen |-> cGen]]
  /\ epochOf' = [epochOf EXCEPT ![att'] = epoch]
  /\ alive' = alive \cup {att'}
  /\ inbox' = inbox \cup {att'}
  /\ UNCHANGED <<epoch, campaign, nonce, cPhase, cGen, cChan, cPump, cWatch, closing, spoke>>
  /\ UNCHANGED providerVars

\* The last attempt of a campaign failed (or the bound is reached); the driver
\* may start another one.
CampaignFails ==
  /\ campaign /\ cStep = "idle"
  /\ tries = MaxTries \/ att = MaxAttempts
  /\ campaign' = FALSE
  /\ UNCHANGED <<nonce, tries, att, init, cPhase, cGen, cChan, cPump, cWatch, closing, cStep, spoke, resp>>
  /\ UNCHANGED <<netVars, providerVars>>

-----------------------------------------------------------------------------
(* Client: the answer to an attempt.                                       *)

\* The attempt is over and its transport closed.  goOn: the campaign is not.
GiveUpTransport(goOn) ==
  /\ cStep' = "idle"
  /\ campaign' = goOn
  /\ alive' = alive \ {att}
  /\ UNCHANGED <<epoch, epochOf, inbox, cGen, cChan, cWatch, closing, nonce, tries, att, init, spoke, resp>>
  /\ UNCHANGED providerVars

\* No answer: the transport ended, or HANDSHAKE_TIMEOUT.
AttemptFails ==
  /\ cStep = "wait"
  /\ GiveUpTransport(TRUE)
  /\ UNCHANGED <<cPhase, cPump>>

\* The first frame is another one, sent on the channel the provider has
\* already installed: the campaign is over.
TakeUnexpected ==
  /\ cStep = "wait" /\ att \in alive
  /\ resp = NoAnswer /\ pump[att] # "none"
  /\ GiveUpTransport(FALSE)
  /\ UNCHANGED <<cPhase, cPump>>

Acceptable == resp.type = "OK" /\ resp.epoch = epochOf[att] /\ resp.gen > cGen

\* Mutation: any RESUME_OK is taken, however old.
TakeAnyOk ==
  /\ cStep = "wait" /\ resp.type = "OK"
  /\ cGen' = resp.gen
  /\ cStep' = "rotated"
  /\ UNCHANGED <<cPhase, cChan, cPump, cWatch, closing, attemptVars, spoke, resp>>
  /\ UNCHANGED <<netVars, providerVars>>

\* RESUME_OK for this connection and a newer generation: rotate_token.
TakeOk ==
  /\ cStep = "wait" /\ Acceptable
  /\ cGen' = resp.gen
  /\ cStep' = "rotated"
  /\ UNCHANGED <<cPhase, cChan, cPump, cWatch, closing, attemptVars, spoke, resp>>
  /\ UNCHANGED <<netVars, providerVars>>

\* A RESUME_OK of another connection or an old generation: only this transport
\* is closed, and the attempt succeeds if the session is Active already.
RefuseOk ==
  /\ cStep = "wait" /\ resp.type = "OK" /\ ~Acceptable
  /\ GiveUpTransport(cPhase # "Active")
  /\ UNCHANGED <<cPhase, cPump>>

\* RESUME_REJECT ends the campaign, and the session unless it was resumed
\* meanwhile.
TakeReject ==
  /\ cStep = "wait" /\ resp.type = "REJECT"
  /\ GiveUpTransport(FALSE)
  /\ cPhase' = IF cGen = init[att].gen /\ cPhase # "Active" THEN "Dead" ELSE cPhase
  /\ UNCHANGED cPump

\* install_channel on the client: the checks, and the old pump asked to stop.
ClientInstallBegin ==
  /\ cStep = "rotated"
  /\ ~closing /\ cPhase \notin Terminal
  /\ cStep' = "installing"
  /\ cPump' = IF cPump = "run" THEN "dead" ELSE cPump
  /\ UNCHANGED <<cPhase, cGen, cChan, cWatch, closing, attemptVars, spoke, resp>>
  /\ UNCHANGED <<netVars, providerVars>>

\* The transport becomes the channel, with a pump of its own.
ClientInstall ==
  /\ cStep = "installing" /\ cPump = "dead"
  /\ cStep' = "installed"
  /\ cChan' = att /\ cPump' = "run"
  /\ alive' = alive \ {cChan}
  /\ spoke' = spoke \cup {att}
  /\ UNCHANGED <<epoch, epochOf, inbox, cPhase, cGen, cWatch, closing, attemptVars, resp>>
  /\ UNCHANGED providerVars

\* The installation is refused: close() is under way or the session is over,
\* or the old pump, aborted by close(), never reports its end.
ClientInstallFails ==
  /\ \/ cStep = "rotated" /\ (closing \/ cPhase \in Terminal)
     \/ cStep = "installing" /\ cPump = "aborted"
  /\ GiveUpTransport(cPhase # "Active")
  /\ UNCHANGED <<cPhase, cPump>>

\* complete_resume_install_checked, then OPENs, segments and FINs are sent
\* again; with something to send on a dead channel the attempt fails, with
\* nothing to send nobody looks at the channel any more.
ClientComplete ==
  /\ cStep = "installed"
  /\ ~closing /\ cPhase \in {"Active", "Recovering"}
  /\ cPhase' = "Active"
  /\ cStep' = "idle"
  /\ campaign' \in (IF cChan \in alive THEN {FALSE} ELSE BOOLEAN)
  /\ UNCHANGED <<nonce, tries, att, init, cGen, cChan, cPump, cWatch, closing, spoke, resp>>
  /\ UNCHANGED <<netVars, providerVars>>

\* The same, refused: the new channel is terminated again.
ClientCompleteRefused ==
  /\ cStep = "installed"
  /\ closing \/ cPhase \in Terminal
  /\ GiveUpTransport(TRUE)
  /\ cPump' \in {cPump, "dead"}
  /\ UNCHANGED cPhase

\* Session::close: the flag first and the pump aborted, ...
BeginClose ==
  /\ MayClose /\ ~closing
  /\ closing' = TRUE
  /\ cPump' = IF cPump = "run" THEN "aborted" ELSE cPump
  /\ UNCHANGED <<cPhase, cGen, cChan, cWatch, attemptVars, cStep, spoke, resp>>
  /\ UNCHANGED <<netVars, providerVars>>

\* ... then, under the transition lock, the channel, and the phase.  A pump
\* that was installed meanwhile may see the end before the stop request.
FinishClose ==
  /\ closing /\ cPhase # "Closed" /\ cStep # "installing"
  /\ cPhase' = "Closed"
  /\ cPump' \in {cPump, "dead"}
  /\ alive' = alive \ {cChan}
  /\ UNCHANGED <<epoch, epochOf, inbox, cGen, cChan, cWatch, closing, attemptVars, cStep, spoke, resp>>
  /\ UNCHANGED providerVars

-----------------------------------------------------------------------------
(* Provider: accept_resume, the decision.                                  *)

Known(g) == g = pGen \/ g = pPrev

\* The pending decision was made for this very request.
IsRetry(a) ==
  /\ pending # NoPending
  /\ pending.decision.nonce = init[a].nonce
  /\ pending.decision.from = init[a].gen
  /\ pending.decision.epoch = epochOf[a]

Accepting == {a \in Attempts : pc[a] \notin {"none", "done"}}

\* accept_any: an idle worker accepts the next transport of the connection and
\* reads its RESUME_INIT.
Accept(a) ==
  /\ a \in inbox /\ \A b \in inbox : a <= b
  /\ Cardinality(Accepting) < Acceptors
  /\ inbox' = inbox \ {a}
  /\ pc' = [pc EXCEPT ![a] = "read"]
  /\ UNCHANGED <<epoch, epochOf, alive, clientVars>>
  /\ UNCHANGED <<registered, pClosing, pPhase, ctlVars, channelVars, pWatch, dec>>

\* What the decision leaves alone.
Decides(a) ==
  /\ pc[a] = "read"
  /\ UNCHANGED <<netVars, cPhase, cGen, cChan, cPump, cWatch, closing, attemptVars, cStep, spoke>>
  /\ UNCHANGED <<pClosing, pPhase, channelVars, pWatch>>

\* Mutation: a repeated request rotates the token again.
DecideTwice(a) ==
  /\ Decides(a)
  /\ registered /\ pPhase \notin Terminal
  /\ Known(init[a].gen) /\ epochOf[a] >= pSeen
  /\ pGen' = pGen + 1 /\ pPrev' = pGen
  /\ dec' = [dec EXCEPT ![a] = [nonce |-> init[a].nonce, from |-> init[a].gen, gen |-> pGen',
                                epoch |-> epochOf[a], cached |-> FALSE]]
  /\ pending' = [decision |-> dec'[a], installed |-> FALSE]
  /\ pSeen' = epochOf[a] /\ confirmer' = None
  /\ pc' = [pc EXCEPT ![a] = "decided"]
  /\ UNCHANGED <<registered, resp>>

\* decide_resume_with_epoch: the first request of its kind with a token of the
\* window rotates it, and supersedes the decision before.
Decide(a) ==
  /\ Decides(a)
  /\ registered /\ pPhase \notin Terminal
  /\ Known(init[a].gen) /\ ~IsRetry(a) /\ epochOf[a] >= pSeen
  /\ pGen' = pGen + 1
  /\ pPrev' = pGen
  /\ dec' = [dec EXCEPT ![a] = [nonce |-> init[a].nonce, from |-> init[a].gen, gen |-> pGen',
                                epoch |-> epochOf[a], cached |-> FALSE]]
  /\ pending' = [decision |-> dec'[a], installed |-> FALSE]
  /\ pSeen' = epochOf[a]
  /\ confirmer' = None
  /\ pc' = [pc EXCEPT ![a] = "decided"]
  /\ UNCHANGED <<registered, resp>>

\* The same for a retry: the decision is repeated, not made again.
DecideCached(a) ==
  /\ Decides(a)
  /\ registered /\ pPhase \notin Terminal
  /\ Known(init[a].gen) /\ IsRetry(a)
  /\ dec' = [dec EXCEPT ![a] = [pending.decision EXCEPT !.cached = TRUE]]
  /\ pc' = [pc EXCEPT ![a] = "decided"]
  /\ UNCHANGED <<registered, resp, ctlVars>>

\* The session is gone (a terminal one leaves the registry now), the token
\* unknown or the connection outdated.
DecideReject(a) ==
  /\ Decides(a)
  /\ \/ ~registered \/ pPhase \in Terminal
     \/ ~Known(init[a].gen)
     \/ ~IsRetry(a) /\ epochOf[a] < pSeen
  /\ registered' = (registered /\ pPhase \notin Terminal)
  /\ Answers(a, Reject)
  /\ pc' = [pc EXCEPT ![a] = "done"]
  /\ UNCHANGED <<ctlVars, dec>>

-----------------------------------------------------------------------------
(* Provider: install_channel.                                              *)

\* The decision is the pending one, and not yet installed unless repeated.
StillPending(a) ==
  /\ pending # NoPending
  /\ pending.decision = [dec[a] EXCEPT !.cached = FALSE]
  /\ dec[a].cached \/ ~pending.installed

Over == pClosing \/ pPhase \in Terminal
Vacant == pump[pChan] = "dead"

\* The candidate's send half is finished: for the client, its transport ends.
Withdraw(a) ==
  /\ alive' = alive \ {a}
  /\ pc' = [pc EXCEPT ![a] = "done"]
  /\ UNCHANGED <<epoch, epochOf, inbox, clientVars>>
  /\ UNCHANGED <<registered, pClosing, pPhase, ctlVars, pWatch, dec, pChan, pump, stopping>>

\* The lock is taken, and the checks before anything is touched fail.
InstallRefused(a) ==
  /\ pc[a] = "decided" /\ transition = None
  /\ \/ Over
     \/ ~StillPending(a)
     \/ dec[a].cached /\ ~Vacant
  /\ Withdraw(a)
  /\ UNCHANGED transition

\* They hold: the old pump is asked to stop, and the lock kept meanwhile.
InstallBegin(a) ==
  /\ pc[a] = "decided" /\ transition = None
  /\ ~Over /\ StillPending(a)
  /\ dec[a].cached => Vacant
  /\ transition' = a
  /\ stopping' = stopping \cup {pChan}
  /\ pc' = [pc EXCEPT ![a] = "stopping"]
  /\ UNCHANGED <<pChan, pump>>
  /\ UNCHANGED <<netVars, clientVars, registered, pClosing, pPhase, ctlVars, pWatch, dec>>

\* Channel a gets the next owner number, and its pump runs at once.
Installs(a) ==
  /\ pChan' = a
  /\ pump' = [pump EXCEPT ![a] = "run"]
  /\ transition' = None
  /\ pending' = [pending EXCEPT !.installed = TRUE]
  /\ confirmer' = IF pPrev # None THEN a ELSE confirmer
  /\ pc' = [pc EXCEPT ![a] = "installed"]
  /\ UNCHANGED <<netVars, clientVars, registered, pClosing, pPhase>>
  /\ UNCHANGED <<pGen, pPrev, pSeen, stopping, pWatch, dec>>

\* Mutation: the owner changes without waiting for the old pump.
InstallCommitNoWait(a) ==
  /\ pc[a] = "stopping" /\ StillPending(a)
  /\ Installs(a)

\* Mutation: the decision is not looked at again after the wait.
InstallCommitNoRecheck(a) ==
  /\ pc[a] = "stopping" /\ Vacant
  /\ Installs(a)

\* The old pump has ended and the decision still stands.
InstallCommit(a) ==
  /\ pc[a] = "stopping"
  /\ Vacant /\ StillPending(a)
  /\ Installs(a)

\* The old pump did not end in time, or the decision was superseded meanwhile.
InstallAbandoned(a) ==
  /\ pc[a] = "stopping"
  /\ ~Vacant \/ ~StillPending(a)
  /\ transition' = None
  /\ Withdraw(a)

-----------------------------------------------------------------------------
(* Provider: accept_resume after the installation.                         *)

\* The session still belongs to its peer and is not over.
Recheck(a) ==
  /\ pc[a] = "installed"
  /\ registered /\ ~Over
  /\ pc' = [pc EXCEPT ![a] = "checked"]
  /\ UNCHANGED <<netVars, clientVars, registered, pClosing, pPhase, ctlVars, channelVars, pWatch, dec>>

\* It is over by now: the task closes it for good.  Only a pump of its own is
\* aborted; another task's sees the stop request, or the end.
InstalledTooLate(a) ==
  /\ pc[a] = "installed" /\ transition = None
  /\ ~registered \/ Over
  /\ registered' = FALSE
  /\ pClosing' = TRUE /\ pPhase' = "Closed"
  /\ pump' = IF pChan = a THEN [pump EXCEPT ![a] = "dead"] ELSE pump
  /\ stopping' = stopping \cup {pChan}
  /\ alive' = alive \ {pChan}
  /\ pc' = [pc EXCEPT ![a] = "done"]
  /\ UNCHANGED <<epoch, epochOf, inbox, clientVars, ctlVars, pChan, transition, pWatch, dec>>

\* RESUME_OK is sent on session.channel(), which is the CURRENT channel: by
\* now perhaps that of a later decision.  On a dead connection that has not
\* been noticed it is lost.
SendOk(a) ==
  /\ pc[a] = "checked" /\ pChan \notin stopping
  /\ Answers(pChan, Ok(dec[a].gen, epochOf[a]))
  /\ pc' = [pc EXCEPT ![a] = "sent"]
  /\ UNCHANGED <<netVars, cPhase, cGen, cChan, cPump, cWatch, closing, attemptVars, cStep, spoke>>
  /\ UNCHANGED <<registered, pClosing, pPhase, ctlVars, channelVars, pWatch, dec>>

\* Sending fails; the current owner's session falls back to Recovering.
SendOkFails(a) ==
  /\ pc[a] = "checked"
  /\ pChan \in stopping \/ pChan \notin alive
  /\ pPhase' = IF pPhase = "Active" THEN "Recovering" ELSE pPhase
  /\ pc' = [pc EXCEPT ![a] = "done"]
  /\ UNCHANGED <<netVars, clientVars, registered, pClosing, ctlVars, channelVars, pWatch, dec>>

\* complete_resume_install: Active, unless the session is over.
Complete(a) ==
  /\ pc[a] = "sent"
  /\ pPhase' = IF ~pClosing /\ pPhase \in {"Active", "Recovering"} THEN "Active" ELSE pPhase
  /\ pc' = [pc EXCEPT ![a] = "done"]
  /\ UNCHANGED <<netVars, clientVars, registered, pClosing, ctlVars, channelVars, pWatch, dec>>

-----------------------------------------------------------------------------
(* Provider: pumps, confirmation, watchdog.                                *)

\* A pump that was asked to stop leaves without a word.
PumpStops(c) ==
  /\ pump[c] = "run" /\ c \in stopping
  /\ pump' = [pump EXCEPT ![c] = "dead"]
  /\ UNCHANGED <<pChan, stopping, transition>>
  /\ UNCHANGED <<netVars, clientVars, registered, pClosing, pPhase, ctlVars, pWatch, pc, dec>>

\* A pump whose transport ends: the current one's session is Recovering, and
\* its watchdog armed.
PumpEnds(c) ==
  /\ pump[c] = "run" /\ c \notin alive
  /\ pump' = [pump EXCEPT ![c] = "dead"]
  /\ IF c = pChan
     THEN pPhase' = "Recovering" /\ pWatch' = [pWatch EXCEPT ![c] = "armed"]
     ELSE UNCHANGED <<pPhase, pWatch>>
  /\ UNCHANGED <<pChan, stopping, transition>>
  /\ UNCHANGED <<netVars, clientVars, registered, pClosing, ctlVars, pc, dec>>

\* Mutation: any channel's frame confirms the new generation.
ConfirmAnyOwner(c) ==
  /\ pump[c] = "run" /\ c = pChan /\ c \in spoke
  /\ pPrev # None
  /\ pending' = NoPending /\ pPrev' = None /\ confirmer' = None
  /\ UNCHANGED <<pGen, pSeen>>
  /\ UNCHANGED <<netVars, clientVars, registered, pClosing, pPhase, channelVars, pWatch, pc, dec>>

\* note_confirmed: the pump of the current owner, if the confirmation is its
\* to give, delivers a DATA or takes an ACK from the client.
Confirm(c) ==
  /\ pump[c] = "run" /\ c = pChan /\ c \in spoke
  /\ pPrev # None /\ confirmer = c
  /\ pending' = NoPending
  /\ pPrev' = None
  /\ confirmer' = None
  /\ UNCHANGED <<pGen, pSeen>>
  /\ UNCHANGED <<netVars, clientVars, registered, pClosing, pPhase, channelVars, pWatch, pc, dec>>

\* spawn_resume_giveup: after its time the watchdog looks at owner and phase, ...
WatchdogChecks(c) ==
  /\ MayGiveUp /\ pWatch[c] = "armed"
  /\ pWatch' = [pWatch EXCEPT ![c] = IF c = pChan /\ pPhase = "Recovering" THEN "firing" ELSE "off"]
  /\ UNCHANGED <<netVars, clientVars, registered, pClosing, pPhase, ctlVars, channelVars, pc, dec>>

\* ... and in a separate critical section gives the session up.
WatchdogFires(c) ==
  /\ pWatch[c] = "firing"
  /\ pWatch' = [pWatch EXCEPT ![c] = "off"]
  /\ pPhase' = "Dead"
  /\ UNCHANGED <<netVars, clientVars, registered, pClosing, ctlVars, channelVars, pc, dec>>

-----------------------------------------------------------------------------
ResumeAttempt ==
  \/ SendInit \/ CampaignFails \/ AttemptFails \/ TakeUnexpected
  \/ TakeOk \/ RefuseOk \/ TakeReject
  \/ ClientInstallBegin \/ ClientInstall \/ ClientInstallFails
  \/ ClientComplete \/ ClientCompleteRefused

Client ==
  \/ ClientPumpEnds \/ StartCampaign \/ ResumeAttempt \/ BeginClose \/ FinishClose
  \/ \E c \in Channels : ClientWatchdogChecks(c) \/ ClientWatchdogFires(c)

AcceptResume(a) ==
  \/ Accept(a) \/ Decide(a) \/ DecideCached(a) \/ DecideReject(a)
  \/ InstallRefused(a) \/ InstallBegin(a) \/ InstallCommit(a) \/ InstallAbandoned(a)
  \/ Recheck(a) \/ InstalledTooLate(a) \/ SendOk(a) \/ SendOkFails(a) \/ Complete(a)

Pump(c) == PumpStops(c) \/ PumpEnds(c) \/ Confirm(c)

Watchdog(c) == WatchdogChecks(c) \/ WatchdogFires(c)

Next ==
  \/ Break
  \/ Client
  \/ \E a \in Attempts : AcceptResume(a)
  \/ \E c \in Channels : Pump(c) \/ Watchdog(c)

Spec == Init /\ [][Next]_vars

\* The tasks run: tokio schedules what is ready, every wait of an attempt has
\* a timeout, and so has the wait for the old pump.  Nothing is assumed of the
\* pumps, the network or the watchdogs.
FairSpec ==
  /\ Spec
  /\ WF_vars(ResumeAttempt)
  /\ \A a \in Attempts : WF_vars(InstallCommit(a) \/ InstallAbandoned(a))

-----------------------------------------------------------------------------
(* Properties.                                                             *)

Phases == {"Active", "Recovering", "Dead", "Closed"}
Decisions == [nonce : Nat, from : Nat, gen : Nat, epoch : 0..MaxEpoch, cached : BOOLEAN]
Watch == [Channels -> {"off", "armed", "firing"}]

\* Every variable has its type; in particular a campaign keeps to its number
\* of attempts (CONVERGENCE_RETRY in resume_session).
TypeOK ==
  /\ epoch \in 1..MaxEpoch /\ epochOf \in [Channels -> 0..MaxEpoch]
  /\ alive \subseteq Channels /\ inbox \subseteq Attempts
  /\ resp \in [type : {"none", "OK", "REJECT"}, gen : Nat, epoch : 0..MaxEpoch]
  /\ cPhase \in Phases /\ cGen \in Nat /\ cChan \in Channels
  /\ cPump \in {"run", "dead", "aborted"} /\ cWatch \in Watch
  /\ closing \in BOOLEAN /\ campaign \in BOOLEAN /\ nonce \in Nat
  /\ tries \in 0..MaxTries /\ att \in 0..MaxAttempts
  /\ cStep \in {"idle", "wait", "rotated", "installing", "installed"}
  /\ init \in [Attempts -> [nonce : Nat, gen : Nat]]
  /\ spoke \subseteq Channels
  /\ registered \in BOOLEAN /\ pClosing \in BOOLEAN
  /\ pPhase \in Phases /\ pGen \in Nat /\ pPrev \in Nat \cup {None}
  /\ pending \in [decision : Decisions, installed : BOOLEAN]
  /\ confirmer \in Channels \cup {None} /\ pSeen \in 1..MaxEpoch
  /\ pChan \in Channels /\ transition \in Attempts \cup {None}
  /\ pump \in [Channels -> {"none", "run", "dead"}]
  /\ stopping \subseteq Channels /\ pWatch \in Watch
  /\ pc \in [Attempts -> {"none", "read", "decided", "stopping", "installed", "checked", "sent", "done"}]
  /\ dec \in [Attempts -> Decisions]

\* However many accept_resume tasks install channels at once, one pump commits
\* frames, and it is the current channel's (channel_transition, wait_stopped).
OnePump == \A c \in Channels : pump[c] = "run" => c = pChan

\* A channel is installed for the newest decision only: a task whose decision
\* was superseded while it waited for the old pump leaves the newer owner alone.
NewestDecisionOwns == [][pChan' # pChan => dec[pChan'].gen = pGen]_vars

\* The same request, repeated by a retry of its campaign, gets the same
\* generation, whatever other campaigns did in between (ctl.pending).
NonceRotatesOnce ==
  \A a, b \in Attempts :
    (/\ dec[a] # NoDecision /\ dec[b] # NoDecision
     /\ init[a] = init[b] /\ epochOf[a] = epochOf[b])
    => dec[a].gen = dec[b].gen

\* A late RESUME_OK of an earlier attempt, even one that comes in on a newer
\* attempt's transport, never moves the client's credentials back.
ClientNeverRollsBack == [][cGen' >= cGen]_vars

\* The provider lets the previous generation go only after the client has left
\* the generation from which the decision to confirm was made (note_confirmed).
ConfirmedAfterRotation ==
  [][pPrev # None /\ pPrev' = None => cGen > pending.decision.from]_vars

\* The generations of both ends agree: the client's only grows, a request that
\* is repeated keeps its own, and the provider forgets none that the client may
\* still hold (rotate_token, decide_resume_with_epoch, note_confirmed).
TokensAgree ==
  /\ ClientNeverRollsBack
  /\ []NonceRotatesOnce
  /\ ConfirmedAfterRotation

\* A resume that completes late makes neither a client that is being closed nor
\* an end that is over Active again (complete_resume_install_checked).
LateResumeRevivesNobody ==
  [][/\ (closing \/ cPhase \in Terminal) => (cPhase' # "Active" \/ cPhase' = cPhase)
     /\ Over => pPhase' # "Active"]_vars

\* Every campaign ends and gives resume_in_flight back, so that the driver can
\* try again.
CampaignEnds == campaign ~> ~campaign

\* channel_transition is not kept for ever, even if a pump does not stop.
TransitionIsReleased == \A a \in Attempts : transition = a ~> transition # a

-----------------------------------------------------------------------------
(* What the documents say and the code does not do.                        *)

\* While the provider's session lives and no answer can come any more, the
\* client's token is in the window: it can still resume.
TokenStaysUsable == registered /\ ~Over /\ cStep = "idle" => Known(cGen)

\* Once the window has been confirmed, the client holds the generation that
\* it was confirmed for.
ConfirmedIsHeld == pGen > 1 /\ pPrev = None => cGen = pGen

\* A client session that is Active and not being resumed has a running pump,
\* so that the end of its channel will be noticed.
ActiveMeansAlive == cPhase = "Active" /\ ~campaign /\ ~closing => cPump = "run"

\* The watchdog gives up sessions that are Recovering, never one that has been
\* resumed.
WatchdogSparesTheResumed == [][pPhase = "Active" => pPhase' # "Dead"]_vars

=============================================================================
