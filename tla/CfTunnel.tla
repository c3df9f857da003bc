------------------------------ MODULE CfTunnel ------------------------------
(***************************************************************************)
(* The Cloudflare plugin: the cloudflared process that lives with the      *)
(* server, and the runs that set up tunnel, ingress, DNS records and the   *)
(* local configuration.  packages/opendweb-ext-cf/src: connector.ts,       *)
(* provision.ts, route-model.ts, cf-client.ts, auth.ts, tui.ts, cli.ts,    *)
(* index.ts.                                                               *)
(*                                                                         *)
(* One gateway host and its relay host in one zone.  Cloudflare keeps the  *)
(* tunnel named for the gateway ("ours"), another one ("old"), each with   *)
(* its ingress rules and its other settings, and the DNS records.  A       *)
(* refresh token is a number; using it replaces it by a new one.           *)
(***************************************************************************)
EXTENDS Naturals, FiniteSets, Sequences

CONSTANTS Starts,   \* calls of spawnCloudflared (postReady)
          MaxKids,  \* bound: startups ever begun
          Runs, Plans, \* setups ever begun; the kinds, modes and tunnels they may take
          MaxCfFaults, \* bound: calls that fail, processes that die by themselves
          MaxForeign,  \* bound: changes somebody else makes at Cloudflare
          MaxTokens    \* bound: refresh tokens Cloudflare issues

Kids == 1..MaxKids

VARIABLES
  tunnelStart, tunnelChild, \* the startup in progress, the active child; 0: none
  tunnelStopAll, \* "no", "pending" (waits for a startup's child), "active" (for the active one)
  stopping,  \* the child waited for
  kid,       \* startup -> its process and what is settled about it
  begun,     \* startups begun
  waits, ask, \* call -> the startup it shares (0: none), its outcome
  tunnels,   \* id -> [ingress, rest]; NoTunnel: there is none
  dns,       \* host -> what its record points to
  valid, issued, saved, \* refresh tokens Cloudflare takes, their number; the one on disk (0: none)
  run,       \* setup -> its state
  said,      \* <<host, content>>: records a user has agreed to replace
  file,      \* the local configuration: "none", or what it says
  foreign, cfFaults

kidVars == <<tunnelStart, tunnelChild, tunnelStopAll, stopping, kid, begun, waits, ask>>
cloudVars == <<tunnels, dns, valid, issued, saved, run, said, file, foreign>>
cfVars == <<kidVars, cloudVars, cfFaults>>

Ids == {"ours", "old"}
ASSUME CfAssumption ==
  /\ MaxKids \in Nat
  /\ Plans \subseteq [kind : {"flags", "wizard"}, mode : {"single", "dual"}, dry : BOOLEAN, id : Ids]

Hosts == {"gateway", "relay"}
NoTunnel == [ingress |-> "absent", rest |-> 0]
NoKid == [proc |-> "none", settled |-> FALSE, stopping |-> FALSE, grace |-> FALSE, told |-> FALSE]
NoRun == [step |-> "idle", kind |-> "flags", mode |-> "dual", dry |-> FALSE, how |-> "auto", id |-> "ours",
          had |-> NoTunnel, left |-> <<>>, rec |-> "none", token |-> 0, clean |-> TRUE]

CfInit ==
  /\ tunnelStart = 0 /\ tunnelChild = 0 /\ tunnelStopAll = "no" /\ stopping = 0
  /\ kid = [k \in Kids |-> NoKid] /\ begun = 0
  /\ waits = [c \in Starts |-> 0] /\ ask = [c \in Starts |-> "none"]
  /\ tunnels = [i \in Ids |-> IF i = "old" THEN [ingress |-> "theirs", rest |-> 1] ELSE NoTunnel]
  /\ dns \in [Hosts -> {"none", "elsewhere"}]
  /\ valid = {1} /\ issued = 1 /\ saved = 1
  /\ run = [r \in Runs |-> NoRun]
  /\ said = {} /\ file = "none" /\ foreign = 0 /\ cfFaults = 0

Fault == cfFaults < MaxCfFaults /\ cfFaults' = cfFaults + 1

(***************************************************************************)
(* connector.ts.  A process is "resolving" (its program is looked for),    *)
(* "asked" (spawn has returned), "up", "dead", or "unborn" (it could not   *)
(* be started); `told' once its exit or error was dispatched.              *)
(***************************************************************************)
Exited(k) == kid[k].proc = "dead"
\* No child lives; the exit of one may not have been told yet.
NoChild == \A k \in Kids : k = tunnelChild => Exited(k)
Alive(k) == kid[k].proc \in {"asked", "up"}
Rejects(k, out) ==
  /\ waits' = [c \in Starts |-> IF waits[c] = k THEN 0 ELSE waits[c]]
  /\ ask' = [c \in Starts |-> IF waits[c] = k THEN out ELSE ask[c]]

\* spawnCloudflared: refused while a stop is in progress; it shares the
\* startup in progress, and has nothing to do when a child lives.
MayStart == tunnelStopAll = "no"
spawnCloudflared(c) ==
  /\ waits[c] = 0
  /\ \/ /\ MayStart => tunnelStart = 0 /\ ~NoChild
        /\ ask' = [ask EXCEPT ![c] = IF MayStart THEN "ok" ELSE "failed"]
        /\ UNCHANGED <<tunnelStart, tunnelChild, kid, begun, waits>>
     \/ /\ MayStart /\ tunnelStart # 0
        /\ waits' = [waits EXCEPT ![c] = tunnelStart] /\ ask' = [ask EXCEPT ![c] = "none"]
        /\ UNCHANGED <<tunnelStart, tunnelChild, kid, begun>>
     \/ /\ MayStart /\ tunnelStart = 0 /\ NoChild /\ begun < MaxKids
        /\ begun' = begun + 1 /\ tunnelStart' = begun + 1 /\ tunnelChild' = 0
        /\ kid' = [kid EXCEPT ![begun + 1].proc = "resolving"]
        /\ waits' = [waits EXCEPT ![c] = begun + 1] /\ ask' = [ask EXCEPT ![c] = "none"]
  /\ UNCHANGED <<tunnelStopAll, stopping, cloudVars, cfFaults>>

\* fail: the first verdict on a startup counts.
fail(k, proc, told) ==
  /\ kid' = [kid EXCEPT ![k].proc = proc, ![k].settled = TRUE, ![k].told = told]
  /\ IF kid[k].settled THEN UNCHANGED <<tunnelStart, waits, ask>>
     ELSE tunnelStart' = (IF tunnelStart = k THEN 0 ELSE tunnelStart) /\ Rejects(k, "failed")

\* Mutant: what happened while the program was looked for is not asked again.
MutHalted(k) == FALSE
\* resolveBin, ensureCloudflaredBin: found or installed, after minutes at worst.
Halted(k) == tunnelStopAll # "no" \/ kid[k].stopping
Resolved(k) ==
  /\ kid[k].proc = "resolving"
  /\ IF Halted(k) THEN fail(k, "unborn", TRUE)
     ELSE kid' = [kid EXCEPT ![k].proc = "asked"] /\ UNCHANGED <<tunnelStart, waits, ask>>
  /\ UNCHANGED <<tunnelChild, tunnelStopAll, stopping, begun, cloudVars, cfFaults>>
NotResolved(k) ==
  /\ kid[k].proc \in {"resolving", "asked"} /\ Fault
  /\ fail(k, "unborn", TRUE)
  /\ UNCHANGED <<tunnelChild, tunnelStopAll, stopping, begun, cloudVars>>
Spawned(k) ==
  /\ kid[k].proc = "asked"
  /\ kid' = [kid EXCEPT ![k].proc = "up", ![k].grace = ~kid[k].settled /\ ~kid[k].stopping]
  /\ UNCHANGED <<tunnelStart, tunnelChild, tunnelStopAll, stopping, begun, waits, ask, cloudVars, cfFaults>>

\* The process ends; its exit is told later.
Dies(k) ==
  /\ kid[k].proc = "up" /\ IF stopping = k THEN UNCHANGED cfFaults ELSE Fault
  /\ kid' = [kid EXCEPT ![k].proc = "dead"]
  /\ UNCHANGED <<tunnelStart, tunnelChild, tunnelStopAll, stopping, begun, waits, ask, cloudVars>>
\* The exit event: a startup failed, or the watchdog of the active child.
ExitTold(k) ==
  /\ Exited(k) /\ ~kid[k].told
  /\ fail(k, "dead", TRUE)
  /\ tunnelChild' = IF tunnelChild = k THEN 0 ELSE tunnelChild
  /\ UNCHANGED <<tunnelStopAll, stopping, begun, cloudVars, cfFaults>>
\* The 50 ms poll sees the exit first; the end of the grace period otherwise
\* makes the child the active one.
GraceEnds(k) ==
  /\ kid[k].grace /\ ~kid[k].settled /\ ~kid[k].stopping
  /\ IF Exited(k) THEN fail(k, "dead", FALSE) /\ UNCHANGED tunnelChild
     ELSE /\ kid' = [kid EXCEPT ![k].settled = TRUE]
          /\ tunnelStart' = (IF tunnelStart = k THEN 0 ELSE tunnelStart) /\ tunnelChild' = k
          /\ Rejects(k, "ok")
  /\ UNCHANGED <<tunnelStopAll, stopping, begun, cloudVars, cfFaults>>

\* stopCloudflared: the startup in progress is rejected and its child waited
\* for, then the active child; SIGINT, and SIGKILL after five seconds.
stopCloudflared ==
  /\ tunnelStopAll = "no"
  /\ IF tunnelStart # 0
     THEN /\ tunnelStopAll' = "pending" /\ stopping' = tunnelStart /\ tunnelStart' = 0
          /\ kid' = [kid EXCEPT ![tunnelStart].stopping = TRUE, ![tunnelStart].settled = TRUE]
          /\ Rejects(tunnelStart, "failed") /\ UNCHANGED tunnelChild
     ELSE /\ tunnelStopAll' = "active" /\ stopping' = tunnelChild /\ tunnelChild' = 0
          /\ UNCHANGED <<tunnelStart, kid, waits, ask>>
  /\ UNCHANGED <<begun, cloudVars, cfFaults>>
Waited == \A k \in Kids : k = stopping => ~Alive(k)
Stopped ==
  /\ tunnelStopAll # "no" /\ Waited
  /\ IF tunnelStopAll = "pending"
     THEN tunnelStopAll' = "active" /\ stopping' = tunnelChild /\ tunnelChild' = 0
     ELSE tunnelStopAll' = "no" /\ stopping' = 0 /\ UNCHANGED tunnelChild
  /\ UNCHANGED <<tunnelStart, kid, begun, waits, ask, cloudVars, cfFaults>>

ConnectorNext ==
  \/ \E c \in Starts : spawnCloudflared(c)
  \/ \E k \in Kids : Resolved(k) \/ NotResolved(k) \/ Spawned(k) \/ Dies(k) \/ ExitTold(k) \/ GraceEnds(k)
  \/ stopCloudflared \/ Stopped

(***************************************************************************)
(* The setups: cli.ts and the setup hook ("flags"), tui.ts ("wizard").     *)
(***************************************************************************)
Busy(r) == run[r].step \notin {"idle", "ok", "failed"}
Same(r, q) == run[r].mode = q.mode /\ run[r].id = q.id
Move(r, step) ==
  run' = [run EXCEPT ![r] = IF step \in {"idle", "ok", "failed"} THEN [NoRun EXCEPT !.step = step, !.dry = run[r].dry, !.kind = run[r].kind] ELSE [@ EXCEPT !.step = step]]

\* The command, or the hook; the wizard starts with the credentials.  A
\* plan of its own disturbs the setups in progress.
Begin(r) ==
  /\ run[r] = NoRun
  /\ \E p \in Plans :
       LET q == [NoRun EXCEPT !.step = "auth", !.kind = p.kind, !.mode = p.mode, !.dry = p.dry, !.id = p.id,
                              !.how = IF p.id = "old" THEN "existing" ELSE "auto", !.token = saved]
       IN /\ run' = [o \in Runs |-> IF o = r THEN [q EXCEPT !.clean = \A o2 \in Runs \ {r} : Busy(o2) => Same(o2, q)]
                                    ELSE [run[o] EXCEPT !.clean = @ /\ (Busy(o) => Same(o, q))]]
  /\ UNCHANGED <<kidVars, tunnels, dns, valid, issued, saved, said, file, foreign, cfFaults>>

\* What happens once there is a credential.
After(q) == IF q.kind = "wizard" THEN "choose" ELSE "tunnel"
\* getApiToken: what the answer says is stored.
Rotated(t, n) == n
\* getApiToken: a token of the environment needs nothing else; a session is
\* refreshed, and Cloudflare replaces its token.  A setup by flags stores the
\* new one at once (not in a dry run), the wizard once the plan is applied.
EnvToken(r) ==
  /\ run[r].step = "auth" /\ run' = [run EXCEPT ![r].step = After(run[r]), ![r].token = 0]
  /\ UNCHANGED <<kidVars, tunnels, dns, valid, issued, saved, said, file, foreign, cfFaults>>
getApiToken(r) ==
  LET q == run[r]
  IN /\ q.step = "auth" /\ q.token \in valid /\ issued < MaxTokens
     /\ issued' = issued + 1 /\ valid' = (valid \ {q.token}) \cup {issued + 1}
     /\ run' = [run EXCEPT ![r].token = Rotated(@, issued + 1),
                           ![r].step = IF q.kind = "flags" /\ ~q.dry THEN "persist" ELSE After(q)]
     /\ UNCHANGED <<kidVars, tunnels, dns, saved, said, file, foreign, cfFaults>>
\* No session, or one Cloudflare does not take any more: the wizard asks for
\* a login in the browser.
Refused(r) ==
  /\ run[r].step = "auth" /\ run[r].token \notin valid
  /\ IF run[r].kind = "flags" THEN Move(r, "failed") /\ UNCHANGED <<valid, issued>>
     ELSE /\ issued < MaxTokens
          /\ issued' = issued + 1 /\ valid' = valid \cup {issued + 1}
          /\ run' = [run EXCEPT ![r].token = issued + 1, ![r].step = "choose"]
  /\ UNCHANGED <<kidVars, tunnels, dns, saved, said, file, foreign, cfFaults>>
\* saveStoredAuth
Persist(r) ==
  /\ run[r].step = "persist"
  /\ saved' = IF run[r].token # 0 THEN run[r].token ELSE saved
  /\ Move(r, "tunnel")
  /\ UNCHANGED <<kidVars, tunnels, dns, valid, issued, said, file, foreign, cfFaults>>
\* cf login, cf logout: the session at Cloudflare is not ended.
login ==
  /\ issued < MaxTokens /\ issued' = issued + 1 /\ valid' = valid \cup {issued + 1} /\ saved' = issued + 1
  /\ UNCHANGED <<kidVars, tunnels, dns, run, said, file, foreign, cfFaults>>
logout ==
  /\ saved # 0 /\ saved' = 0
  /\ UNCHANGED <<kidVars, tunnels, dns, valid, issued, run, said, file, foreign, cfFaults>>

\* The wizard lists the tunnels, then asks for the verdict on its plan.
ChooseTunnel(r) ==
  /\ run[r].step = "choose"
  /\ run' = [run EXCEPT ![r].step = "plan", ![r].how = IF tunnels[run[r].id] = NoTunnel THEN "new" ELSE "existing"]
  /\ UNCHANGED <<kidVars, tunnels, dns, valid, issued, saved, said, file, foreign, cfFaults>>
Decide(r) ==
  /\ run[r].step = "plan"
  /\ \/ Move(r, "persist")
     \/ run' = [run EXCEPT ![r].step = "tunnel", ![r].dry = TRUE]
     \/ Move(r, "idle")
  /\ UNCHANGED <<kidVars, tunnels, dns, valid, issued, saved, said, file, foreign, cfFaults>>

(***************************************************************************)
(* provision.ts                                                            *)
(***************************************************************************)
restOfCloud == <<kidVars, valid, issued, saved, said, file, foreign, cfFaults>>
\* buildIngress: the rules follow from the mode; the hosts to route.
buildIngress(q) == q.mode
hostnames(q) == IF q.mode = "single" THEN <<"gateway">> ELSE <<"relay", "gateway">>

\* The tunnel: the chosen one, or the one found under the name.
FindTunnel(r) ==
  LET q == run[r] IN
  /\ q.step = "tunnel"
  /\ Move(r, IF q.how = "existing" \/ (tunnels[q.id] # NoTunnel /\ (q.how = "auto" \/ q.dry)) THEN "get"
             ELSE IF tunnels[q.id] # NoTunnel THEN "failed" ELSE IF q.dry THEN "dns" ELSE "create")
  /\ UNCHANGED <<tunnels, dns, restOfCloud>>
\* Two tunnels of one name are not accepted.
createTunnel(r) ==
  /\ run[r].step = "create"
  /\ IF tunnels[run[r].id] = NoTunnel
     THEN tunnels' = [tunnels EXCEPT ![run[r].id] = [ingress |-> "none", rest |-> 0]] /\ Move(r, "get")
     ELSE Move(r, "failed") /\ UNCHANGED tunnels
  /\ UNCHANGED <<dns, restOfCloud>>
\* The configuration is read, and written unless its rules are the wanted ones.
getConfiguration(r) ==
  LET q == run[r]  t == tunnels[q.id] IN
  /\ q.step = "get"
  /\ run' = [run EXCEPT ![r].had = t, ![r].left = hostnames(q),
                        ![r].step = IF t.ingress = buildIngress(q) \/ q.dry THEN "dns" ELSE "put"]
  /\ UNCHANGED <<tunnels, dns, restOfCloud>>
\* Mutant: only the rules are sent, the other settings are lost.
MutMerge(had, ingress) == [ingress |-> ingress, rest |-> 0]
mergeConfiguration(had, ingress) == [ingress |-> ingress, rest |-> IF had.ingress = "none" THEN 0 ELSE had.rest]
putConfiguration(r) ==
  LET q == run[r] IN
  /\ q.step = "put"
  /\ tunnels' = [tunnels EXCEPT ![q.id] = mergeConfiguration(q.had, buildIngress(q))]
  /\ Move(r, "dns") /\ UNCHANGED <<dns, restOfCloud>>

\* One host after the other: nothing to do, a record to create, or one to
\* replace when the user agrees; without a user the setup ends.
Host(r) == Head(run[r].left)
NextHost(q) == [q EXCEPT !.left = Tail(@), !.step = "dns"]
\* Mutant: any record that belongs to a tunnel is taken for this one's.
MutRouted(q, content) == content \in Ids
Routed(q, content) == content = q.id
findDnsRecord(r) ==
  LET q == run[r] IN
  /\ q.step = "dns" /\ q.left # <<>>
  /\ LET content == dns[Host(r)]
         ask1 == IF q.kind = "wizard" THEN "ask" ELSE "failed"
     IN run' = [run EXCEPT ![r] = IF Routed(q, content) \/ q.dry THEN NextHost(q)
                                  ELSE [q EXCEPT !.rec = content, !.step = IF content = "none" THEN "make" ELSE ask1]]
  /\ UNCHANGED <<tunnels, dns, restOfCloud>>
createDnsRecord(r) ==
  /\ run[r].step = "make"
  /\ IF dns[Host(r)] = "none"
     THEN dns' = [dns EXCEPT ![Host(r)] = run[r].id] /\ run' = [run EXCEPT ![r] = NextHost(@)]
     ELSE Move(r, "failed") /\ UNCHANGED dns
  /\ UNCHANGED <<tunnels, restOfCloud>>
onDnsConflict(r) ==
  /\ run[r].step = "ask"
  /\ \/ said' = said \cup {<<Host(r), run[r].rec>>} /\ Move(r, "replace")
     \/ Move(r, "failed") /\ UNCHANGED said
  /\ UNCHANGED <<kidVars, tunnels, dns, valid, issued, saved, file, foreign, cfFaults>>
updateDnsRecord(r) ==
  /\ run[r].step = "replace"
  /\ dns' = [dns EXCEPT ![Host(r)] = run[r].id] /\ run' = [run EXCEPT ![r] = NextHost(@)]
  /\ UNCHANGED <<tunnels, restOfCloud>>

\* The file that no caller passes a writer for: nothing is written.
WriteConfig(r) ==
  /\ run[r].step = "dns" /\ run[r].left = <<>>
  /\ Move(r, IF run[r].dry THEN "ok" ELSE "verify")
  /\ UNCHANGED <<tunnels, dns, restOfCloud>>
\* The public address answers as it should, in time, or not; or nobody asks.
verifyExposure(r) ==
  /\ run[r].step = "verify"
  /\ Move(r, "ok") \/ Move(r, "failed")
  /\ UNCHANGED <<tunnels, dns, restOfCloud>>
\* A call fails, the wizard is left, the process ends.
Broken(r) ==
  /\ Busy(r) /\ Fault /\ Move(r, "failed")
  /\ UNCHANGED <<kidVars, tunnels, dns, valid, issued, saved, said, file, foreign>>
\* Somebody else acts at Cloudflare.
Elsewhere ==
  /\ foreign < MaxForeign /\ foreign' = foreign + 1
  /\ \/ \E h \in Hosts, c \in {"none", "elsewhere", "other"} : c # dns[h] /\ dns' = [dns EXCEPT ![h] = c] /\ UNCHANGED tunnels
     \/ \E i \in Ids : tunnels[i] # NoTunnel /\ UNCHANGED dns
          /\ tunnels' = [tunnels EXCEPT ![i].rest = @ + 1, ![i].ingress = "theirs"]
  /\ run' = [r \in Runs |-> [run[r] EXCEPT !.clean = FALSE]]
  /\ UNCHANGED <<kidVars, valid, issued, saved, said, file, cfFaults>>

SetupNext ==
  \/ login \/ logout \/ Elsewhere
  \/ \E r \in Runs :
       \/ Begin(r) \/ EnvToken(r) \/ getApiToken(r) \/ Refused(r) \/ Persist(r) \/ ChooseTunnel(r) \/ Decide(r)
       \/ FindTunnel(r) \/ createTunnel(r) \/ getConfiguration(r) \/ putConfiguration(r)
       \/ findDnsRecord(r) \/ createDnsRecord(r) \/ onDnsConflict(r) \/ updateDnsRecord(r)
       \/ WriteConfig(r) \/ verifyExposure(r) \/ Broken(r)

(***************************************************************************)
(* Properties.                                                             *)
(***************************************************************************)
\* When a stop (preStop) is over no cloudflared process is left, the one of
\* a startup that was overtaken while its program was downloaded included.
StopReaps == [][(tunnelStopAll # "no" /\ tunnelStopAll' = "no") => \A k \in Kids : ~Alive(k)']_kidVars
\* At most one cloudflared process runs for the server.
OneConnector == Cardinality({k \in Kids : Alive(k)}) <= 1
\* "Re-running is safe": a setup that ends well, with nobody else at work on
\* another plan, has left what it planned, whatever a setup that broke off
\* before it left behind, and has kept the tunnel's other settings.
AppliedBy(q) ==
  /\ tunnels[q.id].ingress = q.mode /\ (q.id = "old" => tunnels[q.id].rest >= 1)
  /\ \A h \in {"gateway"} \cup (IF q.mode = "dual" THEN {"relay"} ELSE {}) : dns[h] = q.id
Applied == [][\A r \in Runs : (run[r].step = "verify" /\ run[r].clean /\ run'[r].step = "ok") => AppliedBy(run[r])]_cloudVars
\* Refuted by TLC (README): a record somebody else wrote is replaced only
\* when the user agreed to replace that record.
NeverSilent == [][\A h \in Hosts : (dns'[h] \in Ids /\ dns[h] \notin Ids \cup {"none"}) => <<h, dns[h]>> \in said]_cloudVars
\* Refuted by TLC (README): a wizard that was aborted has changed nothing, the
\* session on the disk can still be used.
SessionLives == (saved # 0 /\ \A r \in Runs : run[r].step = "idle" /\ ~run[r].dry) => saved \in valid
\* Refuted by TLC (README): no setup undoes a setting somebody else made.
RestKept == [][\A i \in Ids : tunnels'[i].rest >= tunnels[i].rest]_cloudVars
\* Refuted by TLC (README): a logout holds until the next login.
LogoutHolds == [][(saved = 0 /\ saved' # 0) => issued' = issued + 1]_cloudVars
\* Refuted by TLC (README): a setup that succeeds leaves the file it says it
\* wrote.
ConfigWritten == \A r \in Runs : (run[r].step = "ok" /\ ~run[r].dry) => file # "none"

\* There is one process at most and a stop leaves none; a setup that ends
\* well has done its plan (connector.ts, provision.ts, tui.ts).
CfHolds == []OneConnector /\ StopReaps /\ Applied
=============================================================================
