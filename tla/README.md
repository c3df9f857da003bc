# OpenDWeb in TLA+

Models, model-checking configurations and machine-checked proofs for OpenDWeb:
the session-continuity protocol of `crates/dweb-fabric`, which keeps an HTTP
exchange between two devices alive while the connection under it comes and goes,
and the JavaScript that is built on it: hub CLI, plugins, web core, console, tray
and website generator. Paths are relative to the repository; `session.rs`,
`http.rs`, `model.rs`, `transport.rs`, `frame.rs`, `manager.rs` are those of
`crates/dweb-fabric/src/continuity/`, the others below `packages/`.

1. Inventory: the parts of the system
2. What is modelled, and how it corresponds to the code
3. What each run checks and shows; bounds; fairness
4. What is proved, and how
5. Disagreements between the code and what is said of it
6. What is not modelled
7. Plan

## 1. Inventory

OpenDWeb joins a person's devices into a *fabric*. A Rust kernel
(`crates/dweb-fabric`) holds membership and connections; a Rust server
(`crates/dweb-server`) relays and admits; a N-API SDK (`packages/client-sdk`)
brings both to JavaScript, where a hub CLI (`opendweb`) with its plugins
(`opendweb-ext-*`), a web core and console (`webui`) and a tray (`tray`) run.

### 1.1 Continuity: one session between a client and a provider

A *session* is a (session id, token) pair known to a client and a provider. It
outlives connections: each connection yields *transports* (a QUIC stream pair);
a transport that a `SESSION_INIT` or a `RESUME_INIT` has installed is the
session's *channel*. A *pump* task per channel reads frames and commits them to
the streams.

| part | state | operations | talks to |
|---|---|---|---|
| wire frames and framer (`frame.rs`, `transport.rs`) | read buffer, pending frames, send mutex | `encode`, `decode`, `feed`, `send`, `recv` | QUIC stream below, pump above |
| receive window (`model.rs`) | expected offset, gap buffer and its byte count, history for verification | `feed_with_limits`, `drain_gaps`, `append_delivered` | pump |
| journal (`model.rs`) | segments not yet acknowledged, next and acked offset | `record`, `advance_ack`, `replay` | engine, pump, replay task |
| response stream (`session.rs`, `http.rs`) | final offset, terminal state, deliver queue, committed offset | `send_resilient`, `finish`, `recv`, `handle_frame_with_owner` | engine, application |
| resume control (`session.rs`) | phase, current/previous token, pending decision, confirmation owner, current channel and its owner | `resume`, `accept_resume`, `decide_resume`, `install_channel`, `note_confirmed`, watchdog, `close` | manager, driver in `client-sdk/src/session.rs` |
| terminals, registry, connection manager | aborted streams, sessions by id, active connection per peer | abort, `admit_init`, `adopt_with_winner` | all of the above |

Hard: pump, engine, replay, resume, watchdog, close and reader are separate tokio
tasks sharing state under several short critical sections; a connection may break
anywhere, frames in flight are lost as a suffix, answers are lost or late, retries
repeat what already happened, and every buffer has a cap. Right: the application
reads exactly the bytes written, once, in order, and learns of the end; nothing
unread leaves the journal; buffers stay bounded; one pump commits frames; the
newest resume decision owns the channel; credentials never go back.

### 1.2 Rust kernel and server around it

*Roster, facade, records, identity* (`dweb-fabric/src`): signed facts, the derived
member set, invitations, lifecycle and dialling. *Server* (`dweb-server/src`):
relay, rendezvous, service directory, and the access stores (gate, codes, owners,
webhook callbacks, admin API). Hard there: facts in any order, two append-only
files written one after the other, reservations across awaits. Not modelled; their
clients are (1.3).

### 1.3 Commands on a device

| part | state | operations | hard |
|---|---|---|---|
| home directory (`leases.mjs`, `join.mjs`, `webui/src/core/home.mjs`) | `leases.json`, `visits.json`, `roster.facts`, the journal of a join, lock files | join, recover, lease, label, visit | several processes, crashes, stale locks |
| hub daemon (`hub.mjs`) | `hub.lock`, pid triple, token, service unit | start, stop, init, daemon, signals | pid reuse, kills between two files |
| server command (`bin/opendweb.mjs`, `server-chain.mjs`, `plugin-runtime.mjs`) | loaded plugins, overrides, child, exit code | hooks, merge, spawn, probe, shutdown | signals while starting, hooks that throw |
| plugin commands (`plugin-registry.mjs`, `plugin-resolve.mjs`, `marketplace.mjs`) | lock file, packages, marketplaces | add, remove, list, run | two processes, one lock file |
| conversions (`util.mjs`, `register.mjs`, `qr.mjs`, `blake3.mjs`, `client-sdk/token`) | none | codes, aliases, addresses, invitations, QR, hashes | boundaries |
| admin client (`client-sdk/admin`) | one call | request, answer in pieces, time limit | a limit that fires within the body |

### 1.4 Plugins, web core, console, tray, website

| part | state | operations | hard |
|---|---|---|---|
| sync engine (`opendweb-ext-sync`) | objects, refs, intents, ledger, worktree | pull, merge, push, recover, resolve | crash anywhere, a user editing, two devices |
| AI relay (`opendweb-ext-ai/src/provider`, `consumer`) | relay entries with cursors, groups' limits, local clients | submit, pull, cancel, expire, tear down | retries against verdicts and timers |
| AI provider store and exchanges (`provider/store.mjs`, `hooks.mjs`, `rewrite.mjs`, `upstream.mjs`) | keys, groups, secrets, catalog, subscriptions | admin calls, hooks, header rewriting, an upstream exchange | edits during an exchange, saves that fail |
| AI consumer (`runtime.mjs`, `writers/claude-code.mjs`) | endpoint ledger, listeners, settings file | start, restore, stop, preview, apply | overlapping orders, edits in between |
| files (`opendweb-ext-files`) | staging area, shares, slots | chunk, commit, sweep, download | retries, two uploads of one file |
| ports (`opendweb-ext-ports`) | mappings, listeners, connections, budget | listen, forward, cancel, revoke | cancels across two hops |
| Cloudflare (`opendweb-ext-cf`) | connector process, tunnel configuration, DNS, session | start, stop, set up, sign out | a remote configuration others change |
| web core (`webui/src/core`) | node book, target, plugin states, fabric and sessions | every API route, plugin orders, join, resolve | handlers that await between read and write |
| console (`webui/ui/src/lib`) | page, flags, dialogs, credentials, polls | every button | answers late or out of order |
| tray (`tray`) | status file, commands, IPC frames | tick, poll, start, stop | overlapping timers |
| website generator (`website/src/vite-plugins`) | output files | read pages, stage, swap, roll back | a call that fails half way |

`PROJECT.json` lists every component with its status and, under `hazards`, what is
hard to test in each, at the line where it bites.

## 2. What is modelled

```
 OrderedDelivery <- refines - StreamDelivery      (segments; whole frames)
                                 |       \
        Continuity = ResumeControl + StreamChunks + WindowPeer + FrameWire - refines -> OrderedDelivery
                                     (bytes; RecvWindow)         (cells of a frame)
 HomeJoin   HubDaemon   SyncEngine   AiRelay   Console
 Extensions = FilesExt + AiControl + AiUpstream + AiEndpoints + SidecarApi
 WebCore    = Sidecar + PluginHost + FabricHost
 Edges      = PortsExt + CfTunnel + Tray
 Parts      = ServerCommand + PluginCli + Codecs + QrCode + Blake3 + HtmlMarkdown + LlmsTxt
            + SettingsWriter + AdminClient
```

Four modules put parts side by side that share no state: `focus` names the part a
behaviour looks at, the others stand still. In `Continuity`, and in `Parts`
`Blake3`, `HtmlMarkdown` and `LlmsTxt`, the parts also share the
variables (`s1`, `s2`, ...): each is an `INSTANCE` of its module with the shared
variables substituted, and what a part does not use is zero. That keeps
a state small and lets one run ask the question of each part: `focus` never
changes, so each part's behaviours are exactly those of its own specification.
Where one part calls another (the sidecar the plugin host, say), the caller's module
has every answer as a nondeterministic outcome.

`StreamDelivery` takes two things for granted, and each has a module that checks
it: that a channel is a queue of whole frames (`FrameWire` implements
`OrderedDelivery` of frames until a write is cut short), and that journal and window never
split a segment (`StreamChunks`). `ResumeControl` models the handshake that
`StreamDelivery` shows from one stream's point of view.

**OrderedDelivery**: the promise, at two layers: items are recorded, and taken one at
a time in that order. The items are segments for a stream, whole frames for a channel.

**StreamDelivery**: one response stream. The unit is a DATA payload, so offsets
are segment indices. *Engine* actions are the steps of `dispatch_stream` and
`send_resilient` (record, send, wait for Active, retry or give up after 30 s,
`finish` and its retry). *Provider pump*: ACK, RESET, end of channel. *Resume*:
`RESUME_INIT` with the stream's `recv_ack`, acceptance (stop the old pump,
install, advance the journal), `RESUME_OK`, and the client's side. *Replay*: the
background task's snapshot, segment by segment, then FIN. *Client pump*: the
outcomes of `feed_with_limits` (duplicate, buffered, overflow, delivered), the
later enqueueing under another lock, queue overflow, FIN. *Reader*: `recv()` in
its steps, because it looks at queue and window under different locks. *Break*
kills a channel and loses a suffix in each direction.

**RecvWindow, WindowPeer, StreamChunks**: the window as operators on a record, at
the level of bytes; against a peer that sends anything; and against the journal.

**FrameWire**: one direction of a transport. A frame is two header
cells and its payload cells; writes make progress by any number of cells, reads
return any number, a timeout or a channel stop drops a write where it stands, the
connection may end at any cell.

**ResumeControl**: one session. Client: driver, campaign, attempt
(`resume_attempt` in steps: send INIT, first answer, rotate, install, activate,
complete), pump, watchdog, `close()`. Provider: accept workers running
`accept_resume` in steps (decide, begin installation, wait for the old pump,
commit, re-check, send OK, complete), pumps, confirmation by the first data frame,
watchdog. A generation stands for its token and lease, an attempt for its
transport, channel and owner number. Two accept workers are real: `serve_http`
starts a worker that outlives the call, and `accept_any` is public.

**HomeJoin**: every process's join, label edit, visit and lease as the steps
between two system calls on the shared files, with a crash between any two; the
lock protocol of `leases.mjs` (create, stamp, judge, break, release) step by step.
Two ages of a lock suffice: too young to break, or stale and its owner dead.

**HubDaemon**: a table of pids, each dead, a hub, or another program; commands and
the daemon step over `hub.lock`, the pid triple and the server child.

**SyncEngine**: commits with their ancestors; per device its object store, group,
device and mirror refs, intent, session and worktree. A run's steps are those of
`engine.mjs` between awaits, recovery replays the intent of `intent.mjs`.

**AiRelay**: per request the relay entry (ring, served and committed cursor,
verdict, timers), the upstream reader, the puller, the local client, and the
limits of group and relay.

**FilesExt, AiControl**: an upload's chunks, commit, sweep and crash; a download's
slot and verification. The provider's store as memory and disk with saves that
fail; keys, groups, secrets, catalog revision.

**Sidecar, PluginHost, FabricHost**: the node book with its handlers; plugin orders,
their queue, drain, hooks and saved state; the fabric instance with its start, join,
sessions, serving and close. **SidecarApi** is the same sidecar's API: each route
with its guards, body, gate and call, the sync plugin's schedulers, one-time
capabilities.

**PortsExt, CfTunnel, Tray**: listener and call of the ports plugin with the pair of
exchanges of a connection; cloudflared's process and set-up against a configuration
others change; heartbeat and IPC of the tray.

**Console**: the methods of the console's controller as tasks that await answers,
two at a time; what a page shows carries the node it came from.

**ServerCommand, PluginCli**: the server command from configuration to exit code;
plugin commands of two processes over one lock file. **AiUpstream, AiEndpoints,
SettingsWriter, AdminClient**: one exchange with its credentials; the consumer's
listeners; preview and apply of a settings file, with the diff as `editScript` and
`unifiedDiff` build it; one admin call. **LlmsTxt** with **HtmlMarkdown**: pages to
Markdown, and the swap of the output with its rollback. **Codecs, QrCode, Blake3**:
conversions as operators, checked against what they promise (the code's check
digits, the shortest address, a QR matrix read back, the tree of chunks whatever
the pieces). Blake3 has small block and chunk lengths and no compression function:
what it checks is which chunks meet in which parent.

The `map` of `PROJECT.json` gives the lines for every definition. Definitions named
`Mut...`, or whose comment begins with "Mutation", are deliberately wrong variants
that show that a property would notice the mistake; the specifications do not use
them.

## 3. What the runs check

| run | instance | distinct states | what it shows |
|---|---|---|---|
| `stream_resume` | 3 segments, 2 generations, a journal of 3, a gap buffer and a queue of 1 | 2.7 M | the stream refines `OrderedDelivery`; what is unread is journaled (`UnreadIsJournaled`); the journal cap bounds the receiver (`ReceiverBoundedByJournal`); the ends agree (`FinalOffsetAgrees`) |
| `continuity` | 4 attempts, 3 connections, 2 accept workers; 5 frames of up to 3 bytes, lies allowed; 5 writes, 2 reconnects; 3 frames of 2 tasks, one stall | 2.9 M | one pump; the newest decision owns the channel; the tokens of both ends agree; window accounts, chunks and frames (`BytesHold`, `StepsHold`) |
| `home_join` | 2 joiners and a sidecar, 3 starts, 2 servers, whole, partial and damaged legacy files | 3.3 M | one fabric, no registration forgotten, no label lost |
| `hub_daemon` | 2 pids, 3 processes, 3 commands | 1.0 M | one daemon, signals to hubs only, preStop once; a shutdown whose hooks answer ends with process, server and lock gone |
| `sync_engine` | 2 devices, 2 paths, 1 fault, 5 commits (4 after the fault) | 1.2 M | refs name whole histories; what a recovery saw edited stays; device refs move forward; the worktrees converge, three-way merges included |
| `ai_relay` | 2 requests of a group of 1, a relay of 2, 2 chunks, a ring of 1, 1 fault | 0.08 M | cursors follow, an end is complete, the first verdict stands, a request completes unless a full relay refused one of its calls, every entry ends |
| `extensions` | 2 requests, 2 versions, 1 transfer slot, 1 fault; 1 service, 2 admins, 3 revisions; 2 exchanges, 3 kinds of service; 2 askers and the host, 2 starts, 4 tasks, 1 failure or restart; 2 clients, 1 group, 2 orders | 3.2 M | committed and downloaded files are whole, slots are exact, nothing is left behind; the store's keys, disk and catalog agree; an exchange has one outcome and the right headers; no port of an endpoint is lost however its starts, stops and the plugin's own overlap, and listeners, ledger and file agree at rest but where a crossing took something away; each request of the page is answered once |
| `web_core` | 2 handlers, 2 servers, 2 failures; 2 plugins, 2 callers, 1 restart; 2 users, 2 instances | 0.5 M | one node per code, the current one is stored; what is enabled survives a restart; drained before disposed; one start, nothing after close; orders and resolves settle |
| `edges` | 2 calls, a budget of 1, 1 order; 2 starts, 2 set-ups of 2 plans, 1 fault; 2 ticks, 2 frames | 0.5 M | both hops of a connection end alike, the budget is exact, listeners are as said; cancels arrive; one cloudflared at most and none after a stop, a set-up did its plan; the tray's status comes to be true |
| `console` | 2 tasks, 2 nodes, 2 endpoints, 6 sets of offers, 1 failure | 0.1 M | one operation at a time, credentials forgotten; what shows as going on ends |
| `parts` | see `Parts.cfg` | 1.2 M | the nine parts: one shutdown and no server left behind (`ServerHolds`); a plugin that runs is one the lock or the marketplace stands for (`CliHolds`); what is written is read back, is whole and is what was said (`WrittenHolds`); the admin client tells what the server did (`AdminHolds`) |
| `confirmed_written` | the settings writer of `parts` | | counterexample, section 5 |

A property named `...Hold` is the conjunction of the named invariants above it in
its module, or of a part's when its focus is on; each conjunct has a comment of its
own there. Their mutants in `PROJECT.json` break the conjuncts separately.

**Bounds and why they are enough.** In `stream_resume` a reconnect interrupts what
the first channel carries; a second one that interrupts the replay of the first is
left to the proofs, which cover any number (section 4). Reordering needs a missing
segment, a buffered one, and one that overflows: three segments, a journal that
holds them and a gap buffer and a queue that do not. `continuity` has three
connections. The caps are one or two, where the code has 64, 512 and more, so that
each is reached. A frame cut into cells needs a payload cell to be confused with a
header cell, and three frames put one before, one at and one behind the cut.
Superseding a decision takes two workers, and a third and fourth attempt let a
later campaign meet both. A u64 that overflows is `OffsetMax` small. In the
JavaScript parts the races are between two callers across one await: two handlers,
tasks, exchanges, clients or processes, and a third where a later one meets what
the two left (three starts of a join, three processes, three plugin runs). One
fault, at any point, is what the code claims to survive; two or more appear where
a retry follows it (`web_core`). Two devices and two paths make a conflict on one
path and a clean merge on the other. Two edits and a seed take three commits and
their merge the fourth; the fifth is that of the other device when both merge at
once. What stays excused is a merge that needs a sixth, or a fifth after the fault
(`OutOfCommits`: two devices that go on merging each other's merges in lockstep, or
a merge lost to a crash and made again). `ai_relay` has limits that are reached:
the group's by the second request, the relay's by both, and then pulls are turned
away. The endpoints' two askers and the host are what a crossing takes; two starts
get an id, so that a listener can be taken for another's. `edges` has one management
call of the ports plugin at a time: what `ListensAsSaid` says of listeners is said for
that case alone.
The conversions are checked over all inputs up to the lengths in `Codecs`, `Parts`
and `Blake3`, chosen around the boundaries of the code (QR versions, alias and
token lengths, chunks of a power of two and one off it). `home_join` cuts behaviours
at a removed live lock (`Small`): nothing is promised behind it.

The configurations switch deadlock checking off: a session that is closed, a
daemon that ended, a user who is done may stop.

**Symmetry** is used where only safety and step properties are checked
(`extensions`, `parts`), over requests, exchanges, clients and processes that the
modules never order. `extensions` gives its requests, admins, exchanges and clients
the same two values: only one part moves, so one permutation serves them all.

**Fairness.** Weak fairness of what Node.js or the timers will run: the next step
of a handler whose await is over (daemon, sync run, relay entry, plugin order,
fabric start, console task, tray command), a timer that is armed (relay TTL and
stall, polls, ticks). Nothing is assumed of users, peers, networks or faults, nor
of answers: where the code has a timeout, the timeout is the step that is fair;
where it has none the property does not need it. `sync_engine`'s `Converges` holds
for behaviours whose edits and faults stop, which the bounds make all.
Two properties need one thing more. In `web_core` a plugin's hooks, its drain, and
the calls of the SDK are taken to come back, well or not: the code awaits them with
no time limit, so `CoreSettles` says that orders, starts and resolves settle if they
do. In `console` the same is said of requests to the sidecar. `ShutdownEnds` does not assume it of
preStop hooks, which `plugin-runtime.mjs:186` awaits without a limit: the step in which the hooks have
answered is not fair, and the promise begins behind it; only `hub stop`, which
kills in the end, ends a daemon whose hooks hang, and then the lock may stay. Strong
fairness is assumed of one thing, a poll of the console: its timer comes round
again and again, whatever else is under way between two of its ticks.

## 4. What is proved

For every value of the constants that satisfies the stated assumptions (finite sets,
bounds that are natural numbers, no order between the caps), checked by TLAPS:

| theorem | what it states |
|---|---|
| `StreamDelivery_proofs!TypeCorrect` | `TypeOK` |
| `!UnreadStaysJournaled` | a segment leaves the journal only after the application was given it |
| `!ReceiverBounded` | queue plus run in hand is at most the sender's journal cap |
| `!FinalOffset` | both ends agree on the end |
| `!Refinement` | `StreamDelivery` implements `OrderedDelivery` |
| `ResumeControl_proofs!OnePumpAlways` | at most one pump, the current channel's |
| `!NewestOwns` | a channel is installed for the newest decision only |
| `!NeverRollsBack`, `!RotatesOnce`, `!ConfirmsLate` | the client's generation never decreases; a repeated request keeps its generation; the previous one is kept until the client has left it |
| `!TokensAlwaysAgree` | these three: what both ends know of the token agrees |
| `HomeJoin_proofs!JoinAlwaysHolds` | one fabric, no registration forgotten, no label lost |
| `!ServerAlwaysHolds` | one preStop per plugin, the server told to stop behind them, no server left |
| `!CliAlwaysHolds` | what runs was locked or is the marketplace's; what the lock says was installed |
| `!AdminAlwaysHolds` | a caller is told what the server did; a receipt's bytes bind its fields, one text encodes a signature |
| `!ConsoleAlwaysHolds` | one operation at a time, no settled credential in a form |
| `HubDaemon_proofs!HubAlwaysHolds` | one owner, signals to the hub only, preStop once |
| `WebCore_proofs!NodesAlwaysHold` | one node per code, the current one in book and file |
| `!EnabledIsAlwaysDurable` | what serves is enabled in the ledger |
| `!AlwaysDrainedBeforeDispose` | the same as an action property of the drain |
| `!FabricAlwaysHolds` | one own instance, nothing behind a close |
| `Plugins_proofs!RelayAlwaysHolds` | nothing lost or repeated, a reported end is complete |
| `!FirstVerdictAlwaysStands` | the verdict on an entry never changes |
| `!SyncAlwaysHolds` | refs name whole histories; an edit a recovery found stays until its user changes it |
| `!LineAlwaysForward` | a device's line only grows, unless its user decided |
| `!SyncTypeCorrect` | the shape, and an intent on the disk behind every run that writes |
| `Extensions_proofs!FilesAlwaysHold` | whole files, whole downloads, no litter, exact slots |
| `!StoreAlwaysHolds` | keys, groups, secrets, memory, disk and catalog agree |
| `!UpstreamAlwaysHolds` | one outcome, no body left open, no older credential, the right headers |
| `!PortsAlwaysHeld` | a listener of the AI plugin is in the table, or a start at work will put it there or close it; whatever overlaps |
| `!ApiAlwaysHolds` | one answer, no timer behind a disable, one session |
| `Edges_proofs!RequestsAlwaysSound` | whole answers, an exact budget |
| `!CfAlwaysHolds` | one connector at most, a stop leaves none, a setup did its plan |

None of the properties is inductive. Each module has an invariant that says of every
part of the state what the others rely on, one lemma per action (or per group of
actions that touch the same part) that the step keeps it, and a frame lemma for the
parts the action leaves alone.

*Streams.* A frame in flight or a summary could carry a value no reachable state
produces. `EngineInv` bounds the journal by its cap; `WireInv` says
every DATA frame carries a recorded offset, every FIN the final one, every ACK at
most what is committed; `ResumeInv` says the same of a summary and a replay
snapshot; `WindowInv` puts gaps strictly above the expected offset and below
`next`; `PipeInv` is the heart: what was consumed, popped, queued and in hand,
joined, is exactly the run of segments up to the expected offset (unless the
stream died); `EndInv` ties the end believed in to the end declared.
`UnreadIsJournaled` follows from `WireInv`, `ReceiverBoundedByJournal` from
`PipeInv` with `EngineInv`, the refinement from `PipeInv` (what `Commit` appends
is the next segment).

*Resume.* `Shapes` keeps the types; `OnePump` is preserved because only `Installs`
starts a pump, and demands that the current one has stopped; `PendingIsNewest`
(the cached decision made the current generation) is what lets the re-check of
`InstallCommit` stand for "newest".
`TInv`, for the tokens: while the window is open (`pPrev # None`) it is one generation
wide (`Window`), and the decision of the newest generation is the pending one
(`Answered`). Hence `DecidedIsRetry`, the heart: a request that was decided once and
whose token is still known must have been decided by the pending decision, so that
asking again is a retry; any other has left the window. `Credentials` says what the
client held when it sent an attempt, and that it speaks on a channel only after
leaving that generation; `Confirmable` that the channel which may confirm was
installed for the pending decision. TLC checked `TInv` on the run's instance first.

*Join.* As long as no waiter has removed a live lock (`~usurped`, the known flaw of
section 5), `JoinInv` has: `Excl`, one process between taking a lock and releasing
it; `JoinerStands`, what the holder of the server lock may assume at each of its
steps (a fresh start has no journal; a migration has no ledger, nothing registered,
and one entry that agrees with the roster; a settling join's journal is its own
tuple; a cleared one's tuple is in the ledger); `Reads`, what a process has read and
not yet written back is still so; and `Agreed`, `JournalAgrees`, `Pending`, `Labels`
over the files alone. `Quiet`, `Writes` and `Carry` say once what a step needs that
writes nothing, one file, or hands on what was read. A crash is a step like any
other: it is there that the invariant over the files alone is needed.

*Hub.* `TableStands`: a process identity is given out once, so a reused pid never
passes for the old process. `LockStands`: who holds the hub lock, by the phase its
command is in, unless it was robbed. `JudgedStands`: what a waiter has judged dead stays
dead. `TripleStands`, `CliStands`, `HooksStand`: whom the pid file names, what a stop
has verified, how far a shutdown's hooks are.

*Web core.* `NodesInv`: `LocksHeld` and `ChecksStand` (what a handler looked up is
still so while it holds the mutex), `CodesFresh` (a code not yet spent has no node).
`HostInv` follows an order from queue to ledger, a crash in between included.
`FabricInv`: `StartStands`, a start that others wait for is the only one. The drain is an action property from
`HostInv`: the step that disposes is one of two, each behind its gate.

*AI relay.* One conjunction per request, `Sound(r)`. `AnswerStands`: an answer in
flight says what is so, or what was so and cannot be undone (a cursor only grows, a
verdict stays). `EndStands`: a body that ended has no writer left. `VerdictKept`:
timers and retries find the verdict. The limits play no part in it.

*Sync.* `Whole`: a commit's ancestors are commits that were made, itself among them,
and theirs are among its own. `Closed`: a store has with a commit its ancestors.
What is left to say of a device is that what it is about to name is in its store:
`Named` for its refs, intent, conflict session and seed block, `Working` for a run
by its stage, `Ready` for a plan (what the line advances to, what is pushed to the
peer; unless a user was asked, the new line continues the one the plan expects, so
the compare-and-swap at the end may fail but never goes back). `EditsKept` is of recovery: what it has
found under a path is not what the intent wants to replace, so that no operation gets
past the look at it; a new intent waits until the old one is gone. What is edited
after the look is not found, and not covered (section 5). A merge base exists
because numbers up to a bound have a largest (`HasMaximum`, from the library's
well-foundedness of Nat), and is in the store because two histories that meet are
both there (`CommonStored`).

*Files and store.* `RequestStands` gives for each step of an upload or a download
what the request holds (its slot, its temporary file, its digest so far);
`TempIsCopied` says who wrote the temporary file, `LoadStands` and `OneReader` the
same of the cache. `SoundData` relates keys, groups and secrets within one
copy of the store, `ToldStands` the revision a consumer was told to the data behind it.

*Ports.* A request has two halves. `OwnSide` and `PeerSide` speak of one each,
`BothSides` of what one knows of the other (while a request is under way the browser
has seen exactly the blocks taken from the peer; an end the peer marked is final
there); `Budget` counts by cardinalities. These need nothing of the management calls,
which may overlap as they like. The third part of `PortsHold`, that ports are held
only as said, is model-checked with one management call at a time and not proved: of
two that overlap it is false (section 5).

*Cloudflare.* `KidStands`: whoever lives is the child of the startup under way, the
active one, or the one a stop waits for; `OneRole`: never two of them at once, even
where a stop overtakes a download. `Stands`: what an undisturbed setup has done so
far still is so, the hosts left to do included; `Undisturbed`: whoever else is at
work has the same plan; `Filled`: the tunnel that was there keeps its rules and
settings. Here the proof goes beyond the run, which has nobody else at work at
Cloudflare (`MaxForeign = 0`): the theorem holds with `Elsewhere` taking any steps.

*Exchanges.* `Stands(r)` is of one exchange: what its sink has heard and what was
recorded go with its phase (`Heard`), a handle is open only once the upstream was
asked and closed when it is over (`Bodies1`), the credential is not older than the
request (`Recent`), and the headers are right at every stage of their making
(`Dressed`), so that the last rule to name a header decides it. Scripts, secrets and
services may change at any await. The one assumption is that a service's credential
comes from one of the sources the code knows (`SlotModes`).

*Endpoints.* Nothing orders requests, the restore and a disposal, so the proof is of
one worker's step. A listener outside of the table is held by a start between
listening and registering, or closed with it (`HoldsListener`). A step changes one
worker's job only (`Turns`): the others go on holding theirs, and the worker at work
either keeps its listener, puts it into the table, or has closed it
(`OwnStepKeeps`). No assumption is made.

The lemma `EachRuns` carries what is proved of the exchanges', the endpoints' and the
API's specifications over to the run's.

*API.* `RequestInv` (answered when done and not before), `ScheduleInv` (no scheduler
outside of the plugin's life and its orders) and `CapInv` (what is not redeemed has
opened nothing).

*Server command.* A place in the order of the plugins names a plugin, because loaded
names differ (`LoadedStand`). `StopsStand` says of each place a shutdown has to call
that it is untouched, being called or answered, and what the history of its plugin is
then; a later signal finds the shutdown and adds nothing. `KillStands` ties what was
done to the server to the shutdown's place. `ServerAssumption` says that the plugins
are a sequence and that an entry is of one of the four kinds the loader tells apart.

*Plugin commands.* Nothing orders two processes over the lock file, so the invariant
(`CommandStands`) says of each only what no other can undo: what the records it has
read say some project had, that a package it is about to write was read back, and
that a running `use` knows whatever the lock says of its alias while the file is whole.

*Admin client.* `CallInv` follows a call from step to step with what the server has
done. That the bytes of a receipt bind it (`BytesBind`) is a lemma about
concatenations of fields whose lengths are known; that one text encodes a signature
reads two base64url characters symbolically: the decoder's loop is a recursive
function, and the lemma exhibits its values. `0 \notin Ids`, since zero stands for no
identifier, and `Characters \subseteq 0..63`.

*Console.* The flag of an exclusive operation is raised as long as it runs, whatever
page offers it, so the next one that asks is refused; credentials are numbered as they
are typed, and the number in a form is not one that has been spent.

Only model-checked:

- all liveness (`ShutdownEnds`, `RelayEnds`, `CoreSettles`, `CancelConverges`,
  `TrayHolds`, `ConsoleSettles`, `Converges`): out of the prover's reach;
- `BytesHold` and `StepsHold`: windows, chunks and frames are folds and recursive
  operators over bytes, and that they keep what they promise is an induction over
  those data;
- `WrittenHolds`: decoders, QR, BLAKE3's tree, the Markdown of a page, the settings
  writer's difference and the generated index are recursive, and bit operations are
  beyond the prover.

## 5. Disagreements

Recorded as a run: `confirmed_written`. The settings writer's token is a hash of
the *diff* (`writers/claude-code.mjs:257`, compared at 321-329); the diff shows
three lines around a change, so an edit further away gives the same token, and what
is written is not what was confirmed, against the comment at line 9.

Found while modelling. Where a module states the property it is marked "Refuted by
TLC"; adding it to the configuration of its run (with the part's focus alone, and
the constants given here if they differ) finds the counterexample.

*Continuity.*

| property | constants | what the code does |
|---|---|---|
| `StreamDelivery!CleanEofIsComplete` | 1 segment | `recv()` can report a clean EOF while the last delivered run is on its way from window to queue (session.rs:1783) |
| `!HonestStreamSurvives` | gap buffer 1, journal 3 | new DATA overtakes a replay, overflows the gap buffer and resets an honest stream (session.rs:4574) |
| `!SlowReaderIsNotAbandoned` | 2 segments, journal 1 | a full journal ends the engine (http.rs:733) where back pressure is promised |
| `!AttemptEndsOnlyByFailure` | 1 segment | DATA that precedes `RESUME_OK` on the new channel ends the campaign (session.rs:4831) |
| `FrameWire!FramesIntact` | payload up to 2 | a write dropped by `SEND_FRAME_TIMEOUT` is repeated behind its own first part; the reader accepts a payload that ends in the second copy's header (session.rs:2429) |
| `!ErrorIsReplayed` | payload up to 2 | a violation behind complete frames is dropped with the buffer (transport.rs:68) |
| `WindowPeer!GapPrefixDrained` | no lies | an overlapping segment leaves a buffered one below the expected offset, which blocks the drain (model.rs:266); the program's own sender never does this |
| `StreamChunks!ChunkPerWrite` | writes of size 0 | an empty write shares its journal key with the next one (model.rs:379) |
| `ResumeControl!TokenStaysUsable` | 3 attempts, 3 tries, 1 worker | two attempts of a campaign on two connections with both answers lost leave the client's token in neither generation (session.rs:997) |
| `!ConfirmedIsHeld` | 3 attempts, 2 workers | a superseded OK leaves on the newer channel (session.rs:4567) |
| `!ActiveMeansAlive` | 2 attempts | Active overwrites Recovering when the pump ends before activation (session.rs:4770) |
| `!WatchdogSparesTheResumed` | `MayGiveUp` | the watchdog's check and its verdict are separate critical sections (session.rs:760) |

*Home, hub, commands.*
`leases.mjs:160-166`: two waiters judge a lock stale, the slower removes the
faster's new lock (`HomeJoin!BreakLock`, `usurped`); an empty lock left by a crash
is never broken (121-130, 172-189); `recordVisit` and `upsertLease` throw without
releasing (640, 283). `hub.mjs`: the lock is released twice and may be another's by
then (715-725); the same stale-lock race (490-499); a lock directory without owner
is unbreakable (473-482); "stopped" is said while the server child of a killed hub
lives on (720, `StoppedMeansStopped`). Server command: a Control-C that ends the
child cuts preStop short (`PreStopDone`); `code ?? 0` makes a killed child a success
(`bin/opendweb.mjs:242`, `plugin-runtime.mjs:97`, `server-binary/index.js:149`;
`FailureTold`); a failing preStart leaves earlier effects (153); a later plugin's
override silently wins (`plugin-runtime.mjs:334`, `Precedence`). Plugin commands:
read, install, write of the lock file is not atomic over processes
(`plugin-registry.mjs:147-167`; `EntryKept`, `AnchorHolds`), its write is not atomic
either (36, `LockReadable`); removing one alias uninstalls another's package
(180-186, `OthersStay`); `marketplace.mjs:74-100` likewise. Conversions: the second
copy of a QR's format bits is never written (`qr.mjs:345`, `FormatTwice`); the error
text says version 6-L holds 106 bytes, it holds 134 (275); a base64url text with a
superfluous zero character is accepted (`register.mjs:137`, `token/index.mjs:348`,
`OneText`). Admin client: a time limit within a body throws a raw error where
README.md:98 promises `AdminError` (`admin/index.mjs:600`, `AlwaysAdminError`).

*Plugins.*
Sync: a seed whose first publication fails never publishes its baseline
(`engine.mjs:524`, `BaselinePublished`); an edit between scan and apply is lost in the
run that prepared the intent (389), and one between a recovery's look at a path and
its write in the recovery (`intent.mjs:255-259`, against 19-20; `NeverOverwritten`); mirror refs
are stored before their objects (237-239); `advanceRef` runs outside the mutex
(`intent.mjs:184-188`); a resolve of a stale session drops commits (866-869). AI
relay: `acquire` counts two requests as one (`limits.mjs:77-86`); a slot is lost if
`persistQuota` throws (88); a request of a closed or expired relay is never answered
(`relay.mjs:233-261`, `Heard`); pulls are refused at capacity, so a full relay cannot
drain (`runtime.mjs:232`, `Completes` without `Refused`); a truncated response
looks complete (`gateway.mjs:268`, `NoSilentTruncation`). AI store: a revoked key
returns when the save fails (`store.mjs:655-658`, `RevokedStays`); a refused service
stays in memory (424-425, `RefusalLeavesNothing`); "unchanged" may name another
revision (`RevisionNames`). AI exchanges: slots are looked up twice around awaits
(`rewrite.mjs:351`, `upstream.mjs:355`); a preset whose script is broken sends the
request without authorization (`hooks.mjs:64-65`, `NeverBypassed`). AI endpoints:
`endpointsLoaded` is set before the read (`runtime.mjs:261`); `pop()` may take
another's entry (381); a stop between push and registration leaves a listener the
ledger does not have (375-410; all of these `AlwaysListed`); two saves may end in the
other order (`SavedDespiteOverlap`); the restore starts what was stopped since it
copied the ledger (429-433), so a stop is undone; a management start while the plugin
is off opens a listener (`ClosedWhenOff`).
Settings: an edit between apply's read and write is lost (`NothingLost`); the diff's
hunks overlap for changes four to six lines apart (165-220). Files: a second first
chunk overwrites a staged one (`staging.mjs:117-147`, `ChunkKept`); the sweep runs
into a commit; a path of an upload may change under it (`OnePath`). Ports: overlapping
start and stop orphan a listener (`runtime.mjs:121-155`); a client that left before
the fetch is forwarded (`proxy.mjs:402-415`, `GoneConverges`). Cloudflare: the file
the command says it wrote is not written (`provision.ts:180`, `cli.ts:170-179`,
`ConfigWritten`); a session comes back after a logout (`tui.ts:439-441`,
`LogoutHolds`); an aborted wizard has changed the token (`SessionLives`); the
configuration is read, merged and replaced (125-134, `RestKept`); a record that
changed since it was read is replaced (`NeverSilent`).

*Web core, console, tray, website.*
Sidecar: `hub/start` overwrites a target chosen meanwhile (`sidecar.mjs:2011-2026`,
`TargetFrozen`); `hub_local` may be stale (1907); deleting a group never stops its
scheduler (1534, `DeletedStops`); a group created while the plugin starts is never
scheduled (`data-plane.mjs:177`, `EveryGroupRuns`); a manual sync or a resolution
runs on after a disable (1549, 1587 against the comment at 1470,
`NothingWhileOff`). Plugin host: a disable whose save failed is answered "ok" when
repeated (`host.mjs:249`, `DisabledStays`). Fabric host: a status read overwrites
"closed" (`fabric.mjs:457`, `ClosedIsClosed`), a start outlives a close (700,
`StaysClosed`), a live session is evicted, by a resolve that finds it negotiating (545) or by the
end of another (555-569, `EvictOnlyTerminal`). Console:
answers of the node before are shown after a switch (`console.svelte.ts:13`,
`NoOldNode`); "converged" is said of an endpoint whose own polls did not find it
(1676, `ConvergedSeen`); edits and navigation are dropped by late answers
(1402, `EditKept`, `NavigationKept`, `ListIsOfCwd`). Tray: overlapping ticks write late
(`heartbeat.mjs:133`), after a stop too (`FrozenAfterStop`); `code ?? 0`
(`hub-side.mjs:196`, `OkMeansDone`). Website: two failing calls lose the old file
(`llms-txt.mjs:948-981`); a link in a list item loses its target (464, `LinksKept`).

## 6. What is not modelled

Of continuity: the request direction (the same window and journal code, driven by
`http.rs` from the other side), several streams under the session-wide caps,
aborts, RESET tombstones, `SESSION_INIT`, the registry, the connection manager, a
provider-side `close()`. The Rust roster, facade and server. The encoding of header
fields is data; time appears only as "a timeout may fire"; memory exhaustion is left
out. Of JavaScript: texts (merge markers, service units, HTML), prices and usage,
styles, component rendering, declarations, examples and build scripts.
`packages/website/vite-plugins/llms-txt.mjs` is a second copy of the modelled file
that the build does not import.

Some modules state properties that hold but that no run checks, for the runs ask
one question each; they are listed with the module's properties and not repeated
here.

## 7. Plan

1. Proofs: byte-level lemmas about a single window or frame, without the induction;
   the conversions whose texts have a fixed length (codes, addresses, receipts).
2. `ConnectionWinner` and `StreamTerminal` (with proofs), composed with
   `StreamDelivery`'s resume; `SessionRegistry`, whose state `ResumeControl` holds as
   `registered`.
3. `CodeLedger`, `Roster` for the Rust server and kernel.
