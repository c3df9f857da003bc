----------------------------- MODULE SyncEngine -----------------------------
(***************************************************************************)
(* The sync plugin: two devices keep one root in step.  Each has a         *)
(* worktree the user edits at any time, a git object store, the group ref, *)
(* its own device ref and a mirror of the peer's; each runs runRoot        *)
(* (scan, fetch, merge, materialise through an intent, push) while it      *)
(* serves the peer's pushes.  Calls fail, answers get lost, processes die. *)
(* packages/opendweb-ext-sync/src: engine, intent, merge, objects,         *)
(* endpoint, worktree, scheduler.                                          *)
(*                                                                         *)
(* A file's content, mode and type are one value; a text merge of two      *)
(* different edits of one file always has a conflicting hunk.              *)
(***************************************************************************)
EXTENDS Naturals, Sequences, FiniteSets

CONSTANTS Devices,    \* two devices
          Seed,       \* the seed authority among them
          Paths,
          Contents,   \* of a file; 0 is no file, 1 what is there at first
          Writers,    \* bound: the users that edit, once each
          SeedPaths,  \* bound: what the seed's user edits
          MaxSyncFaults, MaxCommits  \* bounds

ASSUME SyncAssumption ==
  /\ Cardinality(Devices) = 2 /\ Seed \in Devices
  /\ SeedPaths \subseteq Paths /\ {0, 1, 2} \subseteq Contents /\ Writers \subseteq Devices /\ MaxSyncFaults \in Nat /\ MaxCommits \in Nat

VARIABLES
  mode,                      \* the root's mode in groups.json
  wt,                        \* worktree: path -> content
  commits,                   \* every commit made: [tree, anc]; anc has it and its ancestors
  store,                     \* commits (with their trees) in the object store
  group, dev, mirror,        \* refs: commit, or 0
  intent,                    \* intent.json without its done mark
  session, block,            \* conflict-session.json, seed-block.json
  pc, refs, todo, retried,   \* the run in progress: where, peerRefs, what is left
  edits, syncFaults,         \* used of the bounds: users that edited, failures
  found                      \* history: edits a recovery of the intent has found, [path, content]

persistent == <<mode, store, group, dev, mirror, intent, session, block>>
run == <<pc, refs, todo, retried>>
history == <<edits, syncFaults, found>>
syncVars == <<wt, commits, persistent, run, history>>

Other(d) == CHOOSE e \in Devices : e # d
Empty == [p \in Paths |-> 0]
NoTodo == [ops |-> {}, expect |-> 0, adv |-> 0, push |-> <<>>, bad |-> FALSE, next |-> "idle", asked |-> FALSE]
NoIntent == [target |-> 0, old |-> 0, ops |-> {}]
NoSession == [base |-> 0, ours |-> 0, theirs |-> 0]
NoRefs == [group |-> 0, own |-> 0, mine |-> 0]

tree(c) == IF c = 0 THEN Empty ELSE commits[c].tree

\* mergeBase walks the commits it can read; a missing one has no parents.
Ancestors(d, c) == IF c = 0 THEN {} ELSE IF c \in store[d] THEN commits[c].anc ELSE {c}
Common(d, a, b) == Ancestors(d, a) \intersect Ancestors(d, b)
mergeBase(d, a, b) == CHOOSE c \in Common(d, a, b) : \A x \in Common(d, a, b) : x <= c

\* mergeTrees, path by path.
Conflicted(b, o, t) == {p \in Paths : o[p] # t[p] /\ o[p] # b[p] /\ t[p] # b[p]}
mergeTrees(b, o, t) == [p \in Paths |-> IF o[p] = b[p] THEN t[p] ELSE o[p]]

\* buildMaterializeOps: where the merged tree differs from ours; the preimage is
\* whatever the worktree holds now.
buildMaterializeOps(d, ours, merged) ==
  {[path |-> p, pre |-> wt[d][p], post |-> merged[p]] : p \in {q \in Paths : ours[q] # merged[q]}}

SyncInit ==
  /\ mode \in {"twoway", "oneway"}
  /\ wt \in [Devices -> {Empty, [p \in Paths |-> 1]}] /\ wt[Seed] # Empty
  /\ mode = "oneway" => \E d \in Devices : wt[d] = Empty
  /\ commits = <<>>
  /\ store = [d \in Devices |-> {}]
  /\ group = [d \in Devices |-> 0] /\ dev = group /\ mirror = group
  /\ intent = [d \in Devices |-> NoIntent]
  /\ session = [d \in Devices |-> NoSession]
  /\ block = [d \in Devices |-> 0]
  /\ pc = [d \in Devices |-> "idle"]
  /\ refs = [d \in Devices |-> NoRefs]
  /\ todo = [d \in Devices |-> NoTodo]
  /\ retried = [d \in Devices |-> FALSE]
  /\ edits = {} /\ syncFaults = 0
  /\ found = [d \in Devices |-> {}]

Go(d, where) == pc' = [pc EXCEPT ![d] = where]
\* A run ends, with the phase its job shows left out.
RunEnds(d) ==
  /\ Go(d, "idle")
  /\ refs' = [refs EXCEPT ![d] = NoRefs]
  /\ todo' = [todo EXCEPT ![d] = NoTodo]
  /\ retried' = [retried EXCEPT ![d] = FALSE]

PeerRefs(d) == LET e == Other(d) IN [group |-> group[e], own |-> dev[e], mine |-> mirror[e]]
OneFault == syncFaults < MaxSyncFaults /\ Len(commits) + syncFaults < MaxCommits /\ syncFaults' = syncFaults + 1

\* The users: one changes files, the other deletes them (a bound).
Typed(d) == IF d = Seed THEN 2 ELSE 0
Edit(d) ==
  /\ d \in Writers \ edits
  /\ \E p \in IF d = Seed THEN SeedPaths ELSE Paths : LET v == Typed(d) IN
       /\ wt[d][p] # v
       /\ wt' = [wt EXCEPT ![d][p] = v]
       /\ found' = [found EXCEPT ![d] = {e \in @ : e.path # p}]
  /\ edits' = edits \union {d}
  /\ UNCHANGED <<commits, persistent, run, syncFaults>>

\* A call that fails, an abort, a budget: the run throws; a crash: it is gone.
\* Either way what is on disk stays.
RunFails(d) ==
  /\ pc[d] # "idle" /\ OneFault
  /\ RunEnds(d)
  /\ UNCHANGED <<wt, commits, persistent, edits, found>>

(***************************************************************************)
(* recoverIntent, at the start of every run.                               *)
(***************************************************************************)
recoverIntent(d) ==
  /\ pc[d] = "idle" /\ intent[d] # NoIntent
  /\ \/ /\ group[d] = intent[d].target
        /\ \A op \in intent[d].ops : wt[d][op.path] = op.post
        /\ Go(d, "done")
        /\ todo' = [todo EXCEPT ![d].next = "refs"]
     \/ /\ group[d] = intent[d].old /\ group[d] # intent[d].target
        /\ Go(d, "recover")
        /\ todo' = [todo EXCEPT ![d].ops = intent[d].ops, ![d].next = "refs"]
  /\ UNCHANGED <<wt, commits, persistent, refs, retried, history>>

\* Mutant: recovery replays every operation.
MutUntouched(d, op) == TRUE
Untouched(d, op) == wt[d][op.path] = op.pre

\* Operations go in the order the trees list the paths.
First(ops) == CHOOSE op \in ops : TRUE

\* recoverIntent reads the path's state and, an await later, applies the operation.
\* The preimage: apply.  The postimage: done before.  Anything else: the user's.
recoverLook(d) ==
  /\ pc[d] = "recover" /\ todo[d].ops # {}
  /\ LET op == First(todo[d].ops) now == wt[d][op.path] IN
       /\ found' = IF now \in {op.pre, op.post} THEN found
                   ELSE [found EXCEPT ![d] = @ \union {[path |-> op.path, content |-> now]}]
       /\ IF Untouched(d, op)
          THEN Go(d, "recoverApply") /\ UNCHANGED todo
          ELSE /\ todo' = [todo EXCEPT ![d].ops = @ \ {op}, ![d].bad = @ \/ now # op.post]
               /\ UNCHANGED pc
  /\ UNCHANGED <<wt, commits, persistent, refs, retried, edits, syncFaults>>

recoverOp(d) ==
  /\ pc[d] = "recoverApply"
  /\ LET op == First(todo[d].ops) IN
       /\ wt' = [wt EXCEPT ![d][op.path] = op.post]
       /\ todo' = [todo EXCEPT ![d].ops = @ \ {op}]
  /\ Go(d, "recover")
  /\ UNCHANGED <<commits, persistent, refs, retried, edits, syncFaults, found>>

(***************************************************************************)
(* executeIntent: prepare, materialise, advance the ref, done.             *)
(***************************************************************************)
Plan(d, target, ops, rest) ==
  /\ intent[d] = NoIntent
  /\ intent' = [intent EXCEPT ![d] = [target |-> target, old |-> group[d], ops |-> ops]]
  /\ todo' = [todo EXCEPT ![d] = [rest EXCEPT !.ops = ops]]
  /\ Go(d, "apply")

applyOp(d) ==
  /\ pc[d] = "apply" /\ todo[d].ops # {}
  /\ LET op == First(todo[d].ops) IN
       /\ wt' = [wt EXCEPT ![d][op.path] = op.post]
       /\ todo' = [todo EXCEPT ![d].ops = @ \ {op}]
  /\ UNCHANGED <<commits, persistent, pc, refs, retried, edits, syncFaults, found>>

\* advanceRef reads the ref and writes it later, outside the repository mutex.
advanceRefRead(d) ==
  /\ pc[d] \in {"apply", "recover"} /\ todo[d].ops = {}
  /\ IF group[d] = intent[d].old /\ ~todo[d].bad
     THEN Go(d, "casWrite") /\ UNCHANGED <<refs, todo, retried>>
     ELSE RunEnds(d)
  /\ UNCHANGED <<wt, commits, persistent, history>>

advanceRefWrite(d) ==
  /\ pc[d] = "casWrite"
  /\ group' = [group EXCEPT ![d] = intent[d].target]
  /\ Go(d, "done")
  /\ UNCHANGED <<wt, commits, mode, store, dev, mirror, intent, session, block, refs, todo, retried, history>>

\* The done mark hides the intent from then on; clearing it is housekeeping.
markDone(d) ==
  /\ pc[d] = "done"
  /\ intent' = [intent EXCEPT ![d] = NoIntent]
  /\ found' = [found EXCEPT ![d] = {}]
  /\ Go(d, todo[d].next)
  /\ UNCHANGED <<wt, commits, mode, store, group, dev, mirror, session, block, refs, todo, retried, edits, syncFaults>>

advanceDevice(d) ==
  /\ pc[d] = "advance"
  /\ IF todo[d].asked \/ dev[d] = todo[d].expect
     THEN /\ dev' = [dev EXCEPT ![d] = todo[d].adv]
          /\ block' = IF todo[d].asked THEN [block EXCEPT ![d] = 0] ELSE block
          /\ Go(d, "push") /\ UNCHANGED <<refs, todo, retried>>
     ELSE RunEnds(d) /\ UNCHANGED <<dev, block>>
  /\ UNCHANGED <<wt, commits, mode, store, group, mirror, intent, session, history>>

(***************************************************************************)
(* runTwoway, runOneway.                                                   *)
(***************************************************************************)
Made(d, t, parents) ==
  /\ Len(commits) + syncFaults < MaxCommits
  /\ commits' = Append(commits, [tree |-> t,
                                 anc |-> {Len(commits) + 1} \union UNION {commits[c].anc : c \in parents}])
  /\ store' = [store EXCEPT ![d] = @ \union {Len(commits) + 1}]

\* The first refs: seed, wait, first pull, or a regular round.
firstRefs(d) ==
  /\ pc[d] = "refs" \/ (pc[d] = "idle" /\ intent[d] = NoIntent)
  /\ refs' = [refs EXCEPT ![d] = IF dev[d] = 0 THEN PeerRefs(d) ELSE NoRefs]
  /\ IF mode = "oneway"
     THEN Go(d, IF d = Seed THEN "commit" ELSE "fetch") /\ UNCHANGED <<todo, retried>>
     ELSE CASE dev[d] # 0 -> Go(d, "commit") /\ UNCHANGED <<todo, retried>>
            [] dev[d] = 0 /\ refs'[d].group # 0 -> Go(d, "firstPull") /\ UNCHANGED <<todo, retried>>
            [] dev[d] = 0 /\ refs'[d].group = 0 /\ d = Seed -> Go(d, "commit") /\ UNCHANGED <<todo, retried>>
            [] OTHER -> Go(d, "idle") /\ UNCHANGED <<todo, retried>>  \* waiting for the seed
  /\ UNCHANGED <<wt, commits, persistent, history>>

\* What a scan finds is committed: the tree of the files there are.
scanWorktree(d) == wt[d]

\* commitLocal: a commit when the scan differs from the device line, under the mutex.
commitLocal(d) ==
  /\ pc[d] = "commit"
  /\ IF dev[d] # 0 /\ tree(dev[d]) = scanWorktree(d)
     THEN UNCHANGED <<commits, store, dev>>
     ELSE /\ Made(d, scanWorktree(d), IF dev[d] = 0 THEN {} ELSE {dev[d]})
          /\ dev' = [dev EXCEPT ![d] = Len(commits) + 1]
  /\ Go(d, IF dev[d] = 0 \/ mode = "oneway" THEN "publish" ELSE "fetch")
  /\ UNCHANGED <<wt, mode, group, mirror, intent, session, block, refs, todo, retried, edits, syncFaults, found>>

\* The seed baseline, and each round of a one-way source: group follows device.
publish(d) ==
  /\ pc[d] = "publish"
  /\ LET rest == [NoTodo EXCEPT !.next = "push", !.push = <<<<"group", dev[d]>>, <<"dev", dev[d]>>>>]
     IN  IF group[d] = dev[d]
         THEN /\ todo' = [todo EXCEPT ![d] = rest] /\ Go(d, "push")
              /\ UNCHANGED <<intent>>
         ELSE Plan(d, dev[d], {}, rest)
  /\ refs' = IF mode = "oneway" THEN [refs EXCEPT ![d] = PeerRefs(d)] ELSE refs
  /\ UNCHANGED <<wt, commits, mode, store, group, dev, mirror, session, block, retried, edits, syncFaults, found>>

\* firstPull: an empty worktree takes the baseline, anything else waits for the user.
firstPull(d) ==
  /\ pc[d] = "firstPull"
  /\ LET s == refs[d].group
     IN  \/ /\ s \notin store[d]   \* not pushed yet: reading it throws
            /\ RunEnds(d) /\ UNCHANGED <<intent, block>>
         \/ /\ s \in store[d] /\ wt[d] # Empty
            /\ block' = [block EXCEPT ![d] = s]
            /\ RunEnds(d) /\ UNCHANGED <<intent>>
         \/ /\ s \in store[d] /\ wt[d] = Empty
            /\ Plan(d, s, buildMaterializeOps(d, Empty, tree(s)),
                    [NoTodo EXCEPT !.next = "advance", !.adv = s])
            /\ UNCHANGED <<block, refs, retried>>
  /\ UNCHANGED <<wt, commits, mode, store, group, dev, mirror, session, edits, syncFaults, found>>

\* Mutant: the early return of a fetch that needs no object skips the mirror ref.
MutMirrored(d, r) == IF r.own \in store[d] THEN mirror[d] ELSE r.own
Mirrored(d, r) == IF r.own = 0 THEN mirror[d] ELSE r.own

\* fetchFromPeer: the peer's refs; its device ref is mirrored before any object
\* comes, and a target whose local ref already agrees asks for nothing.
fetchRefs(d) ==
  /\ pc[d] = "fetch"
  /\ LET r == PeerRefs(d)
     IN  /\ refs' = [refs EXCEPT ![d] = r]
         /\ mirror' = [mirror EXCEPT ![d] = Mirrored(d, r)]
         /\ todo' = [todo EXCEPT ![d].ops = ({r.group} \ {0, group[d]}) \union ({r.own} \ {0, mirror[d]})]
  /\ Go(d, "objects")
  /\ UNCHANGED <<wt, commits, mode, store, group, dev, intent, session, block, retried, history>>

importObjects(d) ==
  /\ pc[d] = "objects"
  /\ store' = [store EXCEPT ![d] = @ \union UNION {commits[c].anc \intersect store[Other(d)] : c \in todo[d].ops}]
  /\ todo' = [todo EXCEPT ![d].ops = {}]
  /\ Go(d, "merge")
  /\ UNCHANGED <<wt, commits, mode, group, dev, mirror, intent, session, block, refs, retried, history>>

Pushing(c) == [NoTodo EXCEPT !.next = "push", !.push = <<<<"dev", c>>, <<"group", c>>>>]
Advancing(d, c) == [NoTodo EXCEPT !.next = "advance", !.adv = c, !.expect = dev[d]]
Twoway(d) == pc[d] = "merge" /\ mode = "twoway"

mergeUpToDate(d) ==
  /\ Twoway(d) /\ mirror[d] \in {0, dev[d]}
  /\ todo' = [todo EXCEPT ![d].push =
       (IF refs[d].mine # dev[d] THEN <<<<"dev", dev[d]>>>> ELSE <<>>)
       \o (IF group[d] # 0 /\ refs[d].group # group[d] THEN <<<<"group", group[d]>>>> ELSE <<>>)]
  /\ Go(d, "push")
  /\ UNCHANGED <<wt, commits, persistent, refs, retried, history>>

Differ(d) == Twoway(d) /\ mirror[d] \notin {0, dev[d]}

mergeUnrelated(d) ==
  /\ Differ(d) /\ Common(d, dev[d], mirror[d]) = {}
  /\ RunEnds(d)
  /\ UNCHANGED <<wt, commits, persistent, history>>

mergeFastForward(d) ==
  /\ Differ(d) /\ Common(d, dev[d], mirror[d]) # {}
  /\ LET base == mergeBase(d, dev[d], mirror[d]) c == mirror[d]
     IN  \/ /\ base = dev[d]
            /\ Plan(d, c, buildMaterializeOps(d, tree(dev[d]), tree(c)),
                    [Advancing(d, c) EXCEPT !.push = <<<<"group", c>>>>])
         \/ /\ base = c
            /\ Plan(d, dev[d], {}, Pushing(dev[d]))
  /\ UNCHANGED <<wt, commits, mode, store, group, dev, mirror, session, block, refs, retried, edits, syncFaults, found>>

\* Mutant: the merge commit forgets the device line.
MutParents(d) == {mirror[d]}
Parents(d) == {dev[d], mirror[d]}

mergeThreeWay(d) ==
  /\ Differ(d) /\ Common(d, dev[d], mirror[d]) # {}
  /\ LET base == mergeBase(d, dev[d], mirror[d])
         b == tree(base) o == tree(dev[d]) t == tree(mirror[d])
         c == Len(commits) + 1
     IN  /\ base \notin {dev[d], mirror[d]}
         /\ IF Conflicted(b, o, t) # {}
            THEN /\ session' = [session EXCEPT ![d] = [base |-> base, ours |-> dev[d], theirs |-> mirror[d]]]
                 /\ RunEnds(d)
                 /\ UNCHANGED <<commits, store, intent>>
            ELSE /\ Made(d, mergeTrees(b, o, t), Parents(d))
                 /\ Plan(d, c, buildMaterializeOps(d, o, mergeTrees(b, o, t)),
                         [Advancing(d, c) EXCEPT !.push = <<<<"dev", c>>, <<"group", c>>>>])
                 /\ UNCHANGED <<session, refs, retried>>
  /\ UNCHANGED <<wt, mode, group, dev, mirror, block, edits, syncFaults, found>>

\* The mirror side of a one-way root follows the peer's group ref.
runOneway(d) ==
  /\ pc[d] = "merge" /\ mode = "oneway"
  /\ LET c == refs[d].group
     IN  IF c = 0 \/ (dev[d] = c /\ group[d] = c) \/ (dev[d] # 0 /\ dev[d] \notin Ancestors(d, c)) \/ c \notin store[d]
         THEN RunEnds(d) /\ UNCHANGED <<intent>>
         ELSE /\ Plan(d, c, buildMaterializeOps(d, tree(dev[d]), tree(c)), Advancing(d, c))
              /\ UNCHANGED <<refs, retried>>
  /\ UNCHANGED <<wt, commits, mode, store, group, dev, mirror, session, block, edits, syncFaults, found>>

(***************************************************************************)
(* pushToPeer and the peer's handlePush: the whole closure, then CAS.      *)
(***************************************************************************)
Known(d, ref) == IF ref = "dev" THEN refs[d].mine ELSE refs[d].group
Current(d, ref) == IF ref = "dev" THEN mirror[Other(d)] ELSE group[Other(d)]

\* Mutant: the ref moves without the import.
MutImported(e, c) == store
Imported(e, c) == [store EXCEPT ![e] = @ \union commits[c].anc]

handlePush(d, ref, c) ==
  LET e == Other(d) IN
  /\ store' = Imported(e, c)
  /\ IF ref = "dev" THEN mirror' = [mirror EXCEPT ![e] = c] /\ UNCHANGED group
                    ELSE group' = [group EXCEPT ![e] = c] /\ UNCHANGED mirror

pushToPeer(d) ==
  /\ pc[d] = "push"
  /\ IF todo[d].push = <<>> THEN RunEnds(d) /\ UNCHANGED <<store, group, mirror, syncFaults>> ELSE
     LET ref == Head(todo[d].push)[1] c == Head(todo[d].push)[2]
         Pushed == IF Tail(todo[d].push) = <<>> THEN RunEnds(d)
                  ELSE todo' = [todo EXCEPT ![d].push = Tail(@)] /\ UNCHANGED <<pc, refs, retried>>
     IN  CASE Known(d, ref) = c ->
                Pushed /\ UNCHANGED <<store, group, mirror, syncFaults>>
           [] Known(d, ref) # c /\ Current(d, ref) = Known(d, ref) ->
                /\ handlePush(d, ref, c)
                /\ \/ Pushed /\ UNCHANGED syncFaults
                   \/ OneFault /\ RunEnds(d)   \* the answer is lost
           [] OTHER ->   \* push-cas: fetch and merge once more, then give up
                /\ UNCHANGED <<store, group, mirror, syncFaults>>
                /\ IF retried[d] \/ mode = "oneway" \/ todo[d].asked THEN RunEnds(d)
                   ELSE /\ todo' = [todo EXCEPT ![d] = NoTodo]
                        /\ retried' = [retried EXCEPT ![d] = TRUE]
                        /\ refs' = [refs EXCEPT ![d] = NoRefs]
                        /\ Go(d, "refs")
  /\ UNCHANGED <<wt, commits, mode, dev, intent, session, block, edits, found>>

(***************************************************************************)
(* The user's decisions.                                                   *)
(***************************************************************************)
\* resolveConflicts: ours, theirs or deletion per conflicting path.
resolveConflicts(d) ==
  /\ pc[d] = "idle" /\ session[d] # NoSession
  /\ LET s == session[d] bad == Conflicted(tree(s.base), tree(s.ours), tree(s.theirs))
         c == Len(commits) + 1
     IN  \E choice \in [bad -> {"ours", "theirs", "delete"}] :
           LET final == [p \in Paths |->
                 IF p \notin bad THEN mergeTrees(tree(s.base), tree(s.ours), tree(s.theirs))[p]
                 ELSE CASE choice[p] = "ours" -> tree(s.ours)[p]
                        [] choice[p] = "theirs" -> tree(s.theirs)[p]
                        [] OTHER -> 0]
           IN  /\ Made(d, final, {s.ours, s.theirs})
               /\ Plan(d, c, buildMaterializeOps(d, tree(s.ours), final),
                       [Advancing(d, c) EXCEPT !.asked = TRUE, !.push = <<<<"dev", c>>, <<"group", c>>>>])
  /\ session' = [session EXCEPT ![d] = NoSession]
  /\ refs' = [refs EXCEPT ![d] = PeerRefs(d)]
  /\ UNCHANGED <<wt, mode, group, dev, mirror, block, retried, edits, syncFaults, found>>

\* resolveSeedBlock: adopt-seed, explicitly giving up the local files.
resolveSeedBlock(d) ==
  /\ pc[d] = "idle" /\ block[d] # 0
  /\ LET t == tree(block[d])
     IN  Plan(d, block[d], buildMaterializeOps(d, wt[d], t), [Advancing(d, block[d]) EXCEPT !.asked = TRUE])
  /\ UNCHANGED <<wt, commits, mode, store, group, dev, mirror, session, block, refs, retried, edits, syncFaults, found>>

(***************************************************************************)
(* Specification.                                                          *)
(***************************************************************************)
Run(d) ==
  \/ recoverIntent(d) \/ recoverLook(d) \/ recoverOp(d) \/ applyOp(d) \/ advanceRefRead(d) \/ advanceRefWrite(d)
  \/ markDone(d) \/ advanceDevice(d) \/ firstRefs(d) \/ commitLocal(d) \/ publish(d) \/ firstPull(d)
  \/ fetchRefs(d) \/ importObjects(d) \/ mergeUpToDate(d) \/ mergeUnrelated(d)
  \/ mergeFastForward(d) \/ mergeThreeWay(d) \/ runOneway(d) \/ pushToPeer(d)

SyncNext == \E d \in Devices : Edit(d) \/ RunFails(d) \/ Run(d) \/ resolveConflicts(d) \/ resolveSeedBlock(d)

\* The scheduler's interval starts runs for ever; a run's steps are taken.
SyncFairness == \A d \in Devices : WF_syncVars(Run(d))
SyncSpec == SyncInit /\ [][SyncNext]_syncVars
SyncFairSpec == SyncSpec /\ SyncFairness

(***************************************************************************)
(* Properties.                                                             *)
(***************************************************************************)
\* The refs and what each device remembers stay in their domains; a run that
\* touches the worktree or the group ref has its intent on disk.
SyncTypeOK ==
  /\ \A d \in Devices : pc[d] \in {"recover", "recoverApply", "apply", "casWrite", "done"} => intent[d] # NoIntent
  /\ wt \in [Devices -> [Paths -> Contents]]
  /\ \A d \in Devices :
       /\ {group[d], dev[d], mirror[d], block[d], intent[d].target, intent[d].old} \subseteq 0..Len(commits)
       /\ store[d] \subseteq 1..Len(commits)
       /\ pc[d] \in {"idle", "refs", "recover", "recoverApply", "apply", "casWrite", "done", "advance", "commit",
                     "publish", "firstPull", "fetch", "objects", "merge", "push"}
  /\ edits \subseteq Writers /\ syncFaults \in 0..MaxSyncFaults

\* The group and device refs never name a commit whose history the store lacks,
\* whatever was pushed, cut off or replayed.
RefsClosed ==
  \A d \in Devices : \A c \in {group[d], dev[d]} \ {0} : commits[c].anc \subseteq store[d]

\* Unless the user decided otherwise, a device's line only grows: what it
\* committed stays in its history.
DeviceForward ==
  [][\A d \in Devices : dev'[d] # dev[d] /\ dev[d] # 0 /\ ~todo[d].asked => dev[d] \in commits'[dev'[d]].anc]_syncVars

\* An edit a recovery has found under a path of the intent stays in the worktree until
\* its user changes it: through the recoveries, restarts and pushes that follow.
RecoveryKeepsEdits == \A d \in Devices : \A e \in found[d] : wt[d][e.path] = e.content

\* Neither the refs nor the user's files are damaged (engine.mjs, intent.mjs).
SyncHolds == RefsClosed /\ RecoveryKeepsEdits

\* No edit is written over: neither one between a recovery's look at a path and its
\* write, nor one between a run's plan and its write (intent.mjs, refuted).
NeverOverwritten ==
  [][\A d \in Devices : pc[d] \in {"apply", "recoverApply"} /\ wt'[d] # wt[d] /\ edits' = edits =>
       \E op \in todo[d].ops : wt[d][op.path] = op.pre /\ wt'[d][op.path] = op.post]_syncVars

Stopped(d) == session[d] # NoSession \/ block[d] # 0 \/ intent[d] # NoIntent

\* The bound keeps a run from the commit it needs.
OutOfCommits(d) ==
  /\ Len(commits) + syncFaults = MaxCommits
  /\ \/ pc[d] = "commit" /\ (dev[d] = 0 \/ tree(dev[d]) # scanWorktree(d))
     \/ Differ(d) /\ Common(d, dev[d], mirror[d]) \intersect {dev[d], mirror[d]} = {}

\* When edits and failures stop, both worktrees of a two-way root become equal,
\* three-way merges included, unless a device waits for its user, a baseline was never
\* published, or a run stands still for want of a commit.
Converges ==
  <>[](mode = "twoway" => \/ \E d \in Devices : Stopped(d) \/ OutOfCommits(d)
                          \/ group[Seed] = 0
                          \/ \A d, e \in Devices : wt[d] = wt[e])

\* A seed with content publishes its baseline, which the other side waits for.
BaselinePublished == (mode = "twoway" /\ dev[Seed] # 0) ~> group[Seed] # 0
=============================================================================
