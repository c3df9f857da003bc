------------------------- MODULE Extensions_proofs -------------------------
(***************************************************************************)
(* Theorems about the plugins: files, the AI provider's store and its      *)
(* exchanges, the AI consumer's endpoints, and the sidecar's API, for any  *)
(* values of the constants.                                                *)
(*                                                                         *)
(* The first two invariants follow one thought: what lies in several       *)
(* places is sound in each of them.  A file is whole in the share, and so  *)
(* is every copy on its way there or out of it; the store's data are sound *)
(* in the memory and in the file, and so is every text or snapshot that    *)
(* may replace either.                                                     *)
(***************************************************************************)
EXTENDS Extensions, FiniteSetTheorems, TLAPS

(***************************************************************************)
(* The files plugin.  A step of a request changes its own record only, and *)
(* of that the step, what it has got, or all of it.                        *)
(***************************************************************************)
RequestRecords ==
  /\ req = [r \in Requests |-> req[r]]
  /\ \A r \in Requests :
       req[r] = [op |-> req[r].op, step |-> req[r].step, path |-> req[r].path,
                 seq |-> req[r].seq, ver |-> req[r].ver, got |-> req[r].got]
TreeTyped == dest = [p \in Paths |-> dest[p]]

IsWhole(f) == \E v \in Versions : f = Whole(v)

InGate(r) == req[r].step \in {"run", "copy", "clean"}
Copies(r) == At(r, "commit", "copy")

\* What a request has in hand.
RequestStands(r) ==
  /\ InGate(r) => gate = r
  /\ req[r].op = "commit" => req[r].ver \in Versions
  /\ req[r].op = "commit" /\ req[r].step \in {"gate", "run"} => req[r].got = <<>>
  /\ Copies(r) => temp = req[r].got
  /\ req[r].op = "read" => req[r].path \in Paths /\ load.step = "slice"
  /\ At(r, "read", "stream") => IsWhole(req[r].got)

\* The temporary file of the commit in the gate is the only one there is.
TempIsCopied == faults \in Nat /\ (faults = 0 => temp = NoFile \/ (gate \in Requests /\ Copies(gate)))

\* A download that has begun ends with the digest of a whole file.
LoadStands ==
  /\ load = [step |-> load.step, path |-> load.path, parts |-> load.parts,
             oid |-> load.oid, size |-> load.size, ok |-> load.ok]
  /\ load.step = "slice" => load.path \in Paths
  /\ Len(load.parts) + 1 # 1 => IsWhole(load.oid)

OneReader == \A r, s \in Requests : req[r].op = "read" /\ req[s].op = "read" => r = s

FilesInv ==
  /\ RequestRecords /\ TreeTyped /\ OneReader
  /\ \A r \in Requests : RequestStands(r)
  /\ TempIsCopied /\ LoadStands
  /\ WholeFiles /\ DownloadWhole
  /\ SlotsExact

LEMMA FilesBase == ASSUME NEW staging, FilesInit(staging) PROVE FilesInv
<1> USE FilesAssumption DEF FilesInit, NoReq, NoLoad
<1>1. RequestRecords /\ TreeTyped /\ OneReader
  BY DEF RequestRecords, TreeTyped, OneReader
<1>2. ASSUME NEW r \in Requests PROVE RequestStands(r)
  BY DEF RequestStands, InGate, Copies, At
<1>3. TempIsCopied /\ WholeFiles
  BY DEF TempIsCopied, WholeFiles
<1>4. LoadStands /\ DownloadWhole
  <2>1. Len(<<>>) = 0
    OBVIOUS
  <2> QED
    BY <2>1 DEF LoadStands, DownloadWhole
<1>5. SlotsExact
  <2>1. Transfers = {}
    BY DEF Transfers, At
  <2> QED
    BY <2>1, FS_EmptySet DEF SlotsExact
<1> QED
  BY <1>1, <1>2, <1>3, <1>4, <1>5 DEF FilesInv

(***************************************************************************)
(* What becomes of the requests' records.                                  *)
(***************************************************************************)
OthersStay(r) == \A s \in Requests : s # r => req'[s] = req[s]

LEMMA BeginFacts ==
  ASSUME RequestRecords, NEW r \in Requests, NEW op, NEW step, NEW p, NEW i, NEW v, Begin(r, op, step, p, i, v)
  PROVE  /\ RequestRecords' /\ OthersStay(r) /\ req[r] = NoReq
         /\ req'[r].op = op /\ req'[r].step = step /\ req'[r].path = p /\ req'[r].ver = v /\ req'[r].got = <<>>
<1>1. req'[r] = [op |-> op, step |-> step, path |-> p, seq |-> i, ver |-> v, got |-> <<>>]
  BY DEF RequestRecords, Begin
<1>2. OthersStay(r) /\ req' = [s \in Requests |-> req'[s]]
  BY DEF RequestRecords, Begin, OthersStay
<1>3. RequestRecords'
  BY <1>1, <1>2 DEF RequestRecords, OthersStay
<1> QED
  BY <1>1, <1>2, <1>3 DEF Begin

LEMMA GoFacts ==
  ASSUME RequestRecords, NEW r \in Requests, NEW step, Go(r, step)
  PROVE  /\ RequestRecords' /\ OthersStay(r)
         /\ req'[r].step = step
         /\ req'[r].op = req[r].op /\ req'[r].path = req[r].path
         /\ req'[r].ver = req[r].ver /\ req'[r].got = req[r].got
<1>1. req'[r] = [op |-> req[r].op, step |-> step, path |-> req[r].path,
                 seq |-> req[r].seq, ver |-> req[r].ver, got |-> req[r].got]
  <2>1. req'[r] = [req[r] EXCEPT !.step = step]
    BY DEF RequestRecords, Go
  <2>2. req[r] = [op |-> req[r].op, step |-> req[r].step, path |-> req[r].path,
                  seq |-> req[r].seq, ver |-> req[r].ver, got |-> req[r].got]
    BY DEF RequestRecords
  <2> QED
    BY <2>1, <2>2
<1>2. OthersStay(r) /\ req' = [s \in Requests |-> req'[s]]
  BY DEF RequestRecords, Go, OthersStay
<1>3. RequestRecords'
  BY <1>1, <1>2 DEF RequestRecords, OthersStay
<1> QED
  BY <1>1, <1>2, <1>3

LEMMA AnsweredFacts ==
  ASSUME RequestRecords, NEW r \in Requests, Answered(r)
  PROVE  RequestRecords' /\ OthersStay(r) /\ req'[r] = NoReq
<1>1. req'[r] = NoReq /\ OthersStay(r) /\ req' = [s \in Requests |-> req'[s]]
  BY DEF RequestRecords, Answered, OthersStay
<1>2. RequestRecords'
  BY <1>1 DEF RequestRecords, OthersStay, NoReq
<1> QED
  BY <1>1, <1>2

(***************************************************************************)
(* What a step of one request leaves standing.                             *)
(***************************************************************************)
LEMMA TransfersChange ==
  ASSUME NEW r \in Requests, OthersStay(r)
  PROVE  /\ (r \in Transfers <=> r \in Transfers') => Transfers' = Transfers
         /\ r \notin Transfers /\ r \in Transfers' => Transfers' = Transfers \cup {r}
         /\ r \in Transfers /\ r \notin Transfers' => Transfers' = Transfers \ {r}
<1>1. \A s \in Requests : s # r => (s \in Transfers <=> s \in Transfers')
  BY DEF OthersStay, Transfers, At
<1>2. Transfers \subseteq Requests /\ Transfers' \subseteq Requests
  BY DEF Transfers
<1> QED
  BY <1>1, <1>2

LEMMA FiniteTransfers == IsFiniteSet(Transfers) /\ Cardinality(Transfers) \in Nat
<1>1. Transfers \subseteq Requests
  BY DEF Transfers
<1> QED
  BY <1>1, FilesAssumption, FS_Subset, FS_CardinalityType

LEMMA SlotKept ==
  ASSUME SlotsExact, NEW r \in Requests, OthersStay(r), slots' = slots, r \in Transfers <=> r \in Transfers'
  PROVE  SlotsExact'
  BY TransfersChange DEF SlotsExact

LEMMA SlotTaken ==
  ASSUME SlotsExact, NEW r \in Requests, OthersStay(r), SlotFree, slots' = slots + 1,
         r \notin Transfers, r \in Transfers'
  PROVE  SlotsExact'
<1>1. Cardinality(Transfers') = Cardinality(Transfers) + 1
  BY TransfersChange, FiniteTransfers, FS_AddElement
<1> QED
  BY <1>1, FiniteTransfers, FilesAssumption DEF SlotsExact, SlotFree

LEMMA SlotReleased ==
  ASSUME SlotsExact, NEW r \in Requests, OthersStay(r), ReleaseSlot, r \in Transfers, r \notin Transfers'
  PROVE  SlotsExact'
<1>1. Cardinality(Transfers') = Cardinality(Transfers) - 1
  BY TransfersChange, FiniteTransfers, FS_RemoveElement
<1> QED
  BY <1>1, FiniteTransfers, FilesAssumption DEF SlotsExact, ReleaseSlot

\* The gate is passed on, and the temporary file touched, by its holder only;
\* a reader is alone with the download.
GateOf(r) ==
  /\ req'[r].op = "read" \/ load' # load => \A s \in Requests : s # r => req[s].op # "read"
  /\ gate' = gate \/ (gate = r /\ gate' = "none") \/ (gate = "none" /\ gate' = r)
  /\ temp' = temp \/ gate = r

LEMMA OthersStand ==
  ASSUME \A s \in Requests : RequestStands(s), NEW r \in Requests, OthersStay(r), GateOf(r)
  PROVE  \A s \in Requests : s # r => RequestStands(s)'
<1> SUFFICES ASSUME NEW s \in Requests, s # r PROVE RequestStands(s)'
  OBVIOUS
<1>1. /\ RequestStands(s) /\ req'[s] = req[s] /\ s # "none"
      /\ req[s].op = "read" => load' = load
  BY FilesAssumption DEF OthersStay, GateOf
<1>2. InGate(s) => gate' = s /\ temp' = temp
  BY <1>1 DEF RequestStands, GateOf
<1>3. Copies(s) => InGate(s)
  BY DEF Copies, At, InGate
<1> QED
  BY <1>1, <1>2, <1>3 DEF RequestStands, InGate, Copies, At

LEMMA OneReaderStays ==
  ASSUME FilesInv, NEW r \in Requests, OthersStay(r), GateOf(r) PROVE OneReader'
  BY DEF FilesInv, OneReader, OthersStay, GateOf

\* A step that leaves the tree alone but may move the download.
LEMMA LoadStep ==
  ASSUME FilesInv, NEW r \in Requests, RequestRecords', OthersStay(r), ~Copies(r),
         GateOf(r), UNCHANGED <<dest, temp, faults>>,
         RequestStands(r)', SlotsExact', LoadStands', DownloadWhole'
  PROVE  FilesInv'
<1>1. \A s \in Requests : RequestStands(s)'
  BY OthersStand DEF FilesInv
<1>2. TempIsCopied'
  <2>1. faults \in Nat /\ (faults = 0 => temp = NoFile \/ (gate \in Requests /\ Copies(gate)))
    BY DEF FilesInv, TempIsCopied
  <2>2. gate \in Requests /\ Copies(gate) => gate # r /\ gate' = gate /\ Copies(gate)'
    BY FilesAssumption DEF GateOf, Copies, At, OthersStay
  <2> QED
    BY <2>1, <2>2 DEF TempIsCopied
<1>3. TreeTyped' /\ WholeFiles'
  BY DEF FilesInv, TreeTyped, WholeFiles
<1>4. OneReader'
  BY OneReaderStays
<1> QED
  BY <1>1, <1>2, <1>3, <1>4 DEF FilesInv

\* A step that is none of a copy, of the tree, or of the download.
LEMMA PlainStep ==
  ASSUME FilesInv, NEW r \in Requests, RequestRecords', OthersStay(r), ~Copies(r),
         GateOf(r), UNCHANGED <<dest, temp, faults, load>>,
         RequestStands(r)', SlotsExact'
  PROVE  FilesInv'
<1>1. LoadStands' /\ DownloadWhole'
  BY DEF FilesInv, LoadStands, DownloadWhole
<1> QED
  BY <1>1, LoadStep

\* What becomes of the download's record: it fails, or a slice is put to it.
LoadRecord ==
  load = [step |-> load.step, path |-> load.path, parts |-> load.parts,
          oid |-> load.oid, size |-> load.size, ok |-> load.ok]

LEMMA FailedLoad ==
  ASSUME LoadStands, DownloadWhole, load' = [load EXCEPT !.step = "failed"]
  PROVE  LoadStands' /\ DownloadWhole'
<1>1. LoadRecord
  BY DEF LoadStands, LoadRecord
<1>2. load' = [step |-> "failed", path |-> load.path, parts |-> load.parts,
               oid |-> load.oid, size |-> load.size, ok |-> load.ok]
  BY <1>1 DEF LoadRecord
<1> QED
  BY <1>2 DEF LoadStands, DownloadWhole

LEMMA SlicedLoad ==
  ASSUME LoadStands, DownloadWhole, NEW parts, NEW oid, IsWhole(oid),
         load.step # "done",
         \/ load' = [load EXCEPT !.parts = parts, !.oid = oid]
         \/ load' = [load EXCEPT !.parts = parts, !.oid = oid, !.step = IF parts = oid THEN "done" ELSE "failed"]
  PROVE  LoadStands' /\ DownloadWhole'
<1>1. LoadRecord
  BY DEF LoadStands, LoadRecord
<1>2. \E step : /\ load' = [step |-> step, path |-> load.path, parts |-> parts,
                            oid |-> oid, size |-> load.size, ok |-> load.ok]
                /\ (step = load.step /\ step # "done") \/ step = "failed" \/ (step = "done" /\ parts = oid)
  BY <1>1 DEF LoadRecord
<1> QED
  BY <1>2 DEF LoadStands, DownloadWhole, IsWhole

(***************************************************************************)
(* The steps.                                                              *)
(***************************************************************************)
\* A request arrives, for the staging directory, the gate or a read.
LEMMA BeginStep ==
  ASSUME FilesInv, NEW r \in Requests, NEW op \in {"chunk", "commit", "delete", "rename", "read"},
         NEW step \in {"body", "gate"}, NEW p, NEW i, NEW v, Begin(r, op, step, p, i, v),
         op = "commit" => v \in Versions,
         op = "read" => p \in Paths /\ load.step = "slice" /\ \A s \in Requests : req[s].op # "read",
         op = "chunk" <=> step = "body",
         IF op \in {"chunk", "read"} THEN SlotFree /\ slots' = slots + 1 ELSE UNCHANGED slots,
         UNCHANGED <<dest, temp, gate, faults, load>>
  PROVE  FilesInv'
<1>1. /\ RequestRecords' /\ OthersStay(r) /\ req[r] = NoReq
      /\ req'[r].op = op /\ req'[r].step = step /\ req'[r].path = p /\ req'[r].ver = v /\ req'[r].got = <<>>
  BY BeginFacts DEF FilesInv
<1>2. ~Copies(r) /\ GateOf(r)
  BY <1>1 DEF Copies, At, NoReq, GateOf
<1>3. RequestStands(r)'
  BY <1>1 DEF RequestStands, InGate, Copies, At
<1>4. SlotsExact'
  <2>1. r \notin Transfers /\ (r \in Transfers' <=> op \in {"chunk", "read"})
    BY <1>1 DEF Transfers, At, NoReq
  <2>2. CASE op \in {"chunk", "read"}
    BY <2>1, <2>2, <1>1, SlotTaken DEF FilesInv
  <2>3. CASE op \notin {"chunk", "read"}
    BY <2>1, <2>3, <1>1, SlotKept DEF FilesInv
  <2> QED
    BY <2>2, <2>3
<1> QED
  BY <1>1, <1>2, <1>3, <1>4, PlainStep

\* The staging of a chunk, outside of the gate.
LEMMA ChunkStep ==
  ASSUME FilesInv, NEW r \in Requests,
         ChunkBody(r) \/ Look(r) \/ Bind(r) \/ OpenTmp(r) \/ Winner(r) \/ Store(r)
  PROVE  FilesInv'
<1> USE DEF stageVars, treeVars
<1>1. /\ req[r].op = "chunk" /\ req[r].step \in {"body", "look", "meta", "tmp", "winner", "rename"}
      /\ UNCHANGED <<dest, temp, gate, faults, load>>
  BY DEF ChunkBody, Look, Bind, OpenTmp, Winner, Store, At
<1>2. Answered(r) \/ \E step \in {"look", "meta", "tmp", "winner", "rename"} : Go(r, step)
  BY DEF ChunkBody, Look, Bind, OpenTmp, Winner, Store
<1>3. /\ RequestRecords' /\ OthersStay(r)
      /\ req'[r] = NoReq \/ (req'[r].op = "chunk" /\ req'[r].step \in {"look", "meta", "tmp", "winner", "rename"})
  BY <1>1, <1>2, AnsweredFacts, GoFacts DEF FilesInv
<1>4. ~Copies(r) /\ GateOf(r)
  BY <1>1, <1>3 DEF Copies, At, GateOf, NoReq
<1>5. RequestStands(r)'
  BY <1>3 DEF RequestStands, InGate, Copies, At, NoReq
<1>6. SlotsExact'
  <2>1. r \notin Transfers'
    BY <1>3 DEF Transfers, At, NoReq
  <2>2. CASE ChunkBody(r)
    <3>1. r \in Transfers /\ ReleaseSlot
      BY <2>2 DEF ChunkBody, Transfers
    <3> QED
      BY <3>1, <2>1, <1>3, SlotReleased DEF FilesInv
  <2>3. CASE ~ChunkBody(r)
    <3>1. r \notin Transfers /\ UNCHANGED slots
      BY <2>3, <1>1 DEF Look, Bind, OpenTmp, Winner, Store, Transfers, At
    <3> QED
      BY <3>1, <2>1, <1>3, SlotKept DEF FilesInv
  <2> QED
    BY <2>2, <2>3
<1> QED
  BY <1>1, <1>3, <1>4, <1>5, <1>6, PlainStep

LEMMA EnterStep == ASSUME FilesInv, NEW r \in Requests, Enter(r) PROVE FilesInv'
<1> USE DEF Enter, stageVars, treeVars
<1>1. /\ RequestRecords' /\ OthersStay(r) /\ req'[r].step = "run"
      /\ req'[r].op = req[r].op /\ req'[r].path = req[r].path
      /\ req'[r].ver = req[r].ver /\ req'[r].got = req[r].got
  BY GoFacts DEF FilesInv
<1>2. ~Copies(r) /\ GateOf(r)
  BY <1>1 DEF Copies, At, GateOf, FilesInv, OneReader
<1>3. RequestStands(r)'
  BY <1>1 DEF FilesInv, RequestStands, InGate, Copies, At
<1>4. SlotsExact'
  <2>1. r \in Transfers <=> r \in Transfers'
    BY <1>1 DEF Transfers, At
  <2> QED
    BY <2>1, <1>1, SlotKept DEF FilesInv
<1> QED
  BY <1>1, <1>2, <1>3, <1>4, PlainStep

\* The holder of the gate ends: its record is free, the temporary file gone
\* or as it was, when it was no copy.
LEMMA LeaveStep ==
  ASSUME FilesInv, NEW r \in Requests, InGate(r), req[r].op # "read", Answered(r), Leave(r),
         temp' = NoFile \/ (UNCHANGED temp /\ ~Copies(r)),
         UNCHANGED <<slots, faults, load>>, TreeTyped', WholeFiles'
  PROVE  FilesInv'
<1>1. gate = r /\ r # "none"
  BY FilesAssumption DEF FilesInv, RequestStands
<1>2. RequestRecords' /\ OthersStay(r) /\ req'[r] = NoReq
  BY AnsweredFacts DEF FilesInv
<1>3. RequestStands(r)' /\ GateOf(r)
  BY <1>1, <1>2 DEF RequestStands, InGate, Copies, At, NoReq, GateOf, Leave
<1>4. \A s \in Requests : RequestStands(s)'
  BY <1>2, <1>3, OthersStand DEF FilesInv
<1>5. TempIsCopied'
  BY <1>1 DEF FilesInv, TempIsCopied
<1>6. LoadStands' /\ DownloadWhole'
  BY DEF FilesInv, LoadStands, DownloadWhole
<1>7. SlotsExact'
  <2>1. r \notin Transfers /\ r \notin Transfers'
    BY <1>2 DEF Transfers, At, InGate, NoReq
  <2> QED
    BY <2>1, <1>2, SlotKept DEF FilesInv
<1> QED
  BY <1>2, <1>3, <1>4, <1>5, <1>6, <1>7, OneReaderStays DEF FilesInv

\* The holder of the gate goes on with a commit.
LEMMA CommitGoesOn ==
  ASSUME FilesInv, NEW r \in Requests, InGate(r), req[r].op = "commit", UNCHANGED gate,
         RequestRecords', OthersStay(r), req'[r].op = "commit", req'[r].step \in {"copy", "clean"},
         req'[r].ver = req[r].ver,
         IF req'[r].step = "copy" THEN temp' = req'[r].got ELSE temp' = NoFile,
         UNCHANGED <<slots, faults, load>>, TreeTyped', WholeFiles'
  PROVE  FilesInv'
<1>1. gate = r
  BY DEF FilesInv, RequestStands
<1>2. RequestStands(r)' /\ GateOf(r)
  BY <1>1 DEF FilesInv, RequestStands, InGate, Copies, At, GateOf
<1>3. \A s \in Requests : RequestStands(s)'
  BY <1>2, OthersStand DEF FilesInv
<1>4. TempIsCopied'
  BY <1>1 DEF FilesInv, TempIsCopied, Copies, At
<1>5. LoadStands' /\ DownloadWhole'
  BY DEF FilesInv, LoadStands, DownloadWhole
<1>6. SlotsExact'
  <2>1. r \notin Transfers /\ r \notin Transfers'
    BY DEF Transfers, At
  <2> QED
    BY <2>1, SlotKept DEF FilesInv
<1> QED
  BY <1>2, <1>3, <1>4, <1>5, <1>6, OneReaderStays DEF FilesInv

LEMMA TreeKept == ASSUME FilesInv, UNCHANGED dest PROVE TreeTyped' /\ WholeFiles'
  BY DEF FilesInv, TreeTyped, WholeFiles

\* What a path gets is nothing or a whole file.
LEMMA TreeStep ==
  ASSUME FilesInv, NEW p, NEW f, f = NoFile \/ IsWhole(f), dest' = [dest EXCEPT ![p] = f]
  PROVE  TreeTyped' /\ WholeFiles'
  BY DEF FilesInv, TreeTyped, WholeFiles, IsWhole

LEMMA CommitStep ==
  ASSUME FilesInv, NEW r \in Requests, CommitCheck(r) \/ Copy(r) \/ Commit(r) \/ CommitDone(r)
  PROVE  FilesInv'
<1> USE DEF stageVars, treeVars
<1>1. CASE CommitCheck(r)
  <2> USE <1>1 DEF CommitCheck, At
  <2>1. InGate(r) /\ ~Copies(r) /\ TreeTyped' /\ WholeFiles'
    BY TreeKept DEF InGate, Copies
  <2>2. CASE Covered(r)
    <3>1. /\ RequestRecords' /\ OthersStay(r) /\ req'[r].step = "copy"
          /\ req'[r].op = "commit" /\ req'[r].ver = req[r].ver /\ req'[r].got = <<>>
      BY <2>2, GoFacts DEF FilesInv, RequestStands
    <3> QED
      BY <2>1, <2>2, <3>1, CommitGoesOn DEF NoFile
  <2>3. CASE ~Covered(r)
    BY <2>1, <2>3, LeaveStep
  <2> QED
    BY <2>2, <2>3
<1>2. CASE Copy(r)
  <2> USE <1>2 DEF Copy, At
  <2> DEFINE c == staged[Len(req[r].got) + 1]
  <2>1. InGate(r) /\ Copies(r) /\ TreeTyped' /\ WholeFiles'
    BY TreeKept DEF InGate, Copies
  <2>2. CASE c = 0
    BY <2>1, <2>2, LeaveStep DEF DropTemp
  <2>3. CASE c # 0
    <3>1. temp' = Append(temp, c) /\ req' = [req EXCEPT ![r].got = Append(@, c)] /\ UNCHANGED gate
      BY <2>3
    <3>2. /\ RequestRecords' /\ OthersStay(r) /\ req'[r].step = "copy" /\ req'[r].op = "commit"
          /\ req'[r].ver = req[r].ver /\ req'[r].got = Append(req[r].got, c)
      <4> HIDE DEF c
      <4>1. req'[r] = [req[r] EXCEPT !.got = Append(req[r].got, c)] /\ OthersStay(r)
            /\ req' = [s \in Requests |-> req'[s]]
        BY <3>1 DEF FilesInv, RequestRecords, OthersStay
      <4>2. req[r] = [op |-> req[r].op, step |-> req[r].step, path |-> req[r].path,
                      seq |-> req[r].seq, ver |-> req[r].ver, got |-> req[r].got]
        BY DEF FilesInv, RequestRecords
      <4>3. req'[r] = [op |-> req[r].op, step |-> req[r].step, path |-> req[r].path,
                       seq |-> req[r].seq, ver |-> req[r].ver, got |-> Append(req[r].got, c)]
        BY <4>1, <4>2
      <4> QED
        BY <4>1, <4>3 DEF FilesInv, RequestRecords, OthersStay
    <3>3. temp' = req'[r].got
      BY <3>1, <3>2, <2>1 DEF FilesInv, RequestStands
    <3> QED
      BY <2>1, <3>1, <3>2, <3>3, CommitGoesOn
  <2> QED
    BY <2>2, <2>3
<1>3. CASE Commit(r)
  <2> USE <1>3 DEF Commit, At
  <2>1. InGate(r) /\ Copies(r)
    BY DEF InGate, Copies
  <2>2. CASE DigestHolds(r)
    <3>1. IsWhole(temp)
      BY <2>1, <2>2 DEF FilesInv, RequestStands, DigestHolds, IsWhole
    <3>2. TreeTyped' /\ WholeFiles'
      BY <2>2, <3>1, TreeStep
    <3>3. /\ RequestRecords' /\ OthersStay(r) /\ req'[r].step = "clean"
          /\ req'[r].op = "commit" /\ req'[r].ver = req[r].ver
      BY <2>2, GoFacts DEF FilesInv
    <3> QED
      BY <2>1, <2>2, <3>2, <3>3, CommitGoesOn
  <2>3. CASE ~DigestHolds(r)
    BY <2>1, <2>3, TreeKept, LeaveStep DEF DropTemp
  <2> QED
    BY <2>2, <2>3
<1>4. CASE CommitDone(r)
  <2> USE <1>4 DEF CommitDone, At
  <2>1. InGate(r) /\ ~Copies(r)
    BY DEF InGate, Copies
  <2> QED
    BY <2>1, TreeKept, LeaveStep
<1> QED
  BY <1>1, <1>2, <1>3, <1>4

LEMMA AlterStep ==
  ASSUME FilesInv, NEW r \in Requests, deleteEntry(r) \/ renameEntry(r) PROVE FilesInv'
<1> USE DEF deleteEntry, renameEntry, At, stageVars
<1>1. InGate(r) /\ ~Copies(r) /\ req[r].op # "read"
  BY DEF InGate, Copies
<1>2. IsWhole(Whole(1))
  BY FilesAssumption DEF IsWhole
<1>3. \E f : (f = NoFile \/ IsWhole(f)) /\ dest' = [dest EXCEPT ![req[r].path] = f]
  BY <1>2
<1>4. TreeTyped' /\ WholeFiles'
  BY <1>3, TreeStep
<1> QED
  BY <1>1, <1>4, LeaveStep

\* A read: the file is opened in the gate and streamed outside of it.
LEMMA ReadStep ==
  ASSUME FilesInv, NEW r \in Requests, OpenForRead(r) \/ Stream(r) PROVE FilesInv'
<1> USE DEF stageVars, treeVars
<1>1. CASE OpenForRead(r)
  <2> USE <1>1 DEF OpenForRead, At
  <2>1. InGate(r) /\ ~Copies(r) /\ gate = r /\ req[r].path \in Paths /\ load.step = "slice"
    BY DEF InGate, Copies, FilesInv, RequestStands
  <2>2. GateOf(r) /\ UNCHANGED <<dest, temp, faults>>
    BY <2>1 DEF GateOf, Leave, FilesInv, OneReader
  <2> DEFINE f == dest[req[r].path]
  <2>3. CASE f = NoFile
    <3>1. RequestRecords' /\ OthersStay(r) /\ req'[r] = NoReq
      BY <2>3, AnsweredFacts DEF FilesInv
    <3>2. SlotsExact'
      <4>1. r \in Transfers /\ r \notin Transfers'
        BY <3>1 DEF Transfers, NoReq
      <4> QED
        BY <4>1, <3>1, <2>3, SlotReleased DEF FilesInv
    <3>3. RequestStands(r)'
      BY <3>1 DEF RequestStands, InGate, Copies, NoReq
    <3>4. LoadStands' /\ DownloadWhole'
      <4>1. load' = [load EXCEPT !.step = "failed"]
        BY <2>3
      <4> QED
        BY <4>1, FailedLoad DEF FilesInv
    <3> QED
      BY <2>1, <2>2, <3>1, <3>2, <3>3, <3>4, LoadStep
  <2>4. CASE f # NoFile
    <3> HIDE DEF f
    <3>1. req' = [req EXCEPT ![r].step = "stream", ![r].got = f] /\ UNCHANGED <<slots, load>>
      BY <2>4 DEF f
    <3>2. /\ RequestRecords' /\ OthersStay(r) /\ req'[r].step = "stream" /\ req'[r].op = "read"
          /\ req'[r].path = req[r].path /\ req'[r].got = f
      <4>1. req'[r] = [[req[r] EXCEPT !.step = "stream"] EXCEPT !.got = f] /\ OthersStay(r)
            /\ req' = [s \in Requests |-> req'[s]]
        BY <3>1 DEF FilesInv, RequestRecords, OthersStay
      <4>2. req[r] = [op |-> req[r].op, step |-> req[r].step, path |-> req[r].path,
                      seq |-> req[r].seq, ver |-> req[r].ver, got |-> req[r].got]
        BY DEF FilesInv, RequestRecords
      <4>3. req'[r] = [op |-> req[r].op, step |-> "stream", path |-> req[r].path,
                       seq |-> req[r].seq, ver |-> req[r].ver, got |-> f]
        BY <4>1, <4>2
      <4> QED
        BY <4>1, <4>3 DEF FilesInv, RequestRecords, OthersStay
    <3>3. IsWhole(f)
      BY <2>1, <2>4 DEF f, FilesInv, WholeFiles, IsWhole
    <3>4. SlotsExact'
      <4>1. r \in Transfers /\ r \in Transfers'
        BY <3>2 DEF Transfers
      <4> QED
        BY <4>1, <3>1, <3>2, SlotKept DEF FilesInv
    <3>5. RequestStands(r)'
      BY <3>1, <3>2, <3>3, <2>1 DEF RequestStands, InGate, Copies
    <3> QED
      BY <2>1, <2>2, <3>1, <3>2, <3>4, <3>5, PlainStep
  <2> QED
    BY <2>3, <2>4
<1>2. CASE Stream(r)
  <2> USE <1>2 DEF Stream, At
  <2>1. RequestRecords' /\ OthersStay(r) /\ req'[r] = NoReq
    BY AnsweredFacts DEF FilesInv
  <2>2. ~Copies(r) /\ GateOf(r) /\ UNCHANGED <<dest, temp, faults>>
    BY DEF Copies, GateOf, FilesInv, OneReader
  <2>3. SlotsExact'
    <3>1. r \in Transfers /\ r \notin Transfers'
      BY <2>1 DEF Transfers, NoReq
    <3> QED
      BY <3>1, <2>1, SlotReleased DEF FilesInv
  <2>4. RequestStands(r)'
    BY <2>1 DEF RequestStands, InGate, Copies, NoReq
  <2>5. IsWhole(req[r].got)
    BY DEF FilesInv, RequestStands
  <2> DEFINE k == Len(load.parts) + 1
             parts == Append(load.parts, req[r].got[k])
             oid == IF k = 1 THEN req[r].got ELSE load.oid
  <2>6. IsWhole(oid)
    BY <2>5 DEF FilesInv, LoadStands
  <2>7. \/ load' = [load EXCEPT !.step = "failed"]
        \/ load' = [load EXCEPT !.parts = parts, !.oid = oid]
        \/ load' = [load EXCEPT !.parts = parts, !.oid = oid,
                                !.step = IF Verify(parts, oid) THEN "done" ELSE "failed"]
    OBVIOUS
  <2>8. LoadStands' /\ DownloadWhole'
    <3> HIDE DEF k, parts, oid
    <3>1. LoadStands /\ DownloadWhole /\ load.step # "done"
      BY DEF FilesInv, RequestStands
    <3> QED
      BY <2>6, <2>7, <3>1, FailedLoad, SlicedLoad DEF Verify
  <2> QED
    BY <2>1, <2>2, <2>3, <2>4, <2>8, LoadStep
<1> QED
  BY <1>1, <1>2

\* The clock, the owner, a disposal and a crash.
LEMMA OtherStep ==
  ASSUME FilesInv, Sweep \/ Swept \/ SetMode("ro") \/ SetMode("rw") \/ SetMode("gone")
                   \/ onDispose \/ onEnable
  PROVE  FilesInv'
<1> USE DEF stageVars, treeVars
<1>1. UNCHANGED <<req, dest, temp, gate, slots, load>> /\ (faults' = faults \/ faults' = faults + 1)
  BY DEF Sweep, Swept, SetMode, onDispose, onEnable
<1>2. TempIsCopied'
  BY <1>1 DEF FilesInv, TempIsCopied, Copies, At
<1>3. \A r \in Requests : RequestStands(r)'
  BY <1>1 DEF FilesInv, RequestStands, InGate, Copies, At
<1>4. SlotsExact' /\ OneReader' /\ RequestRecords'
  BY <1>1 DEF FilesInv, SlotsExact, Transfers, At, OneReader, RequestRecords
<1>5. TreeTyped' /\ WholeFiles' /\ LoadStands' /\ DownloadWhole'
  BY <1>1 DEF FilesInv, TreeTyped, WholeFiles, LoadStands, DownloadWhole
<1> QED
  BY <1>2, <1>3, <1>4, <1>5 DEF FilesInv

LEMMA CrashStep == ASSUME FilesInv, Crash PROVE FilesInv'
<1> USE DEF Crash, treeVars
<1>1. \A r \in Requests : req'[r] = NoReq
  OBVIOUS
<1>2. RequestRecords' /\ OneReader' /\ \A r \in Requests : RequestStands(r)'
  BY <1>1 DEF RequestRecords, OneReader, RequestStands, InGate, Copies, At, NoReq
<1>3. TempIsCopied' /\ TreeTyped' /\ WholeFiles'
  BY DEF FilesInv, TempIsCopied, TreeTyped, WholeFiles
<1>4. LoadStands' /\ DownloadWhole'
  <2>1. CASE load' = [load EXCEPT !.step = "failed"]
    BY <2>1, FailedLoad DEF FilesInv
  <2>2. CASE load' = load
    BY <2>2 DEF FilesInv, LoadStands, DownloadWhole
  <2> QED
    BY <2>1, <2>2
<1>5. SlotsExact'
  <2>1. Transfers' = {}
    BY <1>1 DEF Transfers, At, NoReq
  <2> QED
    BY <2>1, FS_EmptySet, FilesAssumption DEF SlotsExact
<1> QED
  BY <1>2, <1>3, <1>4, <1>5 DEF FilesInv

\* A client begins to download: nobody reads for it yet.
LEMMA DownloadStep == ASSUME FilesInv, NEW p \in Paths, downloadFile(p) PROVE FilesInv'
<1> USE DEF downloadFile, treeVars
<1>1. \A r \in Requests : req[r].op # "read"
  BY DEF FilesInv, RequestStands
<1>2. load' = [step |-> "slice", path |-> p, parts |-> <<>>, oid |-> NoFile, size |-> 0, ok |-> FALSE]
  BY DEF NoLoad
<1>3. LoadStands' /\ DownloadWhole'
  <2> HIDE DEF downloadFile
  <2>1. load'.step = "slice" /\ load'.path = p /\ load'.parts = <<>>
    BY <1>2
  <2>2. Len(load'.parts) + 1 = 1
    BY <2>1
  <2>3. load' = [step |-> load'.step, path |-> load'.path, parts |-> load'.parts,
                 oid |-> load'.oid, size |-> load'.size, ok |-> load'.ok]
    BY <1>2
  <2> QED
    BY <2>1, <2>2, <2>3 DEF LoadStands, DownloadWhole
<1>4. \A r \in Requests : RequestStands(r)'
  BY <1>1 DEF FilesInv, RequestStands, InGate, Copies, At
<1>5. SlotsExact' /\ OneReader' /\ RequestRecords' /\ TempIsCopied' /\ TreeTyped' /\ WholeFiles'
  BY DEF FilesInv, SlotsExact, Transfers, At, OneReader, RequestRecords, TempIsCopied, Copies, TreeTyped, WholeFiles
<1> QED
  BY <1>3, <1>4, <1>5 DEF FilesInv

LEMMA FilesStep == FilesInv /\ (UploadNext \/ DownloadNext) => FilesInv'
<1> SUFFICES ASSUME FilesInv, UploadNext \/ DownloadNext PROVE FilesInv'
  OBVIOUS
<1> USE DEF treeVars, stageVars
<1>1. ASSUME NEW r \in Requests, NEW p \in Paths, NEW i \in Chunks, NEW v \in Versions, chunk(r, p, i, v)
      PROVE  FilesInv'
  BY <1>1, BeginStep DEF chunk
<1>2. ASSUME NEW r \in Requests, NEW p \in Paths, NEW v \in Versions, commit(r, p, v) PROVE FilesInv'
  BY <1>2, BeginStep DEF commit
<1>3. ASSUME NEW r \in Requests, NEW p \in Paths, NEW op \in {"delete", "rename"}, alter(r, op, p)
      PROVE  FilesInv'
  BY <1>3, BeginStep DEF alter
<1>4. ASSUME NEW r \in Requests, read(r) PROVE FilesInv'
  <2>1. load.path \in Paths
    BY <1>4 DEF read, FilesInv, LoadStands
  <2> QED
    BY <1>4, <2>1, BeginStep DEF read
<1>5. ASSUME NEW r \in Requests, Enter(r) \/ FileSteps(r) PROVE FilesInv'
  BY <1>5, EnterStep, ChunkStep, CommitStep, AlterStep, ReadStep DEF FileSteps
<1> QED
  BY <1>1, <1>2, <1>3, <1>4, <1>5, OtherStep, CrashStep, DownloadStep
     DEF UploadNext, DownloadNext, Alterations
(***************************************************************************)
(* The store.  Data are sound when an active key has its group and an      *)
(* enabled service its secret bound; every request begins with sound data  *)
(* and makes one change that keeps them sound.                             *)
(***************************************************************************)
ServiceData == [st : {"absent", "off", "on"}, bound : BOOLEAN, ok : BOOLEAN]
Data == [rev : Nat, svc : [Services -> ServiceData], group : BOOLEAN,
         members : SUBSET Services, key : {"none", "active", "revoked"}]

Sound(d) ==
  /\ d.key = "active" => d.group
  /\ \A s \in Services : d.svc[s].st = "on" => d.svc[s].bound
SoundData == {d \in Data : Sound(d)}

\* Whatever may replace the memory or the file is sound, too.
AdminRecords ==
  [op : {"idle", "change", "revoke", "import", "rollback"}, step : {"idle", "write", "next"},
   s : Services \cup {"none"}, text : SoundData, snap : SoundData]

\* Nothing is told of a revision before it is there, as long as the memory
\* never went back.
ToldStands == told.rev \in Nat /\ (~upset => told.rev <= mem.rev)

StoreInv ==
  /\ mem \in SoundData /\ disk \in SoundData
  /\ adm \in [Admins -> AdminRecords]
  /\ ToldStands /\ CatalogFresh

LEMMA EmptySound == Empty \in SoundData /\ OneGroup \in SoundData
  BY DEF Empty, OneGroup, NoSvc, SoundData, Sound, Data, ServiceData

LEMMA NoAdmTyped == NoAdm \in AdminRecords
  BY EmptySound DEF NoAdm, AdminRecords

LEMMA StoreBase == StoreInit => StoreInv
<1> SUFFICES ASSUME StoreInit PROVE StoreInv
  OBVIOUS
<1> USE DEF StoreInit
<1>1. mem \in SoundData /\ disk \in SoundData /\ adm \in [Admins -> AdminRecords]
  BY EmptySound, NoAdmTyped
<1>2. ToldStands /\ CatalogFresh
  BY DEF ToldStands, CatalogFresh, OneGroup, Empty
<1> QED
  BY <1>1, <1>2 DEF StoreInv

LEMMA StoreFollows == StoreInv => StoreHolds
  BY DEF StoreInv, SoundData, Sound, StoreHolds, KeysHaveGroup, DiskGated
LEMMA SavedSound ==
  ASSUME NEW d \in SoundData PROVE Saved(d) \in SoundData /\ Saved(d).rev = d.rev + 1
  BY DEF Saved, SoundData, Sound, Data

\* A service is put in the place of another, and enabled only with its secret.
LEMMA ServiceSound ==
  ASSUME NEW d \in SoundData, NEW s \in Services, NEW e \in ServiceData, e.st = "on" => e.bound
  PROVE  [d EXCEPT !.svc[s] = e] \in SoundData /\ [d EXCEPT !.svc[s] = e].rev = d.rev
<1>1. [d EXCEPT !.svc[s] = e] = [d EXCEPT !.svc = [d.svc EXCEPT ![s] = e]]
  BY DEF SoundData, Data
<1>2. [d.svc EXCEPT ![s] = e] \in [Services -> ServiceData]
  BY DEF SoundData, Data
<1>3. \A q \in Services : [d.svc EXCEPT ![s] = e][q].st = "on" => [d.svc EXCEPT ![s] = e][q].bound
  BY DEF SoundData, Data, Sound
<1> QED
  BY <1>1, <1>2, <1>3 DEF SoundData, Data, Sound

\* One save of a change: written or refused.
LEMMA SaveStep ==
  ASSUME StoreInv, NEW a \in Admins, NEW d \in SoundData, d.rev = mem.rev,
         NEW op \in {"change", "revoke", "import"}, NEW s \in Services \cup {"none"}, NEW snap \in SoundData,
         save(a, d, op, s, snap), UNCHANGED <<disk, told>>
  PROVE  StoreInv'
<1>1. CASE Saveable(d)
  <2>1. /\ mem' = Saved(d) /\ UNCHANGED upset
        /\ adm' = [adm EXCEPT ![a] = [op |-> op, step |-> "write", s |-> s, text |-> Saved(d), snap |-> snap]]
    BY <1>1 DEF save
  <2>2. mem' \in SoundData /\ mem'.rev = mem.rev + 1
    BY <2>1, SavedSound
  <2>3. adm' \in [Admins -> AdminRecords]
    <3>1. [op |-> op, step |-> "write", s |-> s, text |-> Saved(d), snap |-> snap] \in AdminRecords
      BY SavedSound DEF AdminRecords
    <3> QED
      BY <2>1, <3>1 DEF StoreInv
  <2>4. mem.rev \in Nat
    BY DEF StoreInv, SoundData, Data
  <2>5. ToldStands' /\ CatalogFresh'
    BY <2>1, <2>2, <2>4 DEF StoreInv, ToldStands, CatalogFresh
  <2> QED
    BY <2>2, <2>3, <2>5 DEF StoreInv
<1>2. CASE ~Saveable(d)
  <2>1. mem' = d /\ adm' = [adm EXCEPT ![a] = NoAdm] /\ upset' = TRUE
    BY <1>2 DEF save
  <2>2. ToldStands' /\ CatalogFresh'
    BY <2>1 DEF StoreInv, ToldStands, CatalogFresh
  <2> QED
    BY <2>1, <2>2, NoAdmTyped DEF StoreInv
<1> QED
  BY <1>1, <1>2

LEMMA ServiceStep ==
  ASSUME StoreInv, NEW a \in Admins, NEW s \in Services,
         \/ \E on, b, ok \in BOOLEAN : addService(a, s, on, b, ok)
         \/ removeService(a, s)
         \/ \E on \in BOOLEAN : setServiceEnabled(a, s, on)
         \/ \E b \in BOOLEAN : setServiceAuth(a, s, b)
         \/ importServices(a, s)
  PROVE  StoreInv'
<1> USE EmptySound DEF Request
<1>1. mem \in SoundData /\ mem.svc[s] \in ServiceData
  BY DEF StoreInv, SoundData, Data
<1>2. ASSUME NEW on \in BOOLEAN, NEW b \in BOOLEAN, NEW ok \in BOOLEAN, addService(a, s, on, b, ok)
      PROVE  StoreInv'
  <2> DEFINE e == Entry(on, b, ok)
  <2>1. e \in ServiceData /\ (e.st = "on" => e.bound)
    BY <1>2 DEF addService, Activatable, Entry, ServiceData
  <2> HIDE DEF e
  <2> QED
    BY <1>1, <1>2, <2>1, ServiceSound, SaveStep DEF addService, e
<1>3. ASSUME removeService(a, s) PROVE StoreInv'
  <2> DEFINE d == [mem EXCEPT !.svc[s] = NoSvc]
             d2 == [mem EXCEPT !.svc[s] = NoSvc, !.members = @ \ {s}]
  <2>1. NoSvc \in ServiceData /\ NoSvc.st # "on"
    BY DEF NoSvc, ServiceData
  <2>2. d \in SoundData /\ d.rev = mem.rev
    BY <1>1, <2>1, ServiceSound
  <2>3. d2 = [d EXCEPT !.members = mem.members \ {s}]
    BY <1>1 DEF SoundData, Data
  <2>4. d2 \in SoundData /\ d2.rev = mem.rev
    <3> HIDE DEF d, d2
    <3> QED
      BY <1>1, <2>2, <2>3 DEF SoundData, Data, Sound
  <2> HIDE DEF d, d2
  <2> QED
    BY <1>3, <2>4, SaveStep DEF removeService, d2
<1>4. ASSUME NEW on \in BOOLEAN, setServiceEnabled(a, s, on) PROVE StoreInv'
  <2> DEFINE e == Entry(on, mem.svc[s].bound, mem.svc[s].ok)
  <2>1. e \in ServiceData /\ (e.st = "on" => e.bound)
    BY <1>1, <1>4 DEF setServiceEnabled, Activatable, Entry, ServiceData
  <2>2. Request(a, "change", s, [mem EXCEPT !.svc[s] = e])
    BY <1>4 DEF setServiceEnabled
  <2> HIDE DEF e
  <2> QED
    BY <1>1, <2>1, <2>2, ServiceSound, SaveStep
<1>5. ASSUME NEW b \in BOOLEAN, setServiceAuth(a, s, b) PROVE StoreInv'
  <2> DEFINE e == [mem.svc[s] EXCEPT !.bound = b]
  <2>1. e \in ServiceData /\ (e.st = "on" => e.bound)
    BY <1>1, <1>5 DEF setServiceAuth, Activatable, ServiceData
  <2>2. Request(a, "change", s, [mem EXCEPT !.svc[s] = e])
    BY <1>5 DEF setServiceAuth
  <2> HIDE DEF e
  <2> QED
    BY <1>1, <2>1, <2>2, ServiceSound, SaveStep
<1>6. ASSUME importServices(a, s) PROVE StoreInv'
  <2> DEFINE e == Entry(FALSE, FALSE, TRUE)
  <2>1. e \in ServiceData /\ e.st # "on"
    BY DEF Entry, ServiceData
  <2> HIDE DEF e
  <2> QED
    BY <1>1, <1>6, <2>1, ServiceSound, SaveStep DEF importServices, e
<1> QED
  BY <1>2, <1>3, <1>4, <1>5, <1>6
\* The group and its key.
LEMMA GroupStep ==
  ASSUME StoreInv, NEW a \in Admins,
         \/ addGroup(a) \/ removeGroup(a) \/ issueKey(a) \/ revokeKey(a)
         \/ \E S \in SUBSET Services : setGroupServices(a, S)
  PROVE  StoreInv'
<1> USE EmptySound DEF Request
<1>1. mem \in SoundData
  BY DEF StoreInv
<1>2. CASE addGroup(a)
  <2>1. [mem EXCEPT !.group = TRUE, !.members = {}] \in SoundData
    BY <1>1 DEF SoundData, Data, Sound
  <2> QED
    BY <1>1, <1>2, <2>1, SaveStep DEF addGroup, SoundData, Data
<1>3. CASE removeGroup(a)
  <2>1. [mem EXCEPT !.group = FALSE, !.members = {}] \in SoundData
    BY <1>1, <1>3 DEF SoundData, Data, Sound, removeGroup, NoActiveKey
  <2> QED
    BY <1>1, <1>3, <2>1, SaveStep DEF removeGroup, SoundData, Data
<1>4. CASE issueKey(a)
  <2>1. [mem EXCEPT !.key = "active"] \in SoundData
    BY <1>1, <1>4 DEF SoundData, Data, Sound, issueKey
  <2> QED
    BY <1>1, <1>4, <2>1, SaveStep DEF issueKey, SoundData, Data
<1>5. CASE revokeKey(a)
  <2>1. [mem EXCEPT !.key = "revoked"] \in SoundData
    BY <1>1 DEF SoundData, Data, Sound
  <2>2. CASE UNCHANGED mem
    BY <1>5, <2>2, SaveStep, <2>1, <1>1 DEF revokeKey, StoreInv, ToldStands, CatalogFresh, SoundData, Data
  <2>3. CASE ~UNCHANGED mem
    BY <1>1, <1>5, <2>1, <2>3, SaveStep DEF revokeKey, SoundData, Data
  <2> QED
    BY <2>2, <2>3
<1>6. ASSUME NEW S \in SUBSET Services, setGroupServices(a, S) PROVE StoreInv'
  <2>1. [mem EXCEPT !.members = S] \in SoundData
    BY <1>1 DEF SoundData, Data, Sound
  <2> QED
    BY <1>1, <1>6, <2>1, SaveStep DEF setGroupServices, SoundData, Data
<1> QED
  BY <1>2, <1>3, <1>4, <1>5, <1>6

\* A snapshot comes back: nothing is promised to the consumers any more.
LEMMA RollbackStep ==
  ASSUME StoreInv, NEW a \in Admins, rollback(a), UNCHANGED <<disk, told>>
  PROVE  StoreInv'
<1>1. Restored(a) \in SoundData /\ Saved(Restored(a)) \in SoundData
  BY SavedSound DEF StoreInv, AdminRecords, Restored
<1>2. mem' \in SoundData
  BY <1>1 DEF rollback
<1>3. [NoAdm EXCEPT !.op = "rollback", !.step = "write", !.text = Saved(Restored(a))] \in AdminRecords
  BY <1>1, NoAdmTyped DEF AdminRecords
<1>4. adm' \in [Admins -> AdminRecords]
  BY <1>3, NoAdmTyped DEF rollback, StoreInv
<1>5. ToldStands' /\ CatalogFresh'
  BY DEF rollback, StoreInv, ToldStands, CatalogFresh
<1> QED
  BY <1>2, <1>4, <1>5 DEF StoreInv

\* The writes, an import's end, the secret, a restart, a consumer's question.
LEMMA WriteStep ==
  ASSUME StoreInv, NEW a \in Admins, ImportFails(a) \/ ImportDone(a) \/ Written(a) \/ WriteFails(a)
  PROVE  StoreInv'
<1>1. [adm[a] EXCEPT !.step = "next"] \in AdminRecords /\ adm[a].text \in SoundData
  BY DEF StoreInv, AdminRecords
<1>2. CASE ImportFails(a)
  BY <1>2, RollbackStep DEF ImportFails
<1>3. CASE ImportDone(a)
  BY <1>3, NoAdmTyped DEF ImportDone, Ends, StoreInv, ToldStands, CatalogFresh
<1>4. CASE Written(a)
  <2>1. adm' \in [Admins -> AdminRecords]
    <3>1. adm' = [adm EXCEPT ![a] = [adm[a] EXCEPT !.step = "next"]] \/ adm' = [adm EXCEPT ![a] = NoAdm]
      BY <1>4 DEF Written, Ends
    <3> QED
      BY <3>1, <1>1, NoAdmTyped DEF StoreInv
  <2>2. ToldStands' /\ CatalogFresh'
    BY <1>4 DEF Written, StoreInv, ToldStands, CatalogFresh
  <2> QED
    BY <1>1, <1>4, <2>1, <2>2 DEF Written, StoreInv
<1>5. CASE WriteFails(a)
  <2>1. CASE adm[a].op = "import"
    BY <1>5, <2>1, RollbackStep DEF WriteFails
  <2>2. CASE adm[a].op # "import"
    BY <1>5, <2>2, NoAdmTyped DEF WriteFails, Ends, StoreInv, ToldStands, CatalogFresh
  <2> QED
    BY <2>1, <2>2
<1> QED
  BY <1>2, <1>3, <1>4, <1>5

LEMMA OutsideStep ==
  ASSUME StoreInv, Secret(TRUE) \/ Secret(FALSE) \/ Reopen \/ Catalog PROVE StoreInv'
<1>1. CASE Secret(TRUE) \/ Secret(FALSE)
  BY <1>1 DEF Secret, StoreInv, ToldStands, CatalogFresh
<1>2. CASE Reopen
  BY <1>2, NoAdmTyped DEF Reopen, StoreInv, ToldStands, CatalogFresh
<1>3. CASE Catalog
  <2>1. mem.rev \in Nat
    BY DEF StoreInv, SoundData, Data
  <2>2. told'.rev = mem.rev /\ told'.view = View(mem) /\ UNCHANGED <<mem, disk, adm, upset>>
    BY <1>3 DEF Catalog
  <2>3. View(mem)' = View(mem)
    BY <2>2 DEF View
  <2> QED
    BY <2>1, <2>2, <2>3 DEF StoreInv, ToldStands, CatalogFresh
<1> QED
  BY <1>1, <1>2, <1>3

LEMMA StoreStep == StoreInv /\ StoreNext => StoreInv'
<1> SUFFICES ASSUME StoreInv, StoreNext PROVE StoreInv'
  OBVIOUS
<1>1. ASSUME NEW a \in Admins, NEW s \in Services,
             \/ \E on, b \in BOOLEAN : addService(a, s, on, b, TRUE)
             \/ addService(a, s, FALSE, FALSE, FALSE) \/ removeService(a, s) \/ importServices(a, s)
             \/ \E b \in BOOLEAN : setServiceEnabled(a, s, b) \/ setServiceAuth(a, s, b)
      PROVE  StoreInv'
  BY <1>1, ServiceStep
<1>2. CASE \E a \in Admins, s \in Services :
             \/ \E on, b \in BOOLEAN : addService(a, s, on, b, TRUE)
             \/ addService(a, s, FALSE, FALSE, FALSE) \/ removeService(a, s) \/ importServices(a, s)
             \/ \E b \in BOOLEAN : setServiceEnabled(a, s, b) \/ setServiceAuth(a, s, b)
  BY <1>1, <1>2
<1>3. CASE \E a \in Admins : \/ addGroup(a) \/ removeGroup(a) \/ issueKey(a) \/ revokeKey(a)
                             \/ \E S \in SUBSET Services : setGroupServices(a, S)
  BY <1>3, GroupStep
<1>4. CASE \E a \in Admins : ImportFails(a) \/ ImportDone(a) \/ Written(a) \/ WriteFails(a)
  BY <1>4, WriteStep
<1> QED
  BY <1>2, <1>3, <1>4, OutsideStep DEF StoreNext

(***************************************************************************)
(* The two together.                                                       *)
(***************************************************************************)
Inv == FilesInv /\ StoreInv

LEMMA FilesAsleep == ASSUME FilesInv, UNCHANGED filesVars PROVE FilesInv'
  BY DEF FilesInv, RequestRecords, TreeTyped, OneReader, RequestStands, InGate, Copies, At, TempIsCopied,
     LoadStands, WholeFiles, DownloadWhole, SlotsExact, Transfers, filesVars, treeVars, stageVars

LEMMA StoreAsleep == ASSUME StoreInv, UNCHANGED storeVars PROVE StoreInv'
  BY DEF StoreInv, ToldStands, CatalogFresh, storeVars

LEMMA Inductive == Spec => []Inv
<1>1. Init => Inv
  BY FilesBase, StoreBase DEF Init, Inv
<1>2. Inv /\ [Next]_vars => Inv'
  BY FilesStep, StoreStep, FilesAsleep, StoreAsleep DEF Inv, Next, vars
<1> QED
  BY <1>1, <1>2, PTL DEF Spec

\* What lies in the share is nothing or one declared content, a download that
\* ends well is one version of the file, and no temporary file is left behind
\* outside of a commit; the transfers in flight are counted exactly and never
\* exceed the limit (ops.mjs, staging.mjs, client.mjs, runtime.mjs).
THEOREM FilesAlwaysHold == Spec => []FilesHold
<1>1. FilesInv => NoLitter
  BY FilesAssumption DEF FilesInv, TempIsCopied, NoLitter
<1>2. Inv => FilesHold
  BY <1>1 DEF Inv, FilesInv, FilesHold
<1> QED
  BY <1>2, Inductive, PTL

\* An active key has its group and an enabled service its secret bound, in the
\* memory and in the file, whatever requests overlap, fail, roll back or are
\* cut by a restart; "unchanged" tells a consumer the truth, until a save is
\* refused or an import rolled back
\* (store.mjs, importer.mjs, catalog.mjs).
THEOREM StoreAlwaysHolds == Spec => []StoreHolds
<1>1. Inv => StoreHolds
  BY StoreFollows DEF Inv
<1> QED
  BY <1>1, Inductive, PTL

-----------------------------------------------------------------------------
(***************************************************************************)
(* The exchanges of the AI provider, for any services, scripts, calls and  *)
(* edits.  Everything is said of one exchange: what its sink has heard and *)
(* what was recorded goes with its phase; bodies exist only once the       *)
(* upstream was asked; its credential is not older than the request; its   *)
(* headers are right at every stage of their making.                       *)
(***************************************************************************)
UpFields == {"phase", "call", "headers", "inc", "auth", "asked", "slots", "code", "aborted", "ctrl", "listens",
             "timer", "body", "handles", "scripted", "settled", "out", "usage"}
Preparing == {"new", "auth", "first", "headers", "refusing", "thrown"}
Sending == {"script", "probe", "fetch"}
UpPhases == Preparing \cup Sending \cup {"respond", "meta", "body", "chunk", "end", "erring", "over"}
UpWords == {"meta", "chunk", "end", "error"}
HandleStates == {"open", "cancelled", "drained"}
SlotModes == {"none", "secret", "script"}

Heard(e) ==
  /\ e.out \in Seq(UpWords)
  /\ e.usage = IF Over(e) THEN 1 ELSE 0
  /\ \A k \in 1..Len(e.out) : e.out[k] \in {"end", "error"} =>
       Over(e) /\ k = Len(e.out) /\ (e.out[k] = "end" => e.code = "ok")
Bodies1(e) ==
  /\ e.handles \in Seq(HandleStates)
  /\ e.phase \in Preparing => e.handles = <<>>
  /\ Over(e) => \A k \in 1..Len(e.handles) : e.handles[k] # "open"
Recent(e, n) ==
  /\ e.asked \in Nat /\ e.asked <= n
  /\ e.auth.from = "script" => e.auth.n \in Nat /\ e.auth.n >= e.asked
  /\ e.phase = "new" => e.auth.from = "none"

\* The headers as they came, with the credential and the static ones, as sent.
Plain(e, s) ==
  /\ \A h \in DOMAIN e.headers : h \notin DefensiveStrip \ {"content-type"}
  /\ e.inc.set = {} /\ e.inc.remove = {}
Clothed(e, s) ==
  /\ e.inc.set = {} /\ e.inc.remove = {}
  /\ \A h \in DOMAIN e.headers : h \in DefensiveStrip \ {"content-type"} => e.headers[h].from # "client"
  /\ \A h \in s.set : h \in DOMAIN e.headers /\ e.headers[h].from = "static"
  /\ e.auth.from # "none" /\ s.set \cup s.remove = {} =>
       "authorization" \in DOMAIN e.headers /\ e.headers["authorization"] = e.auth
Sent(e, s) ==
  /\ DOMAIN e.headers \cap Guarded = {}
  /\ \A h \in DOMAIN e.headers : h \in DefensiveStrip \ {"content-type"} => e.headers[h].from # "client"
  /\ \A h \in (e.inc.set \ Guarded) : e.headers[h].from = "script"
  /\ \A h \in s.set \ (e.inc.set \cup e.inc.remove \cup Guarded) :
       h \in DOMAIN e.headers /\ e.headers[h].from = "static"
  /\ e.auth.from # "none" /\ s.set \cup s.remove \cup e.inc.set \cup e.inc.remove = {}
       => e.headers["authorization"] = e.auth
OwnSlot(e, s) == s.slots.auth # "none" => e.auth.from = s.slots.auth
Dressed(e, s) ==
  /\ e.phase = "new" => e.inc.set = {} /\ e.inc.remove = {}
  /\ e.phase \in {"auth", "first"} => Plain(e, s) /\ s.slots.auth \in {"none", "script"}
  /\ e.phase = "headers" => Clothed(e, s) /\ OwnSlot(e, s)
  /\ e.phase \in Sending => Sent(e, s) /\ OwnSlot(e, s)

Stands(e, s, n) ==
  /\ DOMAIN e = UpFields /\ e.phase \in UpPhases
  /\ Heard(e) /\ Bodies1(e) /\ Recent(e, n) /\ Dressed(e, s)

SubInv ==
  /\ yields \in Nat /\ sub.latest \in {0, yields}
  /\ DOMAIN sub = {"latest", "first", "waiter"}
  /\ sub.waiter \subseteq Exchanges /\ \A r \in sub.waiter : x[r].phase = "first"
UpInv ==
  /\ service.slots.auth \in SlotModes
  /\ DOMAIN x = Exchanges /\ \A r \in Exchanges : Stands(x[r], service, yields)
  /\ SubInv

\* What the headers become on their way.
LEMMA PlainClothed ==
  ASSUME NEW e, NEW f, NEW s, Plain(e, s), f.auth.from \in SlotModes,
         f.headers = Static(s, WithAuth(e.headers, f.auth)), f.inc = e.inc
  PROVE  Clothed(f, s)
<1> DEFINE H == WithAuth(e.headers, f.auth)
<1>1. /\ DOMAIN H = DOMAIN e.headers \cup IF f.auth.from = "none" THEN {} ELSE {"authorization"}
      /\ f.auth.from # "none" => H["authorization"] = f.auth
  BY DEF WithAuth
<1> HIDE DEF H
<1>2. /\ DOMAIN f.headers = (DOMAIN H \ s.remove) \cup s.set
      /\ \A h \in DOMAIN f.headers : f.headers[h] = IF h \in s.set THEN From("static", 0) ELSE H[h]
  BY DEF Static, H
<1>3. From("static", 0).from = "static"
  BY DEF From
<1>4. \A h \in DOMAIN f.headers : h \in DefensiveStrip \ {"content-type"} => f.headers[h].from # "client"
  <2> SUFFICES ASSUME NEW h \in DOMAIN f.headers, h \in DefensiveStrip \ {"content-type"}, h \notin s.set
               PROVE  f.headers[h].from # "client"
    BY <1>2, <1>3
  <2>1. h = "authorization" /\ f.auth.from # "none"
    BY <1>1, <1>2 DEF Plain
  <2> QED
    BY <1>1, <1>2, <2>1 DEF SlotModes
<1>5. \A h \in s.set : h \in DOMAIN f.headers /\ f.headers[h].from = "static"
  BY <1>2, <1>3
<1>6. f.auth.from # "none" /\ s.set \cup s.remove = {} =>
        "authorization" \in DOMAIN f.headers /\ f.headers["authorization"] = f.auth
  BY <1>1, <1>2
<1> QED
  BY <1>4, <1>5, <1>6 DEF Clothed, Plain

LEMMA ClothedSent ==
  ASSUME NEW e, NEW f, NEW s, NEW inc, Clothed(e, s), f.auth = e.auth, f.inc = inc,
         f.headers = Without(Incremented(e.headers, inc), Guarded)
  PROVE  Sent(f, s)
<1>1. /\ DOMAIN f.headers = ((DOMAIN e.headers \ inc.remove) \cup inc.set) \ Guarded
      /\ \A h \in DOMAIN f.headers : f.headers[h] = IF h \in inc.set THEN From("script", 0) ELSE e.headers[h]
  BY DEF Without, Incremented
<1>2. From("script", 0).from = "script"
  BY DEF From
<1>3. Clothed(e, s) /\ f.inc = inc
  OBVIOUS
<1>4. "authorization" \notin Guarded
  BY DEF Guarded
<1>5. \A h \in DOMAIN f.headers : h \in DefensiveStrip \ {"content-type"} => f.headers[h].from # "client"
  BY <1>1, <1>2 DEF Clothed
<1>6. \A h \in s.set \ (inc.set \cup inc.remove \cup Guarded) : h \in DOMAIN f.headers /\ f.headers[h].from = "static"
  BY <1>1, <1>2 DEF Clothed
<1>7. f.auth.from # "none" /\ s.set \cup s.remove \cup inc.set \cup inc.remove = {}
        => f.headers["authorization"] = f.auth
  BY <1>1, <1>4 DEF Clothed
<1>8. \A h \in inc.set \ Guarded : f.headers[h].from = "script"
  BY <1>1, <1>2
<1>9. DOMAIN f.headers \cap Guarded = {}
  BY <1>1
<1> QED
  BY <1>3, <1>5, <1>6, <1>7, <1>8, <1>9 DEF Sent

\* Without a headers stage nothing is added.
LEMMA ClothedAsIs ==
  ASSUME NEW e, NEW f, NEW s, Clothed(e, s), f.auth = e.auth, f.inc = e.inc, f.headers = Without(e.headers, Guarded)
  PROVE  Sent(f, s)
<1>1. /\ DOMAIN f.headers = DOMAIN e.headers \ Guarded
      /\ \A h \in DOMAIN f.headers : f.headers[h] = e.headers[h]
  BY DEF Without
<1>2. "authorization" \notin Guarded
  BY DEF Guarded
<1> QED
  BY <1>1, <1>2 DEF Clothed, Sent

\* What the helpers leave of an exchange.
Same(e, f) ==
  /\ DOMAIN f = UpFields
  /\ f.out = e.out /\ f.usage = e.usage /\ f.handles = e.handles
  /\ f.headers = e.headers /\ f.inc = e.inc /\ f.auth = e.auth /\ f.asked = e.asked
LEMMA RefuseSame ==
  ASSUME NEW e, DOMAIN e = UpFields, NEW code
  PROVE  Same(e, Refuse(e, code)) /\ Refuse(e, code).phase = "refusing"
BY DEF Same, Refuse, UpFields
LEMMA FinishSame ==
  ASSUME NEW e, DOMAIN e = UpFields, NEW code
  PROVE  Same(e, FinishWithError(e, code)) /\ FinishWithError(e, code).phase = "erring"
BY DEF Same, FinishWithError, UpFields
LEMMA CaughtSame ==
  ASSUME NEW e, DOMAIN e = UpFields, NEW code
  PROVE  Same(e, Caught(e, code)) /\ Caught(e, code).phase = "erring"
BY FinishSame DEF Caught
LEMMA UnlistenedSame ==
  ASSUME NEW e, DOMAIN e = UpFields, NEW code
  PROVE  Same(e, Unlistened(e, code)) /\ Unlistened(e, code).phase = "erring"
<1> DEFINE d == [e EXCEPT !.listens = FALSE]
<1>1. Same(e, d)
  BY DEF Same, UpFields
<1>2. Unlistened(e, code) = Caught(d, code)
  BY DEF Unlistened
<1> HIDE DEF d
<1>3. Same(d, Caught(d, code)) /\ Caught(d, code).phase = "erring"
  BY <1>1, CaughtSame DEF Same
<1> QED
  BY <1>1, <1>2, <1>3 DEF Same
LEMMA StreamFailedSame ==
  ASSUME NEW e, DOMAIN e = UpFields
  PROVE  Same(e, StreamFailed(e)) /\ StreamFailed(e).phase = "erring"
BY CaughtSame DEF StreamFailed
LEMMA GuardKeeps ==
  ASSUME NEW e, DOMAIN e = UpFields
  PROVE  /\ DOMAIN Guard(e) = UpFields /\ Guard(e).headers = Without(e.headers, Guarded)
         /\ Guard(e).out = e.out /\ Guard(e).usage = e.usage /\ Guard(e).handles = e.handles
         /\ Guard(e).inc = e.inc /\ Guard(e).auth = e.auth /\ Guard(e).asked = e.asked
BY DEF Guard, UpFields

LEMMA ForwardSame ==
  ASSUME NEW e, DOMAIN e = UpFields
  PROVE  Same(e, Forward(e)) /\ Forward(e).phase \in {"refusing", "erring", "script", "probe"}
<1> DEFINE given == effectiveLifecycleSlots(service)
           a == [e EXCEPT !.slots = given, !.timer = "first", !.listens = TRUE, !.ctrl = e.aborted]
           b == [a EXCEPT !.listens = FALSE]
           c == [a EXCEPT !.phase = "script"]
           d == [a EXCEPT !.phase = "probe"]
<1>1. Same(e, a)
  BY DEF Same, UpFields
<1>2. \/ Forward(e) = Refuse(e, "protocol_error") \/ Forward(e) = FinishWithError(e, "protocol_error")
      \/ Forward(e) = Caught(b, "hook_failed") \/ Forward(e) = Caught(b, "upstream_unreachable")
      \/ Forward(e) = c \/ Forward(e) = d
  BY DEF Forward
<1> HIDE DEF a
<1>3. Same(e, b) /\ Same(e, c) /\ Same(e, d) /\ c.phase = "script" /\ d.phase = "probe"
  BY <1>1 DEF Same, UpFields
<1> HIDE DEF b, c, d
<1>4. DOMAIN b = UpFields
  BY <1>3 DEF Same
<1>5. \A k \in {"hook_failed", "upstream_unreachable"} : Same(b, Caught(b, k)) /\ Caught(b, k).phase = "erring"
  BY <1>4, CaughtSame
<1>6. \A k \in {"hook_failed", "upstream_unreachable"} : Same(e, Caught(b, k)) /\ Caught(b, k).phase = "erring"
  BY <1>3, <1>5 DEF Same
<1> QED
  BY <1>2, <1>3, <1>6, RefuseSame, FinishSame

LEMMA AuthorisedIs ==
  ASSUME NEW e, DOMAIN e = UpFields, NEW v
  PROVE  LET f == Authorised(e, v)  H == Static(service, WithAuth(e.headers, v)) IN
         /\ DOMAIN f = UpFields
         /\ f.out = e.out /\ f.usage = e.usage /\ f.handles = e.handles /\ f.inc = e.inc /\ f.asked = e.asked
         /\ f.phase \in {"refusing", "headers", "erring", "script", "probe"}
         /\ f.auth = v \/ (f.phase = "refusing" /\ f.auth = e.auth)
         /\ f.phase = "headers" => f.headers = H
         /\ f.phase \in Sending => f.headers = Without(H, Guarded)
<1> DEFINE f == Authorised(e, v)
           H == Static(service, WithAuth(e.headers, v))
           w == [e EXCEPT !.auth = v, !.headers = H]
           u == [w EXCEPT !.phase = "headers"]
<1>1. /\ DOMAIN w = UpFields /\ w.out = e.out /\ w.usage = e.usage /\ w.handles = e.handles /\ w.inc = e.inc
      /\ w.asked = e.asked /\ w.auth = v /\ w.headers = H
  BY DEF UpFields
<1>2. f = Refuse(e, "secret_missing") \/ f = Forward(Guard(w)) \/ f = u \/ f = Refuse(e, "hook_failed")
  BY DEF Authorised
<1> HIDE DEF w, f, H
<1>3. DOMAIN u = UpFields /\ u.out = w.out /\ u.usage = w.usage /\ u.handles = w.handles /\ u.inc = w.inc
      /\ u.asked = w.asked /\ u.auth = w.auth /\ u.headers = w.headers /\ u.phase = "headers"
  BY <1>1 DEF UpFields
<1> HIDE DEF u
<1>4. Same(Guard(w), Forward(Guard(w))) /\ Forward(Guard(w)).phase \in {"refusing", "erring", "script", "probe"}
  BY <1>1, GuardKeeps, ForwardSame
<1>5. CASE f = Forward(Guard(w))
  BY <1>1, <1>4, <1>5, GuardKeeps DEF Same, f, H
<1>6. CASE f = u
  BY <1>1, <1>3, <1>6 DEF Sending, f, H
<1>7. CASE f = Refuse(e, "secret_missing") \/ f = Refuse(e, "hook_failed")
  BY <1>7, RefuseSame DEF Same, Sending, f
<1> QED
  BY <1>2, <1>5, <1>6, <1>7

\* An exchange that fails, goes on, is over, or is only looked at.
LEMMA CancelledIs ==
  ASSUME NEW h \in Seq(HandleStates)
  PROVE  /\ Cancelled(h) \in Seq(HandleStates) /\ Len(Cancelled(h)) = Len(h)
         /\ \A k \in 1..Len(h) : Cancelled(h)[k] # "open"
         /\ h = <<>> => Cancelled(h) = <<>>
<1>1. Cancelled(h) = [k \in 1..Len(h) |-> IF h[k] = "open" THEN "cancelled" ELSE h[k]]
  BY DEF Cancelled
<1>2. Cancelled(h) \in Seq(HandleStates) /\ Len(Cancelled(h)) = Len(h)
  BY <1>1 DEF HandleStates
<1>3. \A k \in 1..Len(h) : Cancelled(h)[k] # "open"
  BY <1>1
<1>4. h = <<>> => Cancelled(h) = <<>>
  BY <1>2
<1> QED
  BY <1>2, <1>3, <1>4

LEMMA Appending ==
  ASSUME NEW o \in Seq(UpWords), NEW w \in UpWords
  PROVE  /\ Append(o, w) \in Seq(UpWords) /\ Len(Append(o, w)) = Len(o) + 1 /\ Len(o) \in Nat
         /\ \A k \in 1..Len(Append(o, w)) : Append(o, w)[k] = IF k = Len(o) + 1 THEN w ELSE o[k]
         /\ \A k \in 1..Len(Append(o, w)) : k # Len(o) + 1 => k \in 1..Len(o)
OBVIOUS

LEMMA Refusing ==
  ASSUME NEW e, NEW f, NEW s, NEW n, Stands(e, s, n), Same(e, f), f.phase = "refusing", e.phase \in Preparing
  PROVE  Stands(f, s, n)
BY DEF Stands, Same, Heard, Bodies1, Recent, Dressed, Over, Preparing, Sending, UpPhases

LEMMA Onward ==
  ASSUME NEW e, NEW f, NEW s, NEW n, Stands(e, s, n), ~Over(e), DOMAIN f = UpFields,
         f.phase \in UpPhases \ (Preparing \cup Sending \cup {"over"}),
         f.asked = e.asked, f.auth = e.auth, f.usage = e.usage, f.handles \in Seq(HandleStates),
         \/ f.out = e.out
         \/ \E w \in {"meta", "chunk"} : f.out = Append(e.out, w)
  PROVE  Stands(f, s, n)
<1>1. e.out \in Seq(UpWords) /\ \A k \in 1..Len(e.out) : e.out[k] \notin {"end", "error"}
  BY DEF Stands, Heard
<1>2. f.out \in Seq(UpWords) /\ \A k \in 1..Len(f.out) : f.out[k] \notin {"end", "error"}
  <2>1. CASE f.out = e.out
    BY <1>1, <2>1
  <2>2. ASSUME NEW w \in {"meta", "chunk"}, f.out = Append(e.out, w)
        PROVE  f.out \in Seq(UpWords) /\ \A k \in 1..Len(f.out) : f.out[k] \notin {"end", "error"}
    <3>1. w \in UpWords /\ w \notin {"end", "error"}
      BY DEF UpWords
    <3> QED
      BY <1>1, <2>2, <3>1, Appending
  <2> QED
    BY <2>1, <2>2
<1>3. ~Over(f) /\ e.usage = 0
  BY DEF Stands, Heard, Over
<1>4. Heard(f)
  BY <1>2, <1>3 DEF Heard
<1>5. Bodies1(f) /\ Recent(f, n) /\ Dressed(f, s)
  BY <1>3 DEF Bodies1, Recent, Dressed, Stands, Preparing, Sending
<1> QED
  BY <1>4, <1>5 DEF Stands

LEMMA Failing ==
  ASSUME NEW e, NEW f, NEW s, NEW n, Stands(e, s, n), ~Over(e), Same(e, f), f.phase = "erring"
  PROVE  Stands(f, s, n)
<1>1. f.handles \in Seq(HandleStates)
  BY DEF Same, Stands, Bodies1
<1>2. f.phase \in UpPhases \ (Preparing \cup Sending \cup {"over"})
  BY DEF UpPhases, Preparing, Sending
<1> QED
  BY <1>1, <1>2, Onward DEF Same

LEMMA Ending ==
  ASSUME NEW e, NEW f, NEW s, NEW n, Stands(e, s, n), ~Over(e), DOMAIN f = UpFields, f.phase = "over",
         f.asked = e.asked, f.auth = e.auth, f.usage = e.usage + 1,
         f.handles \in Seq(HandleStates), \A k \in 1..Len(f.handles) : f.handles[k] # "open",
         \/ f.out = e.out \/ f.out = Append(e.out, "error")
         \/ f.out = Append(e.out, "end") /\ f.code = "ok"
  PROVE  Stands(f, s, n)
<1>1. e.out \in Seq(UpWords) /\ \A k \in 1..Len(e.out) : e.out[k] \notin {"end", "error"}
  BY DEF Stands, Heard
<1>2. /\ f.out \in Seq(UpWords)
      /\ \A k \in 1..Len(f.out) : f.out[k] \in {"end", "error"} => k = Len(f.out) /\ (f.out[k] = "end" => f.code = "ok")
  <2>1. CASE f.out = e.out
    BY <1>1, <2>1
  <2>2. ASSUME NEW w \in {"end", "error"}, f.out = Append(e.out, w), w = "end" => f.code = "ok"
        PROVE  /\ f.out \in Seq(UpWords)
               /\ \A k \in 1..Len(f.out) :
                    f.out[k] \in {"end", "error"} => k = Len(f.out) /\ (f.out[k] = "end" => f.code = "ok")
    <3>1. w \in UpWords
      BY DEF UpWords
    <3> QED
      BY <1>1, <2>2, <3>1, Appending
  <2> QED
    BY <2>1, <2>2
<1>4. Over(f) /\ e.usage = 0
  BY DEF Stands, Heard, Over
<1>5. Heard(f)
  BY <1>2, <1>4 DEF Heard
<1>6. Bodies1(f) /\ Recent(f, n) /\ Dressed(f, s) /\ f.phase \in UpPhases
  BY <1>4 DEF Bodies1, Recent, Dressed, Stands, Preparing, Sending, UpPhases
<1> QED
  BY <1>5, <1>6 DEF Stands

LEMMA Watching ==
  ASSUME NEW e, NEW f, NEW s, NEW n, Stands(e, s, n), DOMAIN f = UpFields, f.phase = e.phase, f.code = e.code,
         f.out = e.out, f.usage = e.usage, f.headers = e.headers, f.inc = e.inc, f.auth = e.auth, f.asked = e.asked,
         f.handles = e.handles \/ f.handles = Cancelled(e.handles)
  PROVE  Stands(f, s, n)
<1>1. Heard(f)
  BY DEF Heard, Stands, Over
<1>2. Bodies1(f)
  BY CancelledIs DEF Bodies1, Stands, Over
<1>3. Recent(f, n) /\ Dressed(f, s)
  BY DEF Recent, Dressed, Stands, Plain, Clothed, Sent, OwnSlot
<1> QED
  BY <1>1, <1>2, <1>3 DEF Stands

\* One exchange is set to what stands; nobody waits who should not.
LEMMA Put ==
  ASSUME UpInv, NEW r \in Exchanges, NEW f, Becomes(r, f), Stands(f, service, yields),
         UNCHANGED <<service, sub, yields>>, x[r].phase = "first" => f.phase = "first"
  PROVE  UpInv'
<1>1. DOMAIN x' = Exchanges /\ x'[r] = f /\ \A q \in Exchanges \ {r} : x'[q] = x[q]
  BY DEF UpInv, Becomes
<1>2. \A q \in Exchanges : Stands(x'[q], service', yields')
  BY <1>1 DEF UpInv
<1>3. SubInv'
  BY <1>1 DEF UpInv, SubInv
<1> QED
  BY <1>1, <1>2, <1>3 DEF UpInv

\* The credential is known and the rest is set in motion.
LEMMA Authorising ==
  ASSUME NEW e, NEW n, NEW v, Stands(e, service, n), e.phase \in {"auth", "first"} \/ (e.phase = "new" /\ Plain(e, service)),
         service.slots.auth \in SlotModes, v.from \in SlotModes,
         v.from = "script" => v.n \in Nat /\ v.n >= e.asked,
         service.slots.auth # "none" => v.from = service.slots.auth
  PROVE  Stands(Authorised(e, v), service, n)
<1> DEFINE f == Authorised(e, v)
           H == Static(service, WithAuth(e.headers, v))
           w == [e EXCEPT !.auth = v, !.headers = H]
<1>1. DOMAIN e = UpFields /\ e.handles = <<>> /\ ~Over(e) /\ Plain(e, service) /\ e.asked \in Nat /\ e.asked <= n
  BY DEF Stands, Bodies1, Preparing, Over, Dressed, Recent
<1>2. /\ DOMAIN f = UpFields
      /\ f.out = e.out /\ f.usage = e.usage /\ f.handles = e.handles /\ f.inc = e.inc /\ f.asked = e.asked
      /\ f.phase \in {"refusing", "headers", "erring", "script", "probe"}
      /\ f.auth = v \/ (f.phase = "refusing" /\ f.auth = e.auth)
      /\ f.phase = "headers" => f.headers = H
      /\ f.phase \in Sending => f.headers = Without(H, Guarded)
  BY <1>1, AuthorisedIs
<1>3. w.auth = v /\ w.headers = H /\ w.inc = e.inc
  BY <1>1 DEF UpFields
<1> HIDE DEF w, f, H
<1>4. Clothed(w, service)
  BY <1>1, <1>3, PlainClothed DEF H
<1>5. Heard(f)
  BY <1>1, <1>2 DEF Heard, Stands, Over
<1>6. Bodies1(f)
  BY <1>1, <1>2 DEF Bodies1, Stands, Over
<1>7. Recent(f, n)
  BY <1>1, <1>2 DEF Recent, Stands
<1>8. Dressed(f, service)
  <2>1. CASE f.phase = "headers"
    <3>1. f.auth = w.auth /\ f.headers = w.headers /\ f.inc = w.inc
      BY <1>2, <1>3, <2>1
    <3>2. Clothed(f, service)
      BY <1>4, <3>1 DEF Clothed
    <3> QED
      BY <1>3, <2>1, <3>1, <3>2 DEF Dressed, Sending, OwnSlot
  <2>2. CASE f.phase \in Sending
    <3>1. f.auth = w.auth /\ f.headers = Without(w.headers, Guarded) /\ f.inc = w.inc
      BY <1>2, <1>3, <2>2 DEF Sending
    <3>2. Sent(f, service)
      BY <1>4, <3>1, ClothedAsIs
    <3> QED
      BY <1>3, <2>2, <3>1, <3>2 DEF Dressed, Sending, OwnSlot
  <2>3. CASE f.phase \in {"refusing", "erring"}
    BY <2>3 DEF Dressed, Sending
  <2> QED
    BY <1>2, <2>1, <2>2, <2>3 DEF Sending
<1>9. f.phase \in UpPhases
  BY <1>2 DEF UpPhases, Preparing, Sending
<1> QED
  BY <1>2, <1>5, <1>6, <1>7, <1>8, <1>9 DEF Stands, f

\* More yielded values make nothing older.
LEMMA MoreYielded ==
  ASSUME NEW e, NEW s, NEW n \in Nat, Stands(e, s, n)
  PROVE  Stands(e, s, n + 1)
BY DEF Stands, Recent

LEMMA SlotsFrom ==
  ASSUME UpInv
  PROVE  /\ effectiveLifecycleSlots(service).auth \in SlotModes
         /\ service.slots.auth # "none" => effectiveLifecycleSlots(service).auth = service.slots.auth
<1> DEFINE s == service.slots.auth
           stages == stageFnsOf(loadHookScript)
           auth == CASE s # "none" -> s
                     [] s = "none" /\ "auth" \in stages -> "script"
                     [] OTHER -> "none"
<1>1. s \in SlotModes
  BY DEF UpInv
<1>2. effectiveLifecycleSlots(service).auth = IF ~service.preset THEN s ELSE auth
  BY DEF effectiveLifecycleSlots
<1> QED
  BY <1>1, <1>2 DEF SlotModes

LEMMA BeginKeeps ==
  ASSUME UpInv, NEW r \in Exchanges, BeginForward(r)
  PROVE  UpInv'
<1>1. PICK call \in ClientCalls :
       LET given == effectiveLifecycleSlots(service)
           e == [x[r] EXCEPT !.call = call, !.slots = given, !.asked = yields, !.headers = Inherited(call)]
           module == loadHookScript
           scripted == Offered(service, call.path) /\ given.auth = "script"
       IN /\ Becomes(r,
               CASE ~Offered(service, call.path) -> Refuse(e, "path_not_offered")
                 [] scripted ->
                      CASE "auth" \notin stageFnsOf(module) -> Refuse(e, "secret_missing")
                        [] "auth" \in stageFnsOf(module) /\ module.form = "value" ->
                             [e EXCEPT !.phase = "auth"]
                        [] OTHER ->
                             CASE sub.first = "none" -> [e EXCEPT !.phase = "first"]
                               [] sub.first # "none" /\ sub.latest = 0 ->
                                    Refuse(e, "secret_missing")
                               [] OTHER -> Authorised(e, From("script", sub.latest))
                 [] ~scripted /\ given.auth = "secret" ->
                      IF secretSet THEN Authorised(e, From("secret", 0))
                      ELSE Refuse(e, "secret_missing")
                 [] OTHER -> Authorised(e, From(given.auth, 0)))
          /\ sub' = IF /\ scripted /\ "auth" \in stageFnsOf(module)
                       /\ module.form = "stream" /\ sub.first = "none"
                    THEN [NoSub EXCEPT !.first = "awaited", !.waiter = {r}] ELSE sub
  BY DEF BeginForward
<1> DEFINE given == effectiveLifecycleSlots(service)
           e == [x[r] EXCEPT !.call = call, !.slots = given, !.asked = yields, !.headers = Inherited(call)]
           asking == [e EXCEPT !.phase = "auth"]
           waiting == [e EXCEPT !.phase = "first"]
           begun == [NoSub EXCEPT !.first = "awaited", !.waiter = {r}]
           Auths(g) == \/ given.auth = "script" /\ sub.latest # 0 /\ g = Authorised(e, From("script", sub.latest))
                       \/ given.auth = "secret" /\ g = Authorised(e, From("secret", 0))
                       \/ given.auth # "script" /\ g = Authorised(e, From(given.auth, 0))
<1>2. \E g : /\ Becomes(r, g)
             /\ \/ g = Refuse(e, "path_not_offered") \/ g = Refuse(e, "secret_missing") \/ Auths(g)
                \/ given.auth = "script" /\ (g = asking \/ g = waiting)
             /\ sub' = sub \/ (sub' = begun /\ g = waiting)
  BY <1>1
<1>3. /\ DOMAIN x[r] = UpFields /\ x[r].phase = "new" /\ x[r].handles = <<>> /\ x[r].auth.from = "none"
      /\ x[r].inc.set = {} /\ x[r].inc.remove = {} /\ Heard(x[r]) /\ yields \in Nat /\ sub.latest \in {0, yields}
      /\ service.slots.auth \in SlotModes /\ UNCHANGED <<service, yields>>
  BY DEF BeginForward, UpInv, SubInv, Stands, Bodies1, Recent, Dressed, Preparing
<1>4. /\ DOMAIN e = UpFields /\ e.phase = "new" /\ e.handles = <<>> /\ e.auth = x[r].auth /\ e.inc = x[r].inc
      /\ e.asked = yields /\ e.headers = Inherited(call) /\ e.out = x[r].out /\ e.usage = x[r].usage /\ e.code = x[r].code
  BY <1>3 DEF UpFields
<1> HIDE DEF e
<1>5. Plain(e, service)
  BY <1>3, <1>4 DEF Plain, Inherited, DefensiveStrip
<1>6. Stands(e, service, yields)
  <2>1. Heard(e)
    BY <1>3, <1>4 DEF Heard, Over
  <2>2. Bodies1(e) /\ Recent(e, yields) /\ Dressed(e, service) /\ e.phase \in UpPhases
    BY <1>3, <1>4 DEF Bodies1, Recent, Dressed, Over, Sending, Preparing, UpPhases
  <2> QED
    BY <1>4, <2>1, <2>2 DEF Stands
<1>7. given.auth \in SlotModes /\ (service.slots.auth # "none" => given.auth = service.slots.auth)
  BY SlotsFrom
<1>8. /\ DOMAIN asking = UpFields /\ asking.phase = "auth" /\ DOMAIN waiting = UpFields /\ waiting.phase = "first"
      /\ \A g \in {asking, waiting} :
           /\ g.handles = e.handles /\ g.auth = e.auth /\ g.inc = e.inc /\ g.asked = e.asked
           /\ g.headers = e.headers /\ g.out = e.out /\ g.usage = e.usage /\ g.code = e.code
  BY <1>4 DEF UpFields
<1> HIDE DEF given, asking, waiting
<1>9. given.auth = "script" => Stands(asking, service, yields) /\ Stands(waiting, service, yields)
  <2> SUFFICES ASSUME given.auth = "script", NEW g \in {asking, waiting} PROVE Stands(g, service, yields)
    OBVIOUS
  <2>1. /\ DOMAIN g = UpFields /\ g.phase \in {"auth", "first"}
        /\ g.handles = e.handles /\ g.auth = e.auth /\ g.inc = e.inc /\ g.asked = e.asked
        /\ g.headers = e.headers /\ g.out = e.out /\ g.usage = e.usage /\ g.code = e.code
    BY <1>8
  <2>2. Heard(g)
    BY <1>4, <1>6, <2>1 DEF Stands, Heard, Over
  <2>3. Bodies1(g) /\ Recent(g, yields)
    BY <1>4, <1>6, <2>1 DEF Stands, Bodies1, Recent, Over, Preparing
  <2>4. Plain(g, service)
    BY <1>5, <2>1 DEF Plain
  <2>5. Dressed(g, service) /\ g.phase \in UpPhases
    BY <1>3, <1>7, <2>1, <2>4 DEF Dressed, Sending, UpPhases, Preparing, SlotModes
  <2> QED
    BY <2>1, <2>2, <2>3, <2>5 DEF Stands
<1>10. \A g : Auths(g) => Stands(g, service, yields)
  <2>1. \A m, k : From(m, k).from = m /\ From(m, k).n = k
    BY DEF From
  <2>2. ASSUME NEW v, v.from = given.auth, v.from = "script" => v.n = yields PROVE Stands(Authorised(e, v), service, yields)
    BY <1>3, <1>4, <1>5, <1>6, <1>7, <2>2, Authorising
  <2> QED
    BY <1>3, <2>1, <2>2
<1>11. Stands(Refuse(e, "path_not_offered"), service, yields) /\ Stands(Refuse(e, "secret_missing"), service, yields)
  BY <1>4, <1>6, RefuseSame, Refusing DEF Preparing
<1>12. PICK g : Becomes(r, g) /\ Stands(g, service, yields) /\ (sub' = sub \/ (sub' = begun /\ g = waiting))
  BY <1>2, <1>9, <1>10, <1>11
<1>13. CASE sub' = sub
  BY <1>3, <1>12, <1>13, Put
<1>14. CASE sub' = begun /\ g = waiting
  <2>1. DOMAIN x' = Exchanges /\ x'[r] = waiting /\ \A q \in Exchanges \ {r} : x'[q] = x[q]
    BY <1>12, <1>14 DEF UpInv, Becomes
  <2>2. sub'.latest = 0 /\ sub'.waiter = {r} /\ DOMAIN sub' = {"latest", "first", "waiter"}
    BY <1>14 DEF NoSub
  <2>3. SubInv'
    BY <1>3, <1>8, <2>1, <2>2 DEF SubInv
  <2> QED
    BY <1>3, <1>12, <1>14, <2>1, <2>3 DEF UpInv
<1> QED
  BY <1>12, <1>13, <1>14

LEMMA AuthKeeps ==
  ASSUME UpInv, NEW r \in Exchanges, AuthAnswers(r)
  PROVE  UpInv'
<1>1. /\ x[r].phase = "auth" /\ UNCHANGED <<service, sub, yields>>
      /\ Becomes(r, Authorised(x[r], From("script", x[r].asked))) \/ Becomes(r, Refuse(x[r], "secret_missing"))
  BY DEF AuthAnswers
<1>2. Stands(x[r], service, yields) /\ service.slots.auth \in SlotModes /\ service.slots.auth \in {"none", "script"}
      /\ x[r].asked \in Nat /\ x[r].phase \in Preparing
  BY <1>1 DEF UpInv, Stands, Dressed, Recent, Preparing
<1>3. Stands(Refuse(x[r], "secret_missing"), service, yields)
  BY <1>2, RefuseSame, Refusing DEF Stands
<1>4. Stands(Authorised(x[r], From("script", x[r].asked)), service, yields)
  <2> DEFINE v == From("script", x[r].asked)
  <2>1. v.from = "script" /\ v.n = x[r].asked
    BY DEF From
  <2> HIDE DEF v
  <2>2. Stands(Authorised(x[r], v), service, yields)
    BY <1>1, <1>2, <2>1, Authorising DEF SlotModes
  <2> QED
    BY <2>2 DEF v
<1> QED
  BY <1>1, <1>3, <1>4, Put

LEMMA YieldKeeps ==
  ASSUME UpInv, Yield
  PROVE  UpInv'
<1> DEFINE v == From("script", yields + 1)
<1>1. /\ yields' = yields + 1 /\ UNCHANGED service
      /\ sub' = [sub EXCEPT !.latest = yields + 1, !.first = "settled", !.waiter = {}]
      /\ x' = [r \in Exchanges |-> IF r \in sub.waiter THEN Authorised(x[r], v) ELSE x[r]]
  BY DEF Yield, Latest
<1>2. v.from = "script" /\ v.n = yields + 1
  BY DEF From
<1> HIDE DEF v
<1>3. yields \in Nat /\ service.slots.auth \in SlotModes
  BY DEF UpInv, SubInv
<1>4. \A r \in Exchanges : Stands(x[r], service, yields + 1)
  BY <1>3, MoreYielded DEF UpInv
<1>5. ASSUME NEW r \in sub.waiter PROVE Stands(Authorised(x[r], v), service, yields + 1)
  <2>1. r \in Exchanges /\ x[r].phase = "first" /\ service.slots.auth \in {"none", "script"}
        /\ x[r].asked \in Nat /\ x[r].asked <= yields
    BY DEF UpInv, SubInv, Stands, Dressed, Recent
  <2>2. Stands(x[r], service, yields + 1) /\ v.n \in Nat /\ v.n >= x[r].asked
    BY <1>2, <1>3, <1>4, <2>1
  <2> QED
    BY <1>2, <1>3, <2>1, <2>2, Authorising DEF SlotModes
<1>6. DOMAIN x' = Exchanges /\ \A r \in Exchanges : Stands(x'[r], service', yields')
  BY <1>1, <1>4, <1>5
<1>7. SubInv'
  BY <1>1, <1>3 DEF UpInv, SubInv
<1> QED
  BY <1>1, <1>3, <1>6, <1>7 DEF UpInv

LEMMA StreamEndsKeeps ==
  ASSUME UpInv, StreamEnds
  PROVE  UpInv'
<1>1. /\ UNCHANGED <<service, yields>>
      /\ sub' = [sub EXCEPT !.first = "over", !.waiter = {}]
      /\ x' = [r \in Exchanges |-> IF r \in sub.waiter THEN Refuse(x[r], "secret_missing") ELSE x[r]]
  BY DEF StreamEnds
<1>2. ASSUME NEW r \in sub.waiter PROVE Stands(Refuse(x[r], "secret_missing"), service, yields)
  <2>1. r \in Exchanges /\ x[r].phase \in Preparing /\ Stands(x[r], service, yields)
    BY DEF UpInv, SubInv, Preparing
  <2> QED
    BY <2>1, RefuseSame, Refusing DEF Stands
<1>3. DOMAIN x' = Exchanges /\ \A r \in Exchanges : Stands(x'[r], service', yields')
  BY <1>1, <1>2 DEF UpInv
<1>4. SubInv'
  BY <1>1 DEF UpInv, SubInv
<1> QED
  BY <1>1, <1>3, <1>4 DEF UpInv

LEMMA HeadersKeep ==
  ASSUME UpInv, NEW r \in Exchanges, HeadersAnswer(r)
  PROVE  UpInv'
<1> DEFINE e == x[r]
<1>1. /\ e.phase = "headers" /\ UNCHANGED <<service, sub, yields>>
      /\ \/ Becomes(r, Refuse(e, "hook_failed"))
         \/ \E inc \in Increments :
              Becomes(r, Forward(Guard([e EXCEPT !.inc = inc, !.headers = Incremented(@, inc)])))
  BY DEF HeadersAnswer
<1>2. Stands(e, service, yields) /\ DOMAIN e = UpFields /\ e.handles = <<>> /\ Clothed(e, service) /\ OwnSlot(e, service)
      /\ e.phase \in Preparing /\ ~Over(e)
  BY <1>1 DEF UpInv, Stands, Bodies1, Dressed, Preparing, Over
<1> HIDE DEF e
<1>3. Stands(Refuse(e, "hook_failed"), service, yields)
  BY <1>2, RefuseSame, Refusing
<1>4. ASSUME NEW inc
      PROVE  Stands(Forward(Guard([e EXCEPT !.inc = inc, !.headers = Incremented(@, inc)])), service, yields)
  <2> DEFINE w == [e EXCEPT !.inc = inc, !.headers = Incremented(@, inc)]
             g == Guard(w)
             f == Forward(g)
  <2>1. /\ DOMAIN w = UpFields /\ w.inc = inc /\ w.headers = Incremented(e.headers, inc) /\ w.auth = e.auth
        /\ w.asked = e.asked /\ w.out = e.out /\ w.usage = e.usage /\ w.handles = e.handles
    BY <1>2 DEF UpFields
  <2> HIDE DEF w
  <2>2. /\ DOMAIN g = UpFields /\ g.inc = inc /\ g.headers = Without(Incremented(e.headers, inc), Guarded)
        /\ g.auth = e.auth /\ g.asked = e.asked /\ g.out = e.out /\ g.usage = e.usage /\ g.handles = e.handles
    BY <2>1, GuardKeeps
  <2> HIDE DEF g
  <2>3. Same(g, f) /\ f.phase \in {"refusing", "erring", "script", "probe"}
    BY <2>2, ForwardSame
  <2> HIDE DEF f
  <2>4. /\ DOMAIN f = UpFields /\ f.inc = inc /\ f.headers = Without(Incremented(e.headers, inc), Guarded)
        /\ f.auth = e.auth /\ f.asked = e.asked /\ f.out = e.out /\ f.usage = e.usage /\ f.handles = e.handles
    BY <2>2, <2>3 DEF Same
  <2>5. Heard(f) /\ Bodies1(f) /\ Recent(f, yields)
    BY <1>2, <2>3, <2>4 DEF Heard, Bodies1, Recent, Stands, Over
  <2>6. Sent(f, service)
    BY <1>2, <2>4, ClothedSent
  <2>7. Dressed(f, service) /\ f.phase \in UpPhases
    BY <1>2, <2>3, <2>4, <2>6 DEF Dressed, OwnSlot, Sending, UpPhases, Preparing
  <2>8. Stands(f, service, yields)
    BY <2>4, <2>5, <2>7 DEF Stands
  <2> QED
    BY <2>8 DEF f, g, w
<1>5. \E f : Becomes(r, f) /\ Stands(f, service, yields)
  BY <1>1, <1>3, <1>4
<1> QED
  BY <1>1, <1>5, Put DEF e

LEMMA RefusalKeeps ==
  ASSUME UpInv, NEW r \in Exchanges, RefusalTold(r)
  PROVE  UpInv'
<1> DEFINE e == x[r]
           f == [e EXCEPT !.phase = "over", !.out = Append(@, "error"), !.usage = @ + 1]
           g == [e EXCEPT !.phase = "thrown"]
<1>1. e.phase = "refusing" /\ UNCHANGED <<service, sub, yields>> /\ (Becomes(r, f) \/ Becomes(r, g))
  BY DEF RefusalTold
<1>2. Stands(e, service, yields) /\ DOMAIN e = UpFields /\ e.handles = <<>> /\ ~Over(e)
  BY <1>1 DEF UpInv, Stands, Bodies1, Preparing, Over
<1> HIDE DEF e
<1>3. DOMAIN f = UpFields /\ f.phase = "over" /\ f.out = Append(e.out, "error") /\ f.usage = e.usage + 1
      /\ f.asked = e.asked /\ f.auth = e.auth /\ f.handles = e.handles
  BY <1>2 DEF UpFields
<1>4. Same(e, g) /\ g.phase = "thrown"
  BY <1>2 DEF Same, UpFields
<1> HIDE DEF f, g
<1>5. Stands(f, service, yields)
  <2>1. f.handles \in Seq(HandleStates) /\ \A k \in 1..Len(f.handles) : f.handles[k] # "open"
    BY <1>2, <1>3
  <2> QED
    BY <1>2, <1>3, <2>1, Ending
<1>6. Stands(g, service, yields)
  BY <1>2, <1>4 DEF Stands, Same, Heard, Bodies1, Recent, Dressed, Over, Preparing, Sending, UpPhases
<1> QED
  BY <1>1, <1>5, <1>6, Put DEF e

\* An exchange the upstream knows of: its steps are of five kinds.
LEMMA WorkPut ==
  ASSUME UpInv, NEW r \in Exchanges, NEW f, Becomes(r, f), UNCHANGED <<service, sub, yields>>, x[r].phase # "first",
         ~Over(x[r]), DOMAIN f = UpFields,
         f.phase \in UpPhases \ (Preparing \cup Sending \cup {"over"}),
         f.asked = x[r].asked, f.auth = x[r].auth, f.usage = x[r].usage, f.handles \in Seq(HandleStates),
         \/ f.out = x[r].out
         \/ \E w \in {"meta", "chunk"} : f.out = Append(x[r].out, w)
  PROVE  UpInv'
<1>1. Stands(x[r], service, yields)
  BY DEF UpInv
<1>2. Stands(f, service, yields)
  BY <1>1, Onward
<1> QED
  BY <1>2, Put

LEMMA FailPut ==
  ASSUME UpInv, NEW r \in Exchanges, NEW f, Becomes(r, f), UNCHANGED <<service, sub, yields>>, x[r].phase # "first",
         ~Over(x[r]), Same(x[r], f), f.phase = "erring"
  PROVE  UpInv'
<1>1. Stands(x[r], service, yields)
  BY DEF UpInv
<1>2. Stands(f, service, yields)
  BY <1>1, Failing
<1> QED
  BY <1>2, Put

LEMMA BodyThereIs ==
  ASSUME NEW e, DOMAIN e = UpFields, e.handles \in Seq(HandleStates), NEW scripted
  PROVE  LET f == BodyThere(e, scripted) IN
         /\ DOMAIN f = UpFields /\ f.phase \in {"respond", "erring", "meta"}
         /\ f.out = e.out /\ f.usage = e.usage /\ f.asked = e.asked /\ f.auth = e.auth
         /\ f.handles \in Seq(HandleStates)
<1> DEFINE f == BodyThere(e, scripted)
           got == [e EXCEPT !.timer = "none", !.handles = Append(@, "open"), !.body = Len(e.handles) + 1,
                            !.scripted = scripted]
           a == [got EXCEPT !.phase = "respond"]
           b == [got EXCEPT !.phase = "meta"]
<1>1. /\ DOMAIN got = UpFields /\ got.out = e.out /\ got.usage = e.usage /\ got.asked = e.asked /\ got.auth = e.auth
      /\ got.handles = Append(e.handles, "open")
  BY DEF UpFields
<1>2. Append(e.handles, "open") \in Seq(HandleStates)
  BY DEF HandleStates
<1>3. f = a \/ f = FinishWithError(got, "hook_failed") \/ f = b
  BY DEF BodyThere
<1> HIDE DEF got, f
<1>4. \A q \in {a, b} : /\ DOMAIN q = UpFields /\ q.out = got.out /\ q.usage = got.usage /\ q.asked = got.asked
                        /\ q.auth = got.auth /\ q.handles = got.handles
  BY <1>1 DEF UpFields
<1>5. a.phase = "respond" /\ b.phase = "meta"
  BY <1>1 DEF UpFields
<1> HIDE DEF a, b
<1>6. Same(got, FinishWithError(got, "hook_failed")) /\ FinishWithError(got, "hook_failed").phase = "erring"
  BY <1>1, FinishSame
<1>7. CASE f = FinishWithError(got, "hook_failed")
  BY <1>1, <1>2, <1>6, <1>7 DEF Same, f
<1>8. CASE f \in {a, b}
  BY <1>1, <1>2, <1>4, <1>5, <1>8 DEF f
<1> QED
  BY <1>3, <1>7, <1>8

LEMMA Working ==
  ASSUME UpInv, NEW r \in Exchanges, x[r].phase \in UpPhases \ {"over"}
  PROVE  ~Over(x[r]) /\ DOMAIN x[r] = UpFields /\ x[r].handles \in Seq(HandleStates) /\ Stands(x[r], service, yields)
BY DEF UpInv, Stands, Bodies1, Over

LEMMA AnswersKeep ==
  ASSUME UpInv, NEW r \in Exchanges, ScriptAnswers(r) \/ FetchAnswers(r) \/ FetchAborted(r) \/ ProbeAnswers(r)
  PROVE  UpInv'
<1>1. x[r].phase \in Sending /\ UNCHANGED <<service, sub, yields>>
  BY DEF ScriptAnswers, FetchAnswers, FetchAborted, ProbeAnswers, Sending, libVars
<1>2. x[r].phase \in UpPhases \ {"over"} /\ x[r].phase # "first"
  BY <1>1 DEF UpPhases, Sending
<1>3. ~Over(x[r]) /\ DOMAIN x[r] = UpFields /\ x[r].handles \in Seq(HandleStates) /\ Stands(x[r], service, yields)
  BY <1>2, Working
<1>4. ASSUME NEW b, Becomes(r, BodyThere(x[r], b)) PROVE UpInv'
  <2> DEFINE f == BodyThere(x[r], b)
  <2>1. /\ DOMAIN f = UpFields /\ f.phase \in {"respond", "erring", "meta"}
        /\ f.out = x[r].out /\ f.usage = x[r].usage /\ f.asked = x[r].asked /\ f.auth = x[r].auth
        /\ f.handles \in Seq(HandleStates)
    BY <1>3, BodyThereIs
  <2>2. f.phase \in UpPhases \ (Preparing \cup Sending \cup {"over"})
    BY <2>1 DEF UpPhases, Preparing, Sending
  <2> HIDE DEF f
  <2>3. Becomes(r, f)
    BY <1>4 DEF f
  <2> QED
    BY <1>1, <1>2, <1>3, <2>1, <2>2, <2>3, WorkPut
<1>5. ASSUME NEW code, Becomes(r, Unlistened(x[r], code)) PROVE UpInv'
  BY <1>1, <1>2, <1>3, <1>5, UnlistenedSame, FailPut
<1>6. ASSUME x[r].phase = "probe", Becomes(r, [x[r] EXCEPT !.phase = "fetch"]) PROVE UpInv'
  <2> DEFINE f == [x[r] EXCEPT !.phase = "fetch"]
  <2>1. Same(x[r], f) /\ f.phase = "fetch"
    BY <1>3 DEF Same, UpFields
  <2> HIDE DEF f
  <2>2. Heard(f) /\ Bodies1(f) /\ Recent(f, yields)
    BY <1>3, <2>1 DEF Same, Stands, Heard, Bodies1, Recent, Over, Preparing
  <2>3. Sent(x[r], service) /\ OwnSlot(x[r], service)
    BY <1>1, <1>3 DEF Stands, Dressed
  <2>4. Sent(f, service) /\ OwnSlot(f, service)
    BY <2>1, <2>3 DEF Same, Sent, OwnSlot
  <2>5. Stands(f, service, yields)
    BY <2>1, <2>2, <2>4 DEF Stands, Same, Dressed, Sending, UpPhases, Preparing
  <2>6. Becomes(r, f)
    BY <1>6 DEF f
  <2> QED
    BY <1>1, <1>2, <2>5, <2>6, Put
<1> QED
  BY <1>4, <1>5, <1>6 DEF ScriptAnswers, FetchAnswers, FetchAborted, ProbeAnswers

LEMMA TellingKeeps ==
  ASSUME UpInv, NEW r \in Exchanges,
         ResponseAnswers(r) \/ MetaTold(r) \/ BodyYields(r) \/ BodyCut(r) \/ ChunkTold(r)
  PROVE  UpInv'
<1> DEFINE e == x[r]
<1>1. e.phase \in {"respond", "meta", "body", "chunk"} /\ UNCHANGED <<service, sub, yields>>
  BY DEF ResponseAnswers, MetaTold, BodyYields, BodyCut, ChunkTold
<1>2. e.phase \in UpPhases \ {"over"} /\ e.phase # "first"
  BY <1>1 DEF UpPhases
<1>3. ~Over(e) /\ DOMAIN e = UpFields /\ e.handles \in Seq(HandleStates)
  BY <1>2, Working
<1>4. ASSUME NEW f, Becomes(r, f), Same(e, f), f.phase = "erring" PROVE UpInv'
  BY <1>1, <1>2, <1>3, <1>4, FailPut
<1>5. ASSUME NEW f, Becomes(r, f), DOMAIN f = UpFields, f.phase \in {"meta", "body", "chunk", "end", "erring"},
             f.asked = e.asked, f.auth = e.auth, f.usage = e.usage, f.handles \in Seq(HandleStates),
             f.out = e.out \/ \E w \in {"meta", "chunk"} : f.out = Append(e.out, w)
      PROVE  UpInv'
  <2>1. f.phase \in UpPhases \ (Preparing \cup Sending \cup {"over"})
    BY <1>5 DEF UpPhases, Preparing, Sending
  <2> QED
    BY <1>1, <1>2, <1>3, <1>5, <2>1, WorkPut
<1> HIDE DEF e
<1>6. CASE ResponseAnswers(r)
  <2> DEFINE a == [e EXCEPT !.phase = "meta"]
             b == [e EXCEPT !.phase = "meta", !.handles = Append(@, "open"), !.body = Len(e.handles) + 1, !.scripted = TRUE]
  <2>1. Becomes(r, a) \/ Becomes(r, b) \/ Becomes(r, FinishWithError(e, "hook_failed"))
    BY <1>6 DEF ResponseAnswers, e
  <2>2. /\ DOMAIN a = UpFields /\ a.phase = "meta" /\ a.asked = e.asked /\ a.auth = e.auth /\ a.usage = e.usage
        /\ a.handles = e.handles /\ a.out = e.out
    BY <1>3 DEF UpFields
  <2>3. /\ DOMAIN b = UpFields /\ b.phase = "meta" /\ b.asked = e.asked /\ b.auth = e.auth /\ b.usage = e.usage
        /\ b.handles = Append(e.handles, "open") /\ b.out = e.out
    BY <1>3 DEF UpFields
  <2>4. Append(e.handles, "open") \in Seq(HandleStates)
    BY <1>3 DEF HandleStates
  <2> HIDE DEF a, b
  <2> QED
    BY <1>3, <1>4, <1>5, <2>1, <2>2, <2>3, <2>4, FinishSame
<1>7. CASE MetaTold(r)
  <2> DEFINE a == [e EXCEPT !.phase = "body", !.out = Append(@, "meta"), !.timer = "stall"]
  <2>1. Becomes(r, a) \/ Becomes(r, StreamFailed(e))
    BY <1>7 DEF MetaTold, e
  <2>2. /\ DOMAIN a = UpFields /\ a.phase = "body" /\ a.asked = e.asked /\ a.auth = e.auth /\ a.usage = e.usage
        /\ a.handles = e.handles /\ a.out = Append(e.out, "meta")
    BY <1>3 DEF UpFields
  <2> HIDE DEF a
  <2> QED
    BY <1>3, <1>4, <1>5, <2>1, <2>2, StreamFailedSame
<1>8. CASE ChunkTold(r)
  <2> DEFINE a == [e EXCEPT !.phase = "body", !.out = Append(@, "chunk")]
  <2>1. Becomes(r, a) \/ Becomes(r, StreamFailed(e))
    BY <1>8 DEF ChunkTold, e
  <2>2. /\ DOMAIN a = UpFields /\ a.phase = "body" /\ a.asked = e.asked /\ a.auth = e.auth /\ a.usage = e.usage
        /\ a.handles = e.handles /\ a.out = Append(e.out, "chunk")
    BY <1>3 DEF UpFields
  <2> HIDE DEF a
  <2> QED
    BY <1>3, <1>4, <1>5, <2>1, <2>2, StreamFailedSame
<1>9. CASE BodyCut(r)
  BY <1>3, <1>4, <1>9, StreamFailedSame DEF BodyCut, e
<1>10. CASE BodyYields(r)
  <2> DEFINE taken == [e EXCEPT !.handles[e.body] = "drained", !.timer = "none"]
             a == [e EXCEPT !.phase = "chunk", !.timer = "stall"]
             b == [taken EXCEPT !.phase = "end"]
             c == FinishWithError(taken, "aborted")
  <2>1. Becomes(r, a) \/ Becomes(r, b) \/ Becomes(r, c) \/ Becomes(r, StreamFailed(e))
    BY <1>10 DEF BodyYields, e
  <2>2. /\ DOMAIN a = UpFields /\ a.phase = "chunk" /\ a.asked = e.asked /\ a.auth = e.auth /\ a.usage = e.usage
        /\ a.handles = e.handles /\ a.out = e.out
    BY <1>3 DEF UpFields
  <2>3. /\ DOMAIN taken = UpFields /\ taken.asked = e.asked /\ taken.auth = e.auth /\ taken.usage = e.usage
        /\ taken.handles = [e.handles EXCEPT ![e.body] = "drained"] /\ taken.out = e.out
    BY <1>3 DEF UpFields
  <2>4. taken.handles \in Seq(HandleStates)
    <3>1. ASSUME NEW q \in Seq(HandleStates), NEW k PROVE [q EXCEPT ![k] = "drained"] \in Seq(HandleStates)
      <4>1. [q EXCEPT ![k] = "drained"] = [i \in 1..Len(q) |-> IF i = k THEN "drained" ELSE q[i]]
        OBVIOUS
      <4> DEFINE S == HandleStates
      <4>2. "drained" \in S /\ q \in Seq(S)
        BY DEF HandleStates
      <4> HIDE DEF S
      <4>3. [i \in 1..Len(q) |-> IF i = k THEN "drained" ELSE q[i]] \in Seq(S)
        BY <4>2
      <4> QED
        BY <4>1, <4>3 DEF S
    <3> QED
      BY <1>3, <2>3, <3>1
  <2> HIDE DEF taken, a
  <2>5. /\ DOMAIN b = UpFields /\ b.phase = "end" /\ b.asked = e.asked /\ b.auth = e.auth /\ b.usage = e.usage
        /\ b.handles = taken.handles /\ b.out = e.out
    BY <2>3 DEF UpFields
  <2>6. Same(taken, c) /\ c.phase = "erring"
    BY <2>3, FinishSame
  <2> HIDE DEF b, c
  <2>7. DOMAIN c = UpFields /\ c.asked = e.asked /\ c.auth = e.auth /\ c.usage = e.usage /\ c.handles = taken.handles
        /\ c.out = e.out
    BY <2>3, <2>6 DEF Same
  <2>8. CASE Becomes(r, a)
    BY <1>3, <1>5, <2>2, <2>8
  <2>9. CASE Becomes(r, b)
    BY <1>5, <2>4, <2>5, <2>9
  <2>10. CASE Becomes(r, c)
    BY <1>5, <2>4, <2>6, <2>7, <2>10
  <2> QED
    BY <1>3, <1>4, <2>1, <2>8, <2>9, <2>10, StreamFailedSame
<1> QED
  BY <1>6, <1>7, <1>8, <1>9, <1>10

LEMMA EndsKeep ==
  ASSUME UpInv, NEW r \in Exchanges, EndTold(r) \/ ErrorTold(r)
  PROVE  UpInv'
<1> DEFINE e == x[r]
<1>1. e.phase \in {"end", "erring"} /\ UNCHANGED <<service, sub, yields>>
  BY DEF EndTold, ErrorTold
<1>2. e.phase \in UpPhases \ {"over"} /\ e.phase # "first"
  BY <1>1 DEF UpPhases
<1>3. ~Over(e) /\ DOMAIN e = UpFields /\ e.handles \in Seq(HandleStates) /\ Stands(e, service, yields)
  BY <1>2, Working
<1> HIDE DEF e
<1>4. ASSUME NEW g, DOMAIN g = UpFields, g.handles = e.handles, g.asked = e.asked, g.auth = e.auth, g.usage = e.usage + 1,
             \/ g.out = e.out \/ g.out = Append(e.out, "error")
             \/ g.out = Append(e.out, "end") /\ g.code = "ok",
             Becomes(r, Released(g))
      PROVE  UpInv'
  <2> DEFINE f == Released(g)
  <2>1. /\ DOMAIN f = UpFields /\ f.phase = "over" /\ f.handles = Cancelled(g.handles) /\ f.asked = g.asked
        /\ f.auth = g.auth /\ f.usage = g.usage /\ f.out = g.out /\ f.code = g.code
    BY <1>4 DEF Released, UpFields
  <2> HIDE DEF f
  <2>2. f.handles \in Seq(HandleStates) /\ \A k \in 1..Len(f.handles) : f.handles[k] # "open"
    BY <1>3, <1>4, <2>1, CancelledIs
  <2>3. Stands(f, service, yields)
    BY <1>3, <1>4, <2>1, <2>2, Ending
  <2>4. Becomes(r, f)
    BY <1>4 DEF f
  <2> QED
    BY <1>1, <1>2, <2>3, <2>4, Put DEF e
<1>5. CASE EndTold(r)
  <2> DEFINE g == [e EXCEPT !.out = Append(@, "end"), !.settled = TRUE, !.usage = @ + 1, !.code = "ok"]
  <2>1. Becomes(r, Released(g)) \/ Becomes(r, StreamFailed(e))
    BY <1>5 DEF EndTold, e
  <2>2. /\ DOMAIN g = UpFields /\ g.handles = e.handles /\ g.asked = e.asked /\ g.auth = e.auth
        /\ g.usage = e.usage + 1 /\ g.out = Append(e.out, "end") /\ g.code = "ok"
    BY <1>3 DEF UpFields
  <2> HIDE DEF g
  <2>3. CASE Becomes(r, Released(g))
    BY <1>4, <2>2, <2>3
  <2>4. CASE Becomes(r, StreamFailed(e))
    BY <1>1, <1>2, <1>3, <2>4, StreamFailedSame, FailPut DEF e
  <2> QED
    BY <2>1, <2>3, <2>4
<1>6. CASE ErrorTold(r)
  <2> DEFINE g == [e EXCEPT !.out = Append(@, "error"), !.usage = @ + 1]
             h == [e EXCEPT !.usage = @ + 1]
  <2>1. Becomes(r, Released(g)) \/ Becomes(r, Released(h))
    BY <1>6 DEF ErrorTold, e
  <2>2. /\ DOMAIN g = UpFields /\ g.handles = e.handles /\ g.asked = e.asked /\ g.auth = e.auth
        /\ g.usage = e.usage + 1 /\ g.out = Append(e.out, "error")
    BY <1>3 DEF UpFields
  <2>3. /\ DOMAIN h = UpFields /\ h.handles = e.handles /\ h.asked = e.asked /\ h.auth = e.auth
        /\ h.usage = e.usage + 1 /\ h.out = e.out
    BY <1>3 DEF UpFields
  <2> HIDE DEF g, h
  <2> QED
    BY <1>4, <2>1, <2>2, <2>3
<1> QED
  BY <1>5, <1>6

LEMMA WatchKeeps ==
  ASSUME UpInv, NEW r \in Exchanges, TimerFires(r) \/ Abort(r)
  PROVE  UpInv'
<1> DEFINE e == x[r]
           a == AbortWith(e)
           b == [e EXCEPT !.aborted = TRUE]
           c == [AbortWith(b) EXCEPT !.timer = b.timer]
<1>1. UNCHANGED <<service, sub, yields>> /\ (Becomes(r, a) \/ Becomes(r, b) \/ Becomes(r, c))
  BY DEF TimerFires, Abort
<1>2. Stands(e, service, yields) /\ DOMAIN e = UpFields
  BY DEF UpInv, Stands
<1> HIDE DEF e
<1>3. \A q : DOMAIN q = UpFields =>
        LET p == AbortWith(q) IN
        /\ DOMAIN p = UpFields /\ p.phase = q.phase /\ p.code = q.code /\ p.out = q.out /\ p.usage = q.usage
        /\ p.headers = q.headers /\ p.inc = q.inc /\ p.auth = q.auth /\ p.asked = q.asked
        /\ p.handles = Cancelled(q.handles)
  BY DEF AbortWith, UpFields
<1>4. /\ DOMAIN b = UpFields /\ b.phase = e.phase /\ b.code = e.code /\ b.out = e.out /\ b.usage = e.usage
      /\ b.headers = e.headers /\ b.inc = e.inc /\ b.auth = e.auth /\ b.asked = e.asked /\ b.handles = e.handles
  BY <1>2 DEF UpFields
<1> HIDE DEF b
<1>5. /\ DOMAIN c = UpFields /\ c.phase = e.phase /\ c.code = e.code /\ c.out = e.out /\ c.usage = e.usage
      /\ c.headers = e.headers /\ c.inc = e.inc /\ c.auth = e.auth /\ c.asked = e.asked
      /\ c.handles = Cancelled(e.handles)
  <2> DEFINE p == AbortWith(b)
  <2>1. /\ DOMAIN p = UpFields /\ p.phase = b.phase /\ p.code = b.code /\ p.out = b.out /\ p.usage = b.usage
        /\ p.headers = b.headers /\ p.inc = b.inc /\ p.auth = b.auth /\ p.asked = b.asked
        /\ p.handles = Cancelled(b.handles)
    BY <1>3, <1>4
  <2> HIDE DEF p
  <2>2. c = [p EXCEPT !.timer = b.timer]
    BY DEF p
  <2> HIDE DEF c
  <2> QED
    BY <1>4, <2>1, <2>2 DEF UpFields
<1>6. /\ DOMAIN a = UpFields /\ a.phase = e.phase /\ a.code = e.code /\ a.out = e.out /\ a.usage = e.usage
      /\ a.headers = e.headers /\ a.inc = e.inc /\ a.auth = e.auth /\ a.asked = e.asked
      /\ a.handles = Cancelled(e.handles)
  BY <1>2, <1>3
<1> HIDE DEF a, c
<1>7. \A f \in {a, b, c} : Stands(f, service, yields) /\ f.phase = e.phase
  BY <1>2, <1>4, <1>5, <1>6, Watching
<1> QED
  BY <1>1, <1>7, Put DEF e

LEMMA UpStarts ==
  ASSUME \A s \in ServiceKinds : s.slots.auth \in SlotModes
  PROVE  AiUpstreamInit => UpInv
<1> SUFFICES ASSUME AiUpstreamInit PROVE UpInv
  OBVIOUS
<1>1. service \in ServiceKinds /\ x = [r \in Exchanges |-> New] /\ sub = NoSub /\ yields = 0
  BY DEF AiUpstreamInit
<1>2. /\ DOMAIN New = UpFields /\ New.phase = "new" /\ New.out = <<>> /\ New.usage = 0 /\ New.handles = <<>>
      /\ New.asked = 0 /\ New.auth = From("none", 0) /\ New.inc.set = {} /\ New.inc.remove = {}
  BY DEF New, UpFields
<1>3. From("none", 0).from = "none"
  BY DEF From
<1>4. Stands(New, service, yields)
  BY <1>1, <1>2, <1>3 DEF Stands, Heard, Bodies1, Recent, Dressed, Over, Preparing, Sending, UpPhases
<1>5. SubInv
  BY <1>1 DEF SubInv, NoSub
<1> QED
  BY <1>1, <1>4, <1>5 DEF UpInv

LEMMA UpKeeps == UpInv /\ [AiUpstreamNext]_aiUpVars => UpInv'
<1> SUFFICES ASSUME UpInv, [AiUpstreamNext]_aiUpVars PROVE UpInv'
  OBVIOUS
<1>1. CASE Yield
  BY <1>1, YieldKeeps
<1>2. CASE StreamEnds
  BY <1>2, StreamEndsKeeps
<1>3. ASSUME UNCHANGED <<service, sub, yields, x>> PROVE UpInv'
  BY <1>3 DEF UpInv, SubInv
<1>4. CASE Edit \/ UNCHANGED aiUpVars
  BY <1>3, <1>4 DEF Edit, aiUpVars
<1>5. ASSUME NEW r \in Exchanges, Step(r) PROVE UpInv'
  BY <1>5, BeginKeeps, AuthKeeps, HeadersKeep, RefusalKeeps, AnswersKeep, TellingKeeps, EndsKeep, WatchKeeps DEF Step
<1> QED
  BY <1>1, <1>2, <1>4, <1>5 DEF AiUpstreamNext

LEMMA OneTerminal ==
  ASSUME NEW e, Heard(e)
  PROVE  Cardinality(Terminals(e)) <= 1 /\ \A k \in Terminals(e) : k = Len(e.out)
<1>1. DOMAIN e.out = 1..Len(e.out)
  BY DEF Heard
<1>2. \A k \in Terminals(e) : k = Len(e.out)
  BY <1>1 DEF Heard, Terminals
<1>3. Terminals(e) = {} \/ Terminals(e) = {Len(e.out)}
  BY <1>2
<1>4. Cardinality(Terminals(e)) <= 1
  <2>1. CASE Terminals(e) = {}
    BY <2>1, FS_EmptySet
  <2>2. CASE Terminals(e) = {Len(e.out)}
    <3>1. Cardinality({Len(e.out)}) = 1
      BY FS_Singleton
    <3> QED
      BY <2>2, <3>1
  <2> QED
    BY <1>3, <2>1, <2>2
<1> QED
  BY <1>2, <1>4

\* Whatever a service, its scripts and its upstream do: a request that is over
\* is accounted for once and its sink has heard at most one outcome, last; no
\* body is open behind it; a credential of a script is as new as the request;
\* and what is sent upstream has the headers it should (upstream.mjs,
\* hooks.mjs, rewrite.mjs of the AI plugin's provider).
THEOREM UpstreamAlwaysHolds ==
  ASSUME \A s \in ServiceKinds : s.slots.auth \in SlotModes
  PROVE  AiUpstreamSpec => []UpstreamHolds
<1>1. AiUpstreamInit => UpInv
  BY UpStarts
<1>2. UpInv => UpstreamHolds
  <2> SUFFICES ASSUME UpInv, NEW r \in Exchanges
               PROVE  LET e == x[r] IN
                      /\ /\ e.usage = IF Over(e) THEN 1 ELSE 0
                         /\ Cardinality(Terminals(e)) <= 1
                         /\ \A k \in Terminals(e) : k = Len(e.out)
                         /\ e.out # <<>> /\ e.out[Len(e.out)] = "end" => e.code = "ok"
                      /\ e.phase \in {"over", "thrown"} => \A k \in DOMAIN e.handles : e.handles[k] # "open"
                      /\ e.auth.from = "script" => e.auth.n >= e.asked
                      /\ e.phase \in Sending => Sent(e, service) /\ OwnSlot(e, service)
    BY DEF UpstreamHolds, OneOutcome, BodiesReleased, NoOlderCredential, HeadersRight, Sending, Sent, OwnSlot
  <2> DEFINE e == x[r]
  <2>1. Heard(e) /\ Bodies1(e) /\ Recent(e, yields) /\ Dressed(e, service)
    BY DEF UpInv, Stands
  <2> HIDE DEF e
  <2>2. Cardinality(Terminals(e)) <= 1 /\ \A k \in Terminals(e) : k = Len(e.out)
    BY <2>1, OneTerminal
  <2>3. e.usage = IF Over(e) THEN 1 ELSE 0
    BY <2>1 DEF Heard
  <2>4. e.out # <<>> /\ e.out[Len(e.out)] = "end" => e.code = "ok"
    BY <2>1 DEF Heard
  <2>5. e.phase \in {"over", "thrown"} => \A k \in DOMAIN e.handles : e.handles[k] # "open"
    BY <2>1 DEF Bodies1, Over, Preparing
  <2> QED
    BY <2>1, <2>2, <2>3, <2>4, <2>5 DEF Recent, Dressed, e
<1> QED
  BY <1>1, <1>2, UpKeeps, PTL DEF AiUpstreamSpec

-----------------------------------------------------------------------------
(***************************************************************************)
(* The AI plugin's endpoints, with requests and orders that overlap.  A    *)
(* step changes one worker's job; whoever else holds a listener goes on    *)
(* holding it.  Ledger and file, which overlap disturbs, are not needed.   *)
(***************************************************************************)
Workers == Askers \cup {Host}
JobFields == {"op", "step", "entry", "id", "text", "left"}
HoldsListener(c, l) == Starting(c) /\ NewEntry(c) = l /\ job[c].step \in {"save", "saved"}
PortsInv == DOMAIN job = Workers /\ (\A c \in Workers : DOMAIN job[c] = JobFields) /\ NoPortLost

Turns(c) == \E j : DOMAIN j = JobFields /\ job' = [job EXCEPT ![c] = j]
\* What goes on listening has not left the table.
TableKept == \A l \in open' : l \in open /\ (l.id \in active => l.id \in active')

\* A step of c keeps every listener that c does not hold, or holds on to, or
\* puts into the table.
LEMMA OwnStepKeeps ==
  ASSUME PortsInv, NEW c \in Workers, Turns(c), TableKept,
         \A l \in open' : HoldsListener(c, l) => HoldsListener(c, l)' \/ l.id \in active'
  PROVE  PortsInv'
<1>1. PICK j : DOMAIN j = JobFields /\ job' = [job EXCEPT ![c] = j]
  BY DEF Turns
<1>2. DOMAIN job' = Workers /\ job'[c] = j /\ \A d \in Workers \ {c} : job'[d] = job[d]
  BY <1>1 DEF PortsInv
<1>3. \A d \in Workers \ {c} : \A l : HoldsListener(d, l) => HoldsListener(d, l)'
  BY <1>2 DEF HoldsListener, Starting, NewEntry
<1>4. \A l \in open : l.id \in active \/ \E d \in Workers : HoldsListener(d, l)
  BY DEF PortsInv, NoPortLost, HoldsListener
<1>5. \A l \in open' : l.id \in active' \/ \E d \in Workers : HoldsListener(d, l)'
  BY <1>3, <1>4 DEF TableKept
<1>6. NoPortLost'
  BY <1>2, <1>5 DEF NoPortLost, HoldsListener
<1> QED
  BY <1>1, <1>2, <1>6 DEF PortsInv

\* So does a step of a worker that holds none and leaves the listeners alone.
LEMMA FreeStepKeeps ==
  ASSUME PortsInv, NEW c \in Workers, Turns(c), job[c].step \notin {"save", "saved"}, UNCHANGED <<open, active>>
  PROVE  PortsInv'
BY OwnStepKeeps DEF HoldsListener, TableKept

LEMMA RestingFields == DOMAIN Resting = JobFields
BY DEF Resting, JobFields

LEMMA RestTurns == ASSUME PortsInv, NEW c \in Workers, Rest(c) PROVE Turns(c)
BY RestingFields DEF Rest, Turns

LEMMA MoveTurns == ASSUME PortsInv, NEW c \in Workers, NEW step, MovesTo(c, step) PROVE Turns(c)
<1>1. DOMAIN [job[c] EXCEPT !.step = step] = JobFields
  BY DEF PortsInv
<1>2. job' = [job EXCEPT ![c] = [job[c] EXCEPT !.step = step]]
  BY DEF MovesTo
<1> QED
  BY <1>1, <1>2 DEF Turns

LEMMA StartFailsTurns == ASSUME PortsInv, NEW c \in Workers, StartFails(c) PROVE Turns(c)
<1>1. CASE GoesOn(c)
  <2>1. DOMAIN [Resting EXCEPT !.op = "restore", !.step = "next", !.left = job[c].left] = JobFields
    BY RestingFields
  <2> QED
    BY <1>1, <2>1 DEF GoesOn, Turns
<1> QED
  BY <1>1, RestTurns DEF StartFails, Fails

\* Reading the ledger, and a start before it has a listener.
LEMMA BeforeListening ==
  ASSUME PortsInv, NEW c \in Workers,
         loadEndpoints(c) \/ Reads(c) \/ ReadEnds(c) \/ StartChecked(c) \/ ListenFails(c) \/ ListenerShut(c)
  PROVE  PortsInv'
<1>1. job[c].step \notin {"save", "saved"} /\ UNCHANGED <<open, active>>
  BY DEF loadEndpoints, Reads, ReadEnds, StartChecked, ListenFails, ListenerShut
<1>2. Turns(c)
  <2>1. CASE loadEndpoints(c)
    BY <2>1, MoveTurns DEF loadEndpoints
  <2>2. CASE Reads(c)
    <3>1. CASE Fails(c)
      BY <3>1, RestTurns DEF Fails
    <3>2. CASE job' = [job EXCEPT ![c].step = "assign", ![c].text = onDisk]
      <4>1. DOMAIN [job[c] EXCEPT !.step = "assign", !.text = onDisk] = JobFields
        BY DEF PortsInv
      <4>2. job' = [job EXCEPT ![c] = [job[c] EXCEPT !.step = "assign", !.text = onDisk]]
        BY <3>2
      <4> QED
        BY <4>1, <4>2 DEF Turns
    <3> QED
      BY <2>2, <3>1, <3>2 DEF Reads
  <2>3. CASE ReadEnds(c)
    <3>1. DOMAIN [job[c] EXCEPT !.step = "loaded", !.text = <<>>] = JobFields
      BY DEF PortsInv
    <3>2. job' = [job EXCEPT ![c] = [job[c] EXCEPT !.step = "loaded", !.text = <<>>]]
      BY <2>3 DEF ReadEnds
    <3> QED
      BY <3>1, <3>2 DEF Turns
  <2>4. CASE StartChecked(c)
    <3>1. CASE StartFails(c)
      BY <3>1, StartFailsTurns
    <3>2. CASE job' = [job EXCEPT ![c].step = "listen", ![c].id = lastId + 1]
      <4>1. DOMAIN [job[c] EXCEPT !.step = "listen", !.id = lastId + 1] = JobFields
        BY DEF PortsInv
      <4>2. job' = [job EXCEPT ![c] = [job[c] EXCEPT !.step = "listen", !.id = lastId + 1]]
        BY <3>2
      <4> QED
        BY <4>1, <4>2 DEF Turns
    <3> QED
      BY <2>4, <3>1, <3>2 DEF StartChecked
  <2>5. CASE ListenFails(c) \/ ListenerShut(c)
    BY <2>5, StartFailsTurns DEF ListenFails, ListenerShut
  <2> QED
    BY <2>1, <2>2, <2>3, <2>4, <2>5
<1> QED
  BY <1>1, <1>2, FreeStepKeeps

\* A listener opens in its start's hands.
LEMMA ServiceKeeps == ASSUME PortsInv, NEW c \in Workers, startService(c) PROVE PortsInv'
<1> DEFINE j == [job[c] EXCEPT !.step = "save", !.text = Append(ledger, NewEntry(c))]
<1>1. job' = [job EXCEPT ![c] = j] /\ open' = open \cup {NewEntry(c)} /\ UNCHANGED active
  BY DEF startService
<1>2. DOMAIN j = JobFields /\ j.step = "save" /\ j.op = job[c].op /\ j.id = job[c].id /\ j.entry = job[c].entry
  BY DEF PortsInv, JobFields
<1>3. Starting(c) /\ job[c].step \notin {"save", "saved"}
  BY DEF startService
<1> HIDE DEF j
<1>4. DOMAIN job' = Workers /\ job'[c] = j /\ \A d \in Workers \ {c} : job'[d] = job[d]
  BY <1>1 DEF PortsInv
<1>5. HoldsListener(c, NewEntry(c))'
  BY <1>2, <1>3, <1>4 DEF HoldsListener, Starting, NewEntry
<1>6. NewEntry(c)' = NewEntry(c)
  BY <1>2, <1>4 DEF NewEntry
<1>7. \A d \in Workers \ {c} : \A l : HoldsListener(d, l) => HoldsListener(d, l)'
  BY <1>4 DEF HoldsListener, Starting, NewEntry
<1>8. \A l \in open : l.id \in active \/ \E d \in Workers \ {c} : HoldsListener(d, l)
  BY <1>3 DEF PortsInv, NoPortLost, HoldsListener
<1>9. \A l \in open' : l.id \in active' \/ \E d \in Workers : HoldsListener(d, l)'
  BY <1>1, <1>5, <1>6, <1>7, <1>8
<1>10. NoPortLost'
  BY <1>4, <1>9 DEF NoPortLost, HoldsListener
<1> QED
  BY <1>2, <1>4, <1>10 DEF PortsInv

\* The save of a start and what follows it.
LEMMA SavingKeeps ==
  ASSUME PortsInv, NEW c \in Workers, StartSaved(c) \/ Registers(c) \/ StartUnsaved(c) PROVE PortsInv'
<1>1. CASE StartSaved(c)
  <2> DEFINE j == [job[c] EXCEPT !.step = "saved", !.text = <<>>]
  <2>1. job' = [job EXCEPT ![c] = j] /\ UNCHANGED <<open, active>> /\ Starting(c)
    BY <1>1 DEF StartSaved
  <2>2. DOMAIN j = JobFields /\ j.step = "saved" /\ j.op = job[c].op /\ j.id = job[c].id /\ j.entry = job[c].entry
    BY DEF PortsInv, JobFields
  <2> HIDE DEF j
  <2>3. job'[c] = j
    BY <2>1 DEF PortsInv
  <2>4. \A l : HoldsListener(c, l) => HoldsListener(c, l)'
    BY <2>2, <2>3 DEF HoldsListener, Starting, NewEntry
  <2> QED
    BY <2>1, <2>2, <2>4, OwnStepKeeps DEF Turns, TableKept
<1>2. CASE Registers(c)
  <2>1. open' = open /\ active' = active \cup {job[c].id}
    BY <1>2 DEF Registers
  <2>2. Turns(c)
    <3>1. CASE GoesOn(c)
      <4>1. DOMAIN [Resting EXCEPT !.op = "restore", !.step = "next", !.left = job[c].left] = JobFields
        BY RestingFields
      <4> QED
        BY <3>1, <4>1 DEF GoesOn, Turns
    <3> QED
      BY <1>2, <3>1, RestTurns DEF Registers
  <2>3. \A l : HoldsListener(c, l) => l.id \in active'
    BY <2>1 DEF HoldsListener, NewEntry
  <2> QED
    BY <2>1, <2>2, <2>3, OwnStepKeeps DEF TableKept
<1>3. CASE StartUnsaved(c)
  <2> DEFINE j == [job[c] EXCEPT !.step = "unlisten", !.text = <<>>]
  <2>1. job' = [job EXCEPT ![c] = j] /\ DOMAIN j = JobFields
    BY <1>3 DEF StartUnsaved, PortsInv
  <2>2. open' = {l \in open : l.id \notin {job[c].id}} /\ active' = active
    BY <1>3 DEF StartUnsaved, Closed, Deaf
  <2>3. \A l \in open' : ~HoldsListener(c, l)
    BY <2>2 DEF HoldsListener, NewEntry
  <2> QED
    BY <2>1, <2>2, <2>3, OwnStepKeeps DEF Turns, TableKept
<1> QED
  BY <1>1, <1>2, <1>3

\* A request begins; a stop closes what it takes out of the table.
LEMMA RequestsKeepPorts ==
  ASSUME PortsInv, NEW c \in Askers, Ask(c) \/ stopConsumerEndpoint(c) \/ StopClosed(c) \/ StopSaved(c)
  PROVE  PortsInv'
<1>1. c \in Workers
  BY DEF Workers
<1>2. CASE Ask(c)
  <2>1. ASSUME NEW e, job' = [job EXCEPT ![c] = [Resting EXCEPT !.op = "start", !.step = "load", !.entry = e]]
        PROVE  Turns(c)
    <3>1. DOMAIN [Resting EXCEPT !.op = "start", !.step = "load", !.entry = e] = JobFields
      BY RestingFields
    <3> QED
      BY <2>1, <3>1 DEF Turns
  <2>2. ASSUME NEW i, job' = [job EXCEPT ![c] = [Resting EXCEPT !.op = "stop", !.step = "load", !.id = i]]
        PROVE  Turns(c)
    <3>1. DOMAIN [Resting EXCEPT !.op = "stop", !.step = "load", !.id = i] = JobFields
      BY RestingFields
    <3> QED
      BY <2>2, <3>1 DEF Turns
  <2>3. Turns(c)
    BY <1>2, <2>1, <2>2 DEF Ask
  <2>4. job[c] = Resting /\ UNCHANGED <<open, active>>
    BY <1>2 DEF Ask
  <2>5. Resting.step = "rest"
    BY DEF Resting
  <2> QED
    BY <1>1, <2>3, <2>4, <2>5, FreeStepKeeps
<1>3. CASE stopConsumerEndpoint(c)
  <2>1. job[c].step = "loaded"
    BY <1>3 DEF stopConsumerEndpoint, Doing
  <2>2. CASE Rest(c) /\ UNCHANGED <<open, active>>
    BY <1>1, <2>1, <2>2, RestTurns, FreeStepKeeps
  <2>3. CASE ~(Rest(c) /\ UNCHANGED <<open, active>>)
    <3>1. PICK i \in DOMAIN ledger :
            /\ Delisted(job[c].id)
            /\ \/ job' = [job EXCEPT ![c].step = "close", ![c].entry = ledger[i]]
               \/ job' = [job EXCEPT ![c].step = "write", ![c].text = Spliced(ledger, i)]
      BY <1>3, <2>3 DEF stopConsumerEndpoint
    <3>2. TableKept
      BY <3>1 DEF Delisted, Deaf, TableKept
    <3>3. CASE job' = [job EXCEPT ![c].step = "close", ![c].entry = ledger[i]]
      <4>1. DOMAIN [job[c] EXCEPT !.step = "close", !.entry = ledger[i]] = JobFields
        BY <1>1 DEF PortsInv
      <4>2. job' = [job EXCEPT ![c] = [job[c] EXCEPT !.step = "close", !.entry = ledger[i]]]
        BY <3>3
      <4> QED
        BY <1>1, <2>1, <3>2, <4>1, <4>2, OwnStepKeeps DEF Turns, HoldsListener
    <3>4. CASE job' = [job EXCEPT ![c].step = "write", ![c].text = Spliced(ledger, i)]
      <4>1. DOMAIN [job[c] EXCEPT !.step = "write", !.text = Spliced(ledger, i)] = JobFields
        BY <1>1 DEF PortsInv
      <4>2. job' = [job EXCEPT ![c] = [job[c] EXCEPT !.step = "write", !.text = Spliced(ledger, i)]]
        BY <3>4
      <4> QED
        BY <1>1, <2>1, <3>2, <4>1, <4>2, OwnStepKeeps DEF Turns, HoldsListener
    <3> QED
      BY <3>1, <3>3, <3>4
  <2> QED
    BY <2>2, <2>3
<1>4. CASE StopClosed(c)
  <2>1. DOMAIN [job[c] EXCEPT !.step = "write", !.text = ledger] = JobFields
    BY <1>1 DEF PortsInv
  <2>2. /\ job' = [job EXCEPT ![c] = [job[c] EXCEPT !.step = "write", !.text = ledger]]
        /\ job[c].step = "close" /\ UNCHANGED <<open, active>>
    BY <1>4 DEF StopClosed, Doing
  <2> QED
    BY <1>1, <2>1, <2>2, FreeStepKeeps DEF Turns
<1>5. CASE StopSaved(c)
  <2>1. Rest(c) /\ job[c].step = "write" /\ UNCHANGED <<open, active>>
    BY <1>5 DEF StopSaved, Doing
  <2> QED
    BY <1>1, <2>1, RestTurns, FreeStepKeeps
<1> QED
  BY <1>2, <1>3, <1>4, <1>5

\* The host's orders: a disposal empties the table and closes what was in it.
LEMMA HostKeepsPorts == ASSUME PortsInv, HostActs PROVE PortsInv'
<1>1. Host \in Workers
  BY DEF Workers
<1>2. Resting.step = "rest"
  BY DEF Resting
<1>3. CASE Enables
  <2>1. DOMAIN [Resting EXCEPT !.op = "restore", !.step = "load"] = JobFields
    BY RestingFields
  <2>2. Turns(Host) /\ job[Host].step = "rest" /\ UNCHANGED <<open, active>>
    BY <1>2, <1>3, <2>1 DEF Enables, Turns
  <2> QED
    BY <1>1, <2>2, FreeStepKeeps
<1>4. CASE RestoreBegins
  <2>1. DOMAIN [job[Host] EXCEPT !.step = "next", !.left = ledger] = JobFields
    BY <1>1 DEF PortsInv
  <2>2. job' = [job EXCEPT ![Host] = [job[Host] EXCEPT !.step = "next", !.left = ledger]]
    BY <1>4 DEF RestoreBegins
  <2>3. job[Host].step = "loaded" /\ UNCHANGED <<open, active>>
    BY <1>4 DEF RestoreBegins, Doing
  <2> QED
    BY <1>1, <2>1, <2>2, <2>3, FreeStepKeeps DEF Turns
<1>5. CASE restoreConsumerEndpoints
  <2> DEFINE e == Head(job[Host].left)
             w == [job[Host] EXCEPT !.step = "write", !.text = ledger]
             k == [job[Host] EXCEPT !.step = "check", !.left = Tail(@), !.entry = e]
  <2>1. DOMAIN w = JobFields /\ DOMAIN k = JobFields
    BY <1>1 DEF PortsInv
  <2>2. job' = [job EXCEPT ![Host] = w] \/ job' = [job EXCEPT ![Host] = k]
    BY <1>5 DEF restoreConsumerEndpoints
  <2>3. job[Host].step = "next" /\ UNCHANGED <<open, active>>
    BY <1>5 DEF restoreConsumerEndpoints, Doing
  <2> QED
    BY <1>1, <2>1, <2>2, <2>3, FreeStepKeeps DEF Turns
<1>6. CASE RestoreSaved
  <2>1. Rest(Host) /\ job[Host].step = "write" /\ UNCHANGED <<open, active>>
    BY <1>6 DEF RestoreSaved, Doing, Fails
  <2> QED
    BY <1>1, <2>1, RestTurns, FreeStepKeeps
<1>7. CASE closeConsumerEndpoints
  <2>1. DOMAIN [Resting EXCEPT !.op = "dispose", !.step = "close"] = JobFields
    BY RestingFields
  <2>2. Turns(Host) /\ job[Host].step = "rest"
    BY <1>2, <1>7, <2>1 DEF closeConsumerEndpoints, Turns
  <2>3. TableKept
    BY <1>7 DEF closeConsumerEndpoints, Deaf, TableKept
  <2> QED
    BY <1>1, <2>2, <2>3, OwnStepKeeps DEF HoldsListener
<1>8. CASE GatewayCloses
  <2>1. Turns(Host) /\ job[Host].step = "close"
    BY <1>1, <1>8, MoveTurns DEF GatewayCloses, Doing
  <2>2. TableKept
    BY <1>8 DEF GatewayCloses, Deaf, TableKept
  <2> QED
    BY <1>1, <2>1, <2>2, OwnStepKeeps DEF HoldsListener
<1>9. CASE Disposed
  <2>1. Rest(Host) /\ job[Host].step = "clear" /\ UNCHANGED <<open, active>>
    BY <1>9 DEF Disposed, Doing
  <2> QED
    BY <1>1, <2>1, RestTurns, FreeStepKeeps
<1> QED
  BY <1>3, <1>4, <1>5, <1>6, <1>7, <1>8, <1>9 DEF HostActs

LEMMA RebootKeepsPorts == ASSUME Reboot PROVE PortsInv'
<1> DEFINE back == [Resting EXCEPT !.op = "restore", !.step = "load"]
<1>1. DOMAIN back = JobFields /\ DOMAIN Resting = JobFields
  BY RestingFields
<1>2. job' = [c \in Workers |-> IF c = Host /\ plugin # "off" THEN back ELSE Resting] /\ open' = {}
  BY DEF Reboot, Workers
<1> HIDE DEF back
<1>3. DOMAIN job' = Workers /\ \A c \in Workers : DOMAIN job'[c] = JobFields
  BY <1>1, <1>2
<1> QED
  BY <1>2, <1>3 DEF PortsInv, NoPortLost

LEMMA PortsInductive == AiEndSpec => []PortsInv
<1>1. AiEndInit => PortsInv
  BY RestingFields DEF AiEndInit, PortsInv, NoPortLost, Workers
<1>2. PortsInv /\ [AiEndNext]_aiEndVars => PortsInv'
  <2> SUFFICES ASSUME PortsInv, [AiEndNext]_aiEndVars PROVE PortsInv'
    OBVIOUS
  <2>1. ASSUME NEW c \in Workers, Asker(c) PROVE PortsInv'
    BY <2>1, BeforeListening, ServiceKeeps, SavingKeeps DEF Asker
  <2>2. CASE UNCHANGED aiEndVars
    BY <2>2 DEF aiEndVars, PortsInv, NoPortLost, Starting, NewEntry
  <2> QED
    BY <2>1, <2>2, RequestsKeepPorts, HostKeepsPorts, RebootKeepsPorts DEF AiEndNext, Workers
<1> QED
  BY <1>1, <1>2, PTL DEF AiEndSpec

\* However starts, stops, the restore and a disposal of local endpoints overlap,
\* and whichever read, listen or write fails: a server that listens has a handle
\* in the table, or a start at work that will put it there or close it, for any
\* number of requests, services, ports, failures and restarts (runtime.mjs
\* startConsumerEndpoint, stopConsumerEndpoint, closeConsumerEndpoints).
THEOREM PortsAlwaysHeld == AiEndSpec => []NoPortLost
<1>1. PortsInv => NoPortLost
  BY DEF PortsInv
<1> QED
  BY <1>1, PortsInductive, PTL

-----------------------------------------------------------------------------
(***************************************************************************)
(* The sidecar's API for any requests, groups and capabilities.  A request *)
(* has been answered when it is done and not before; the sync plugin's     *)
(* schedulers are looked after by its state and its order; a capability    *)
(* that has not been redeemed has opened nothing.                          *)
(***************************************************************************)
PageSteps == {"unsent", "arrived", "body", "gone", "work", "created", "done"}
Pages1 == [route : Routes \cup {PageRead}, step : PageSteps, group : Groups \cup {Unsent.group}]
CapStates == {"fresh", "issued", "used", "expired", "lapsed", "swept"}

RequestInv ==
  /\ page \in [Clients -> Pages1]
  /\ DOMAIN sent = Clients
  /\ AnsweredOnce
\* The order under way goes with the state; a list that could not be read
\* leaves the plugin off, and nothing may be scheduled by then.
ScheduleInv ==
  /\ sync \in {"off", "enabling", "on"}
  /\ ordering \in {"none", "listing", "starting", "started", "draining"}
  /\ sync = "on" => ordering = "none"
  /\ sync = "enabling" <=> ordering \in {"listing", "starting", "started"}
  /\ (sync = "off" /\ ordering = "none") \/ ordering = "listing" => scheduled = {}
CapInv ==
  /\ caps \in [Secrets -> CapStates]
  /\ opened \in [Secrets -> {0, 1}]
  /\ \A c \in Secrets : caps[c] \in {"fresh", "issued", "expired"} => opened[c] = 0
ApiInv == RequestInv /\ ScheduleInv /\ CapInv

LEMMA OneAnswer ==
  ASSUME NEW status
  PROVE  Len(Append(<<>>, status)) = 1
<1> DEFINE S == {status}
<1>1. <<>> \in Seq(S) /\ status \in S
  OBVIOUS
<1> QED
  BY <1>1

\* What an answer, a move on and an arrival do to the request's own page.
LEMMA AnswerKeeps ==
  ASSUME RequestInv, NEW r \in Clients, NEW status, page[r].step # "done", Answer(r, status)
  PROVE  RequestInv' /\ page'[r].step = "done" /\ page'[r].route = PageRead
<1>1. [Unsent EXCEPT !.step = "done"] \in Pages1 /\ [Unsent EXCEPT !.step = "done"].step = "done"
      /\ [Unsent EXCEPT !.step = "done"].route = PageRead
  BY DEF Unsent, Pages1, PageSteps
<1> DEFINE done == [Unsent EXCEPT !.step = "done"]
<1> HIDE DEF done
<1>2. page' = [page EXCEPT ![r] = done] /\ sent' = [sent EXCEPT ![r] = Append(sent[r], status)]
  BY DEF Answer, sendJson, done
<1>3. done \in Pages1 /\ done.step = "done" /\ done.route = PageRead
  BY <1>1 DEF done
<1>4. sent[r] = <<>>
  BY DEF RequestInv, AnsweredOnce
<1>5. Len(sent'[r]) = 1
  BY <1>2, <1>4, OneAnswer DEF RequestInv
<1> QED
  BY <1>2, <1>3, <1>5 DEF RequestInv, AnsweredOnce

LEMMA ToKeeps ==
  ASSUME RequestInv, NEW r \in Clients, NEW step \in PageSteps \ {"done"}, page[r].step # "done", To(r, step)
  PROVE  RequestInv' /\ page'[r].step = step /\ page'[r].route = page[r].route
<1>1. page[r] \in Pages1
  BY DEF RequestInv
<1> DEFINE moved == [page[r] EXCEPT !.step = step]
<1>2. moved \in Pages1 /\ moved.step = step /\ moved.route = page[r].route
  BY <1>1 DEF Pages1
<1>3. page' = [page EXCEPT ![r] = moved] /\ sent' = sent
  BY DEF To
<1> HIDE DEF moved
<1> QED
  BY <1>2, <1>3 DEF RequestInv, AnsweredOnce

\* A refusal, or the call of the runtime.
LEMMA AdmitKeeps ==
  ASSUME RequestInv, NEW r \in Clients, page[r].step # "done", Admit(r, page[r].route)
  PROVE  RequestInv'
<1>1. CASE To(r, "work") /\ SyncGate(page[r].route)
  <2>1. RequestInv' /\ page'[r].route = page[r].route
    BY <1>1, ToKeeps DEF PageSteps
  <2> QED
    BY <1>1, <2>1 DEF SyncGate
<1>2. CASE \E status \in {409, 503} : Answer(r, status)
  BY <1>2, AnswerKeeps
<1> QED
  BY <1>1, <1>2 DEF Admit

\* The part of the state a request's step leaves alone but for its group.
LEMMA HandleKeeps ==
  ASSUME ApiInv, NEW r \in Clients, Handle(r)
  PROVE  ApiInv'
<1> USE DEF ApiInv
<1>1. page[r] \in Pages1
  BY DEF RequestInv
<1>2. CASE GuardOrigin(r)
  <2>1. page[r].step # "done" /\ UNCHANGED <<groups, capVars, syncVars>>
    BY <1>2 DEF GuardOrigin
  <2>2. CASE \E status \in {400, 403} : Answer(r, status)
    BY <2>1, <2>2, AnswerKeeps
       DEF capVars, syncVars, ScheduleInv, CapInv, NoTimerWhenOff, OneSession
  <2>3. CASE To(r, "body")
    <3>1. RequestInv'
      BY <2>1, <2>3, ToKeeps DEF PageSteps
    <3> QED
      BY <2>1, <2>3, <3>1 DEF capVars, syncVars, ScheduleInv, CapInv
  <2>4. CASE Admit(r, page[r].route)
    <3>1. RequestInv'
      BY <2>1, <2>4, AdmitKeeps
    <3> QED
      BY <2>1, <3>1 DEF capVars, syncVars, ScheduleInv, CapInv
  <2> QED
    BY <1>2, <2>2, <2>3, <2>4 DEF GuardOrigin, Refusal
<1>3. CASE ReadBody(r)
  <2>1. page[r].step # "done" /\ UNCHANGED <<groups, capVars, syncVars>>
    BY <1>3 DEF ReadBody
  <2>2. CASE \E status \in {400, 413} : Answer(r, status)
    BY <2>1, <2>2, AnswerKeeps DEF capVars, syncVars, ScheduleInv, CapInv
  <2>3. CASE To(r, "gone")
    <3>1. RequestInv'
      BY <2>1, <2>3, ToKeeps DEF PageSteps
    <3> QED
      BY <2>1, <2>3, <3>1 DEF capVars, syncVars, ScheduleInv, CapInv
  <2>4. CASE Admit(r, page[r].route)
    <3>1. RequestInv'
      BY <2>1, <2>4, AdmitKeeps
    <3> QED
      BY <2>1, <3>1 DEF capVars, syncVars, ScheduleInv, CapInv
  <2> QED
    BY <1>3, <2>2, <2>3, <2>4 DEF ReadBody
<1>4. CASE Work(r) \/ createGroup(r) \/ deleteGroup(r)
  <2>1. page[r].step = "work" /\ UNCHANGED <<capVars, syncVars>>
    BY <1>4 DEF Work, createGroup, deleteGroup
  <2>2. (\E status : Answer(r, status)) \/ To(r, "created")
    BY <1>4 DEF Work, createGroup, deleteGroup
  <2>3. RequestInv'
    BY <2>1, <2>2, AnswerKeeps, ToKeeps DEF PageSteps
  <2> QED
    BY <2>1, <2>3 DEF capVars, syncVars, ScheduleInv, CapInv
<1>5. CASE GroupCreated(r)
  <2>1. page[r].step # "done" /\ Answer(r, 200) /\ StartGroup(page[r].group)
        /\ UNCHANGED <<groups, capVars, sync, ordering, toStart, orders>>
    BY <1>5 DEF GroupCreated
  <2>2. RequestInv'
    BY <2>1, AnswerKeeps
  <2>3. ScheduleInv'
    BY <2>1 DEF StartGroup, isAccepting, ScheduleInv
  <2> QED
    BY <2>1, <2>2, <2>3 DEF capVars, CapInv
<1> QED
  BY <1>2, <1>3, <1>4, <1>5 DEF Handle

LEMMA ArriveKeeps ==
  ASSUME ApiInv, NEW r \in Clients, NEW rt \in Routes, NEW g \in Groups, Arrive(r, rt, g)
  PROVE  ApiInv'
<1> DEFINE came == [route |-> rt, step |-> "arrived", group |-> g]
<1>1. came \in Pages1 /\ came.step = "arrived"
  BY DEF Pages1, PageSteps
<1>2. page[r].step = "unsent" /\ page' = [page EXCEPT ![r] = came] /\ UNCHANGED <<sent, groups, capVars, syncVars>>
  BY DEF Arrive
<1> HIDE DEF came
<1>3. RequestInv'
  BY <1>1, <1>2 DEF ApiInv, RequestInv, AnsweredOnce
<1> QED
  BY <1>2, <1>3 DEF ApiInv, capVars, syncVars, ScheduleInv, CapInv

LEMMA SyncOrdersKeep ==
  ASSUME ApiInv, SyncOrders
  PROVE  ApiInv'
<1>1. UNCHANGED <<page, sent, groups, capVars>>
  BY DEF SyncOrders, Enable, SyncEnables, StartAll, Enabled, Disable, SyncDisposes
<1>2. ScheduleInv'
  BY DEF ApiInv, ScheduleInv, SyncOrders, Enable, SyncEnables, StartAll, Enabled, Disable, SyncDisposes
<1> QED
  BY <1>1, <1>2 DEF ApiInv, capVars, RequestInv, AnsweredOnce, CapInv

LEMMA CapsKeep ==
  ASSUME ApiInv, CapNext
  PROVE  ApiInv'
<1>1. UNCHANGED <<page, sent, groups, syncVars>>
  BY DEF CapNext, CapsClosed, issue, TtlPasses, consume
<1>2. CapInv'
  <2>1. CASE CapsClosed
    BY <2>1 DEF ApiInv, CapInv, CapsClosed, CapStates
  <2>2. CASE \E c \in Secrets : issue(c)
    BY <2>2 DEF ApiInv, CapInv, issue, CapStates
  <2>3. CASE \E c \in Secrets : TtlPasses(c)
    BY <2>3 DEF ApiInv, CapInv, TtlPasses, CapStates
  <2>4. CASE \E c \in Secrets : consume(c)
    BY <2>4 DEF ApiInv, CapInv, consume, Consumed, CapStates
  <2> QED
    BY <2>1, <2>2, <2>3, <2>4 DEF CapNext
<1> QED
  BY <1>1, <1>2 DEF ApiInv, syncVars, RequestInv, AnsweredOnce, ScheduleInv

LEMMA ApiBase == ApiInit => ApiInv
<1> SUFFICES ASSUME ApiInit PROVE ApiInv
  OBVIOUS
<1>1. Unsent \in Pages1 /\ Unsent.step = "unsent"
  BY DEF Unsent, Pages1, PageSteps
<1> QED
  BY <1>1 DEF ApiInit, ApiInv, RequestInv, AnsweredOnce, ScheduleInv, CapInv, CapStates

LEMMA ApiStepKeeps == ApiInv /\ [ApiNext \/ CapNext]_apiVars => ApiInv'
<1> SUFFICES ASSUME ApiInv, [ApiNext \/ CapNext]_apiVars PROVE ApiInv'
  OBVIOUS
<1>1. CASE ApiNext \/ CapNext
  BY <1>1, HandleKeeps, ArriveKeeps, SyncOrdersKeep, CapsKeep DEF ApiNext
<1>2. CASE UNCHANGED apiVars
  BY <1>2 DEF apiVars, syncVars, capVars, ApiInv, RequestInv, AnsweredOnce, ScheduleInv, CapInv
<1> QED
  BY <1>1, <1>2

\* Every request that arrives whole is answered once, no timer of the sync
\* plugin runs while it is off and a capability opens one session, for any
\* number of requests, groups, capabilities and orders (sidecar.mjs,
\* capability.mjs, runtime.mjs of the sync plugin).
THEOREM ApiAlwaysHolds == ApiSpec => []ApiHolds
<1>1. ApiInv => ApiHolds
  BY DEF ApiInv, RequestInv, ScheduleInv, CapInv, ApiHolds, NoTimerWhenOff, OneSession
<1> QED
  BY <1>1, ApiBase, ApiStepKeeps, PTL DEF ApiSpec

-----------------------------------------------------------------------------
(***************************************************************************)
(* A behaviour of the run is one of each plugin's own.                     *)
(***************************************************************************)
\* What is proved of the specifications of the exchanges, the endpoints and the
\* API is so of the specification that TLC checks.
LEMMA EachRuns == Spec => AiUpstreamSpec /\ AiEndSpec /\ ApiSpec
<1>1. Init => AiUpstreamInit /\ AiEndInit /\ ApiInit
  BY DEF Init
<1>2. [Next]_vars => [AiUpstreamNext]_aiUpVars /\ [AiEndNext]_aiEndVars /\ [ApiNext \/ CapNext]_apiVars
  BY DEF Next, vars, ApiStep
<1> QED
  BY <1>1, <1>2, PTL DEF Spec, AiUpstreamSpec, AiEndSpec, ApiSpec
=============================================================================
