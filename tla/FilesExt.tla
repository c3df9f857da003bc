------------------------------ MODULE FilesExt ------------------------------
(***************************************************************************)
(* The files plugin: uploads in chunks to a staging directory, the commit  *)
(* into the shared tree, reads in ranges, the client that downloads by     *)
(* them.  packages/opendweb-ext-files/src: runtime.mjs, ops.mjs,           *)
(* staging.mjs, ledger.mjs, client.mjs.                                    *)
(*                                                                         *)
(* One share, one upload id, files of Len chunks.  The content of a file   *)
(* is the sequence of the versions its chunks come from; a digest tells    *)
(* contents apart.  Requests are those that parse; the share's tree is     *)
(* walked by path (fdchain.mjs, verified-walk), files are replaced by      *)
(* rename, so an open file keeps its content.                              *)
(***************************************************************************)
EXTENDS Naturals, FiniteSets, Sequences

CONSTANTS Requests,   \* wire requests in progress
          Paths,      \* the paths clients upload to, download, rename
          Versions,   \* contents a client may upload, one value per chunk
          MaxTransfers, \* maxConcurrentTransfers
          MaxFaults   \* bound: crashes, disposals and changes of the share's mode

\* A wire request is never the gate's "none"; a file that a rename brings in
\* is one of the versions.
ASSUME FilesAssumption ==
  IsFiniteSet(Requests) /\ "none" \notin Requests /\ MaxTransfers \in Nat /\ 1 \in Versions

Chunks == 1..2
NoPath == "none"
Whole(v) == [i \in Chunks |-> v]
NoFile == <<>>

VARIABLES
  dest,     \* path -> content in the share, NoFile when absent
  temp,     \* the commit's temporary file in the share, NoFile when absent
  meta,     \* meta.json of the upload: its path, NoPath when absent
  staged,   \* chunk number -> version of the chunk file (0: absent)
  writing,  \* chunk number -> version of the chunk's .tmp file (0: absent)
  sweeping, \* a sweep has decided to remove the upload
  mode,     \* the share in the ledger: "ro", "rw" or "gone"
  slots,    \* transfersInFlight
  gate,     \* the request that runs in opsChain ("none": free)
  req,      \* what each request awaits: [op, step, path, seq, ver, got]
  disposed,
  faults,
  load      \* the download of one client: [step, path, parts, oid, size, ok]

stageVars == <<meta, staged, writing, sweeping>>
treeVars == <<dest, temp>>
filesVars == <<treeVars, stageVars, mode, slots, gate, req, disposed, faults, load>>

NoReq == [op |-> "idle", step |-> "idle", path |-> NoPath, seq |-> 0, ver |-> 0, got |-> <<>>]
NoLoad == [step |-> "idle", path |-> NoPath, parts |-> <<>>, oid |-> NoFile, size |-> 0, ok |-> FALSE]
Absent == [i \in Chunks |-> 0]

\* Nothing is there; or, for the downloads, an upload waits for its commit.
FilesInit(staging) ==
  /\ dest = [p \in Paths |-> NoFile] /\ temp = NoFile
  /\ IF staging THEN meta \in Paths /\ \E v \in Versions : staged = Whole(v)
     ELSE meta = NoPath /\ staged = Absent
  /\ writing = Absent /\ sweeping = FALSE
  /\ mode = "rw" /\ slots = 0 /\ gate = "none"
  /\ req = [r \in Requests |-> NoReq]
  /\ disposed = FALSE /\ faults = 0
  /\ load = NoLoad

At(r, op, step) == req[r].op = op /\ req[r].step = step
Go(r, step) == req' = [req EXCEPT ![r].step = step]
Answered(r) == req' = [req EXCEPT ![r] = NoReq]
Begin(r, op, step, p, i, v) ==
  /\ req[r] = NoReq
  /\ req' = [req EXCEPT ![r] = [op |-> op, step |-> step, path |-> p, seq |-> i, ver |-> v, got |-> <<>>]]

\* dispatch and authorize: the share as it is now, the write gate, disposed.
Allowed(write) == ~disposed /\ mode # "gone" /\ (write => mode = "rw")

\* A transfer slot is taken for the body of a chunk or the stream of a read.
SlotFree == slots < MaxTransfers

(***************************************************************************)
(* PUT chunk: the body, then staging.putChunk, outside of the gate.        *)
(***************************************************************************)
chunk(r, p, i, v) ==
  /\ Allowed(TRUE) /\ SlotFree
  /\ Begin(r, "chunk", "body", p, i, v)
  /\ slots' = slots + 1
  /\ UNCHANGED <<treeVars, stageVars, mode, gate, disposed, faults, load>>

\* Mutant: the slot is not given back.
MutReleaseSlot == UNCHANGED slots
\* readChunkBody ended: too large or cut, or the whole chunk.
ReleaseSlot == slots' = slots - 1
ChunkBody(r) ==
  /\ At(r, "chunk", "body")
  /\ ReleaseSlot
  /\ Answered(r) \/ Go(r, "look")
  /\ UNCHANGED <<treeVars, stageVars, mode, gate, disposed, faults, load>>

\* The upload's path and the chunk under this key, read one after the other.
Look(r) ==
  /\ At(r, "chunk", "look")
  /\ LET i == req[r].seq IN
     IF meta \notin {NoPath, req[r].path} \/ staged[i] # 0
     THEN Answered(r) ELSE Go(r, IF meta = NoPath THEN "meta" ELSE "tmp")
  /\ UNCHANGED <<treeVars, meta, staged, writing, sweeping, mode, slots, gate, disposed, faults, load>>

\* The first chunk makes the directory and binds the upload to its path.
Bind(r) ==
  /\ At(r, "chunk", "meta")
  /\ meta' = req[r].path
  /\ Go(r, "tmp")
  /\ UNCHANGED <<treeVars, staged, writing, sweeping, mode, slots, gate, disposed, faults, load>>

\* open(tmp, "wx"): another writer is there, or the directory is gone, or go on.
OpenTmp(r) ==
  /\ At(r, "chunk", "tmp")
  /\ LET i == req[r].seq IN
     IF writing[i] # 0 THEN Go(r, "winner") /\ UNCHANGED writing
     ELSE IF meta = NoPath THEN Answered(r) /\ UNCHANGED writing
     ELSE writing' = [writing EXCEPT ![i] = req[r].ver] /\ Go(r, "rename")
  /\ UNCHANGED <<treeVars, meta, staged, sweeping, mode, slots, gate, disposed, faults, load>>

\* EEXIST: the chunk file is compared, when it is there yet; the tmp file is
\* removed in any case, the other writer's.
Winner(r) ==
  /\ At(r, "chunk", "winner")
  /\ writing' = [writing EXCEPT ![req[r].seq] = 0]
  /\ Answered(r)
  /\ UNCHANGED <<treeVars, meta, staged, sweeping, mode, slots, gate, disposed, faults, load>>

\* rename(tmp, chunk file), which fails when the tmp file is gone.
Store(r) ==
  /\ At(r, "chunk", "rename")
  /\ LET i == req[r].seq IN
     IF writing[i] = 0 THEN UNCHANGED <<staged, writing>>
     ELSE /\ staged' = [staged EXCEPT ![i] = writing[i]]
          /\ writing' = [writing EXCEPT ![i] = 0]
  /\ Answered(r)
  /\ UNCHANGED <<treeVars, meta, sweeping, mode, slots, gate, disposed, faults, load>>

\* removeUpload, and the rm of a sweep.
Remove == meta' = NoPath /\ staged' = Absent /\ writing' = Absent

\* sweep: the directory is found to be old (the model keeps no ages: it may be
\* at any time), and removed after an await.
Sweep ==
  /\ ~sweeping /\ meta # NoPath /\ sweeping' = TRUE
  /\ UNCHANGED <<treeVars, meta, staged, writing, mode, slots, gate, req, disposed, faults, load>>
Swept ==
  /\ sweeping /\ sweeping' = FALSE
  /\ Remove
  /\ UNCHANGED <<treeVars, mode, slots, gate, req, disposed, faults, load>>

(***************************************************************************)
(* POST commit, in the gate.                                               *)
(***************************************************************************)
commit(r, p, v) ==
  /\ Allowed(TRUE)
  /\ Begin(r, "commit", "gate", p, 0, v)
  /\ UNCHANGED <<treeVars, stageVars, mode, slots, gate, disposed, faults, load>>

\* serialize: one operation at a time, whatever became of the one before.
Enter(r) ==
  /\ req[r].step = "gate" /\ gate = "none"
  /\ gate' = r
  /\ Go(r, "run")
  /\ UNCHANGED <<treeVars, stageVars, mode, slots, disposed, faults, load>>
Leave(r) == gate' = "none"

\* The upload is bound to the path and its chunks cover the declared length.
Covered(r) == meta = req[r].path /\ \A i \in Chunks : staged[i] # 0
CommitCheck(r) ==
  /\ At(r, "commit", "run")
  /\ IF Covered(r) THEN Go(r, "copy") /\ temp' = NoFile /\ UNCHANGED gate
     ELSE Answered(r) /\ Leave(r) /\ UNCHANGED temp
  /\ UNCHANGED <<dest, stageVars, mode, slots, disposed, faults, load>>

\* Mutant: a failed commit leaves its temporary file.
MutDropTemp == UNCHANGED temp
\* A failure takes the temporary file with it.
DropTemp == temp' = NoFile
\* The chunk files are read one after the other into the temporary file.
Copy(r) ==
  /\ At(r, "commit", "copy") /\ Len(req[r].got) < Cardinality(Chunks)
  /\ LET i == Len(req[r].got) + 1 IN
     IF staged[i] = 0 THEN Answered(r) /\ Leave(r) /\ DropTemp
     ELSE /\ temp' = Append(temp, staged[i])
          /\ req' = [req EXCEPT ![r].got = Append(@, staged[i])]
          /\ UNCHANGED gate
  /\ UNCHANGED <<dest, stageVars, mode, slots, disposed, faults, load>>

\* Mutant: the digest of the copy is not compared.
MutDigestHolds(r) == TRUE
\* The digest of what was written is the declared one: rename into place.
DigestHolds(r) == req[r].got = Whole(req[r].ver)
Commit(r) ==
  /\ At(r, "commit", "copy") /\ Len(req[r].got) = Cardinality(Chunks)
  /\ IF DigestHolds(r)
     THEN /\ dest' = [dest EXCEPT ![req[r].path] = temp] /\ temp' = NoFile
          /\ Go(r, "clean") /\ UNCHANGED gate
     ELSE Answered(r) /\ Leave(r) /\ DropTemp /\ UNCHANGED dest
  /\ UNCHANGED <<stageVars, mode, slots, disposed, faults, load>>

CommitDone(r) ==
  /\ At(r, "commit", "clean")
  /\ Remove
  /\ Answered(r) /\ Leave(r)
  /\ UNCHANGED <<treeVars, sweeping, mode, slots, disposed, faults, load>>

(***************************************************************************)
(* POST rename, delete: in the gate; a rename does not overwrite.          *)
(***************************************************************************)
alter(r, op, p) ==
  /\ Allowed(TRUE)
  /\ Begin(r, op, "gate", p, 0, 0)
  /\ UNCHANGED <<treeVars, stageVars, mode, slots, gate, disposed, faults, load>>

deleteEntry(r) ==
  /\ At(r, "delete", "run")
  /\ dest' = [dest EXCEPT ![req[r].path] = NoFile]
  /\ Answered(r) /\ Leave(r)
  /\ UNCHANGED <<temp, stageVars, mode, slots, disposed, faults, load>>

\* Away to a free name, or from another name to this one when it is free.
renameEntry(r) ==
  /\ At(r, "rename", "run")
  /\ LET p == req[r].path IN
     dest' = IF dest[p] # NoFile THEN [dest EXCEPT ![p] = NoFile] ELSE [dest EXCEPT ![p] = Whole(1)]
  /\ Answered(r) /\ Leave(r)
  /\ UNCHANGED <<temp, stageVars, mode, slots, disposed, faults, load>>

(***************************************************************************)
(* GET read by the client's downloadFile: slice after slice, each opened   *)
(* anew; the first gives the size and the digest to end with.              *)
(***************************************************************************)
downloadFile(p) ==
  /\ load.step # "slice"
  /\ load' = [NoLoad EXCEPT !.step = "slice", !.path = p]
  /\ UNCHANGED <<treeVars, stageVars, mode, slots, gate, req, disposed, faults>>

read(r) ==
  /\ load.step = "slice" /\ \A s \in Requests : req[s].op # "read"
  /\ Allowed(FALSE) /\ SlotFree
  /\ Begin(r, "read", "gate", load.path, 0, 0)
  /\ slots' = slots + 1
  /\ UNCHANGED <<treeVars, stageVars, mode, gate, disposed, faults, load>>

\* openForRead: missing, or a file whose digest is read to the end.
OpenForRead(r) ==
  /\ At(r, "read", "run")
  /\ Leave(r)
  /\ IF dest[req[r].path] = NoFile
     THEN Answered(r) /\ ReleaseSlot /\ load' = [load EXCEPT !.step = "failed"]
     ELSE /\ req' = [req EXCEPT ![r].step = "stream", ![r].got = dest[req[r].path]]
          /\ UNCHANGED <<slots, load>>
  /\ UNCHANGED <<treeVars, stageVars, mode, disposed, faults>>

\* Mutant: only the size of a download is compared.
MutVerify(parts, oid) == Len(parts) = Len(oid)
\* The whole download is compared with the digest of the first slice.
Verify(parts, oid) == parts = oid
\* The range is streamed from the open file, or the transfer breaks.
Stream(r) ==
  /\ At(r, "read", "stream")
  /\ Answered(r) /\ ReleaseSlot
  /\ LET f == req[r].got
         k == Len(load.parts) + 1
         parts == Append(load.parts, f[k])
         oid == IF k = 1 THEN f ELSE load.oid
     IN \/ load' = [load EXCEPT !.step = "failed"]
        \/ load' = IF Len(parts) < Len(oid) THEN [load EXCEPT !.parts = parts, !.oid = oid]
                   ELSE [load EXCEPT !.parts = parts, !.oid = oid,
                                     !.step = IF Verify(parts, oid) THEN "done" ELSE "failed"]
  /\ UNCHANGED <<treeVars, stageVars, mode, gate, disposed, faults>>

(***************************************************************************)
(* The share's owner, disposal and crashes.                                *)
(***************************************************************************)
SetMode(m) ==
  /\ mode # m /\ mode # "gone" /\ mode' = m
  /\ faults < MaxFaults /\ faults' = faults + 1
  /\ UNCHANGED <<treeVars, stageVars, slots, gate, req, disposed, load>>

onDispose ==
  /\ ~disposed /\ faults < MaxFaults /\ faults' = faults + 1
  /\ disposed' = TRUE
  /\ UNCHANGED <<treeVars, stageVars, mode, slots, gate, req, load>>
onEnable ==
  /\ disposed /\ disposed' = FALSE
  /\ UNCHANGED <<treeVars, stageVars, mode, slots, gate, req, faults, load>>

\* The process ends; the files stay, the client's download fails.
Crash ==
  /\ faults < MaxFaults /\ faults' = faults + 1
  /\ req' = [r \in Requests |-> NoReq]
  /\ slots' = 0 /\ gate' = "none" /\ sweeping' = FALSE /\ disposed' = FALSE
  /\ load' = IF load.step = "slice" THEN [load EXCEPT !.step = "failed"] ELSE load
  /\ UNCHANGED <<treeVars, meta, staged, writing, mode>>

FileSteps(r) ==
  \/ ChunkBody(r) \/ Look(r) \/ Bind(r) \/ OpenTmp(r) \/ Winner(r) \/ Store(r)
  \/ CommitCheck(r) \/ Copy(r) \/ Commit(r) \/ CommitDone(r)
  \/ deleteEntry(r) \/ renameEntry(r) \/ OpenForRead(r) \/ Stream(r)
Alterations ==
  \/ \E r \in Requests, p \in Paths :
       (\E v \in Versions : commit(r, p, v)) \/ alter(r, "delete", p) \/ alter(r, "rename", p)
  \/ \E r \in Requests : Enter(r) \/ FileSteps(r)
  \/ SetMode("ro") \/ SetMode("rw") \/ SetMode("gone")
  \/ onDispose \/ onEnable \/ Crash
UploadNext ==
  \/ \E r \in Requests, p \in Paths, i \in Chunks, v \in Versions : chunk(r, p, i, v)
  \/ Sweep \/ Swept
  \/ Alterations
DownloadNext ==
  \/ \E p \in Paths : downloadFile(p)
  \/ \E r \in Requests : read(r)
  \/ Alterations

-----------------------------------------------------------------------------
\* The share never shows half a file or a mixture: what lies at a path is
\* what one client declared, whole, whatever overwrites, sweeps, crashes.
WholeFiles == \A p \in Paths : dest[p] = NoFile \/ \E v \in Versions : dest[p] = Whole(v)

\* A download that ends well returns one version of the file, although each
\* of its slices opens the path anew.
DownloadWhole == load.step = "done" => \E v \in Versions : load.parts = Whole(v)

\* transfersInFlight counts the transfers there are, so that none is refused
\* for ever and no more than the limit run.
Transfers == {r \in Requests : req[r].op = "read" \/ At(r, "chunk", "body")}
SlotsExact == slots = Cardinality(Transfers) /\ slots <= MaxTransfers

\* Outside of a commit no temporary file is left in the share, unless the
\* process ended in the middle of one.
NoLitter == gate = "none" /\ faults = 0 => temp = NoFile

\* The share shows and keeps whole files only, and the transfers are counted
\* exactly (ops.mjs, staging.mjs, runtime.mjs).
FilesHold == WholeFiles /\ DownloadWhole /\ NoLitter /\ SlotsExact

\* A staged chunk is not overwritten by a different one.
ChunkKept == [][\A i \in Chunks : staged[i] # 0 => staged'[i] \in {0, staged[i]}]_filesVars

\* An upload stays bound to the path of its first chunk.
OnePath == [][meta # NoPath => meta' \in {NoPath, meta}]_filesVars
=============================================================================
