----------------------------- MODULE AiControl -----------------------------
(***************************************************************************)
(* The AI plugin's control plane: the provider's store of services, groups *)
(* and keys behind the management requests, the catalog its consumers      *)
(* follow, and the consumer's local endpoints.                             *)
(* packages/opendweb-ext-ai/src: provider/store.mjs, secrets.mjs,          *)
(* importer.mjs, catalog.mjs, mgmt.mjs, consumer/gateway.mjs (listeners),  *)
(* runtime.mjs (endpoints).                                                *)
(*                                                                         *)
(* The store changes its memory at once and then awaits one write of all   *)
(* of it; two writes end in any order, and one that fails undoes nothing.  *)
(* One group, one key; every service is a preset that names a keyEnv, so   *)
(* it needs the secret before it is enabled.                               *)
(***************************************************************************)
EXTENDS Naturals, FiniteSets

CONSTANTS Services,  \* services the provider may have
          Admins,    \* management requests in progress
          MaxRev,    \* bound: the revision
          MaxStoreFaults \* bound: writes that fail, restarts

VARIABLES
  mem, disk,  \* ProviderStore.data: [rev, svc, group, members, key]
  base,       \* #persistedEnabled: service -> the projection last written
  secret,     \* secrets.json has the secret
  adm,        \* management request: [op, step, s, text, snap]
  told,       \* the consumer's catalog: [rev, view]
  revoked,    \* the key's revocation was answered
  upset,      \* a save was refused or failed, or an import rolled back
  aiFaults

storeVars == <<mem, disk, base, secret, adm, told, revoked, upset, aiFaults>>

\* A service: not there, disabled or enabled; its auth slot names the secret
\* or not; its entry passes the schema or not.
NoSvc == [st |-> "absent", bound |-> FALSE, ok |-> TRUE]
Entry(on, b, ok) == [st |-> IF on THEN "on" ELSE "off", bound |-> b, ok |-> ok]
Projection(d) == [s \in Services |-> IF d.svc[s].st = "on" THEN d.svc[s] ELSE NoSvc]
Empty == [rev |-> 0, svc |-> [s \in Services |-> NoSvc], group |-> FALSE, members |-> {}, key |-> "none"]
NoAdm == [op |-> "idle", step |-> "idle", s |-> "none", text |-> Empty, snap |-> Empty]

\* A group without services or keys is there at first.
OneGroup == [Empty EXCEPT !.rev = 1, !.group = TRUE]
StoreInit ==
  /\ mem = OneGroup /\ disk = OneGroup /\ base = Projection(OneGroup)
  /\ secret \in BOOLEAN
  /\ adm = [a \in Admins |-> NoAdm]
  /\ told = [rev |-> 0, view |-> {}]
  /\ revoked = FALSE /\ upset = FALSE /\ aiFaults = 0

Free(a) == adm[a] = NoAdm
AdmAt(a, step) == adm[a].step = step
Ends(a) == adm' = [adm EXCEPT ![a] = NoAdm]

\* Mutant: the gate looks for the secret, not for the binding.
MutActivatable(e) == e.st # "on" \/ secret
\* assertServiceActivatable: an enabled preset has its secret bound and kept.
Activatable(e) == e.st # "on" \/ (e.bound /\ secret)

\* save: every entry is checked, those newly enabled or changed against the
\* gate; then the revision grows and the text of the memory is written.
Saveable(d) == \A s \in Services : d.svc[s].ok /\ (d.svc[s].st = "on" /\ base[s] # d.svc[s] => Activatable(d.svc[s]))
\* Mutant: a save does not count the revision.
MutSaved(d) == d
Saved(d) == [d EXCEPT !.rev = @ + 1]
save(a, d, op, s, snap) ==
  IF Saveable(d)
  THEN /\ d.rev < MaxRev
       /\ mem' = Saved(d)
       /\ adm' = [adm EXCEPT ![a] = [op |-> op, step |-> "write", s |-> s, text |-> Saved(d), snap |-> snap]]
       /\ UNCHANGED upset
  ELSE mem' = d /\ adm' = [adm EXCEPT ![a] = NoAdm] /\ upset' = TRUE

\* A request that changes the store by one save, or is refused before.
Request(a, op, s, d) == Free(a) /\ save(a, d, op, s, Empty) /\ UNCHANGED <<disk, base, secret, told, revoked, aiFaults>>

addService(a, s, on, b, ok) ==
  /\ mem.svc[s].st = "absent" /\ Activatable(Entry(on, b, TRUE))
  /\ Request(a, "change", s, [mem EXCEPT !.svc[s] = Entry(on, b, ok)])
removeService(a, s) ==
  /\ mem.svc[s].st # "absent"
  /\ Request(a, "change", s, [mem EXCEPT !.svc[s] = NoSvc, !.members = @ \ {s}])
setServiceEnabled(a, s, on) ==
  /\ mem.svc[s].st = IF on THEN "off" ELSE "on"
  /\ LET e == Entry(on, mem.svc[s].bound, mem.svc[s].ok) IN
     Activatable(e) /\ Request(a, "change", s, [mem EXCEPT !.svc[s] = e])
setServiceAuth(a, s, b) ==
  /\ mem.svc[s].st # "absent"
  /\ LET e == [mem.svc[s] EXCEPT !.bound = b] IN
     Activatable(e) /\ Request(a, "change", s, [mem EXCEPT !.svc[s] = e])

Known == {s \in Services : mem.svc[s].st # "absent"}
addGroup(a) == ~mem.group /\ Request(a, "change", "none", [mem EXCEPT !.group = TRUE, !.members = {}])
setGroupServices(a, S) == mem.group /\ S \subseteq Known /\ Request(a, "change", "none", [mem EXCEPT !.members = S])
\* Mutant: a group goes with its keys in use.
MutNoActiveKey == TRUE
NoActiveKey == mem.key # "active"
removeGroup(a) ==
  /\ mem.group /\ NoActiveKey
  /\ Request(a, "change", "none", [mem EXCEPT !.group = FALSE, !.members = {}])

issueKey(a) == mem.group /\ mem.key = "none" /\ Request(a, "change", "none", [mem EXCEPT !.key = "active"])
\* A key that memory has as revoked is answered at once, and not written.
revokeKey(a) ==
  \/ mem.key = "active" /\ Request(a, "revoke", "none", [mem EXCEPT !.key = "revoked"])
  \/ /\ Free(a) /\ mem.key = "revoked"
     /\ revoked' = TRUE
     /\ UNCHANGED <<mem, disk, base, secret, adm, told, upset, aiFaults>>

\* commitAiflyImport in a transaction: a snapshot, then service after
\* service, each saved; a refusal brings the snapshot back and saves it.
importServices(a, s) ==
  /\ Free(a) /\ mem.svc[s].st = "absent" /\ mem.rev < MaxRev
  /\ save(a, [mem EXCEPT !.svc[s] = Entry(FALSE, FALSE, TRUE)], "import", s, mem)
  /\ UNCHANGED <<disk, base, secret, told, revoked, aiFaults>>
Restored(a) == adm[a].snap
rollback(a) ==
  /\ mem' = IF Saveable(Restored(a)) THEN Saved(Restored(a)) ELSE Restored(a)
  /\ adm' = [adm EXCEPT ![a] = IF Saveable(Restored(a)) THEN [NoAdm EXCEPT !.op = "rollback", !.step = "write", !.text = Saved(Restored(a))]
                               ELSE NoAdm]
  /\ upset' = TRUE
ImportFails(a) ==
  /\ adm[a].op = "import" /\ AdmAt(a, "next")
  /\ rollback(a)
  /\ UNCHANGED <<disk, base, secret, told, revoked, aiFaults>>
ImportDone(a) ==
  /\ adm[a].op = "import" /\ AdmAt(a, "next")
  /\ Ends(a)
  /\ UNCHANGED <<mem, disk, base, secret, told, revoked, upset, aiFaults>>

\* The write ends: the file is the text, the baseline is the memory's.
Written(a) ==
  /\ AdmAt(a, "write")
  /\ disk' = adm[a].text
  /\ base' = Projection(mem)
  /\ revoked' = (revoked \/ adm[a].op = "revoke")
  /\ IF adm[a].op = "import" THEN adm' = [adm EXCEPT ![a].step = "next"] ELSE Ends(a)
  /\ UNCHANGED <<mem, secret, told, upset, aiFaults>>
WriteFails(a) ==
  /\ AdmAt(a, "write") /\ aiFaults < MaxStoreFaults /\ aiFaults' = aiFaults + 1
  /\ IF adm[a].op = "import" THEN rollback(a) ELSE Ends(a) /\ upset' = TRUE /\ UNCHANGED mem
  /\ UNCHANGED <<disk, base, secret, told, revoked>>

\* POST and DELETE /secrets.
Secret(b) ==
  /\ secret # b /\ secret' = b
  /\ UNCHANGED <<mem, disk, base, adm, told, revoked, upset, aiFaults>>

\* The process ends; the store is opened again.
Reopen ==
  /\ aiFaults < MaxStoreFaults /\ aiFaults' = aiFaults + 1
  /\ mem' = disk /\ base' = Projection(disk)
  /\ adm' = [a \in Admins |-> NoAdm]
  /\ upset' = TRUE
  /\ UNCHANGED <<disk, secret, told, revoked>>

\* buildCatalogView: the group's enabled services.
View(d) == {s \in d.members : d.svc[s].st = "on"}
\* GET catalog since the revision the consumer has: all of it, or unchanged.
Catalog ==
  /\ mem.rev # told.rev
  /\ told' = [rev |-> mem.rev, view |-> View(mem)]
  /\ UNCHANGED <<mem, disk, base, secret, adm, revoked, upset, aiFaults>>

StoreNext ==
  \/ \E a \in Admins :
       \/ \E s \in Services, on, b \in BOOLEAN : addService(a, s, on, b, TRUE)
       \/ \E s \in Services : addService(a, s, FALSE, FALSE, FALSE) \/ removeService(a, s) \/ importServices(a, s)
       \/ \E s \in Services, b \in BOOLEAN : setServiceEnabled(a, s, b) \/ setServiceAuth(a, s, b)
       \/ addGroup(a) \/ (\E S \in SUBSET Services : setGroupServices(a, S)) \/ removeGroup(a)
       \/ issueKey(a) \/ revokeKey(a)
       \/ ImportFails(a) \/ ImportDone(a) \/ Written(a) \/ WriteFails(a)
  \/ Secret(TRUE) \/ Secret(FALSE) \/ Reopen \/ Catalog

-----------------------------------------------------------------------------
\* An active key belongs to a group there is, in the memory and in the file,
\* whatever requests overlap, fail, roll back or are cut by a restart.
KeysHaveGroup == (mem.key = "active" => mem.group) /\ (disk.key = "active" => disk.group)

\* No service the file has as enabled, and no one a restart enables, lacks
\* the binding of its secret: no path of changes gets around the gate.
DiskGated == \A s \in Services : disk.svc[s].st = "on" => disk.svc[s].bound

\* A consumer that is told "unchanged" has what the provider serves, as long
\* as no save was refused and no import rolled back.
CatalogFresh == ~upset /\ told.rev = mem.rev => told.view = View(mem)

\* The store and what is told of it agree (store.mjs, mgmt.mjs).
StoreHolds == KeysHaveGroup /\ DiskGated /\ CatalogFresh

\* A key whose revocation was answered is never valid again.
RevokedStays == revoked => mem.key # "active"

\* A consumer that is told "unchanged" has what the provider serves.
RevisionNames == told.rev = mem.rev => told.view = View(mem)

\* A service that was refused leaves no trace: later changes can be saved.
RefusalLeavesNothing == \A s \in Services : mem.svc[s].ok
=============================================================================
