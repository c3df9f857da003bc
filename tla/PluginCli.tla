------------------------------ MODULE PluginCli ------------------------------
(***************************************************************************)
(* The opendweb CLI's plugins: `plugin add | remove | update`, `use` (and  *)
(* any unknown command), `marketplace add | remove`; packages/opendweb/bin *)
(* and src/plugin-{registry,resolve}.mjs, marketplace.mjs.                 *)
(*                                                                         *)
(* Every Cli is one process.  The lock file and the marketplace are of the *)
(* user, node_modules is of the project the process runs in.  Files are    *)
(* written in place: truncated, then filled.  A process may die after any  *)
(* step.                                                                   *)
(***************************************************************************)
EXTENDS Naturals, Sequences, FiniteSets

CONSTANTS Clis, Aliases, Projects,
          Globs,        \* marketplace globs: a glob and an alias name a package
          DefaultGlobs, \* a sequence
          ByName,        \* packages given by --name
          MaxVersion,   \* bound: releases of a package
          MaxRuns       \* bound: commands altogether

Packages == {<<g, a>> : g \in Globs, a \in Aliases} \union ByName
NoPackage == <<"none">>
NoEntry == [pkg |-> NoPackage, version |-> 0]

ASSUME CliAssumption == DefaultGlobs \in Seq(Globs) /\ DefaultGlobs # <<>> /\ NoPackage \notin Packages

VARIABLES
  locked,    \* plugins.json: alias -> entry, or Torn
  globs,     \* marketplace.json: a sequence (the default when there is none), or Torn
  installed,      \* project -> package -> version, 0 when it is not there
  had,       \* history: what projects had, as package and version
  broken,    \* packages whose manifest is invalid
  latest,    \* the registry
  cli, runs  \* the processes; commands started

cliVars == <<locked, globs, installed, had, broken, latest, cli, runs>>
machineVars == <<locked, globs, installed, had, broken, latest>>

Torn == <<>>  \* an empty file
NoLock == [a \in Aliases |-> NoEntry]
NoCommand == [at |-> "idle", verb |-> "none", alias |-> "none", project |-> "none", name |-> NoPackage,
         force |-> FALSE, globs |-> <<>>, seen |-> NoLock, pkg |-> NoPackage, version |-> 0,
         code |-> "none", ran |-> NoPackage, wrote |-> FALSE, known |-> {}]

CliInit ==
  /\ locked = NoLock /\ globs = DefaultGlobs /\ runs = 0 /\ had = {}
  /\ installed = [p \in Projects |-> [k \in Packages |-> 0]]
  /\ broken \in {{}, ByName} /\ latest = [k \in Packages |-> 1]
  /\ cli = [c \in Clis |-> NoCommand]

LockedNow(a) == IF locked = Torn THEN NoPackage ELSE locked[a].pkg
Set(c, fields) == cli' = [cli EXCEPT ![c] = fields]
Ended(c, code, k) == [NoCommand EXCEPT !.verb = cli[c].verb, !.alias = cli[c].alias, !.code = code,
                        !.ran = k, !.known = cli[c].known, !.wrote = cli[c].wrote]
Done(c, code, k) == Set(c, Ended(c, code, k))
Exit(c, code) == Done(c, code, NoPackage)
CommandAt(c, where) == cli[c].at = where
Go(c, where) == Set(c, [cli[c] EXCEPT !.at = where])

\* runPlugin, runMarketplace, runAdaptive: the command line.
Run(c) ==
  /\ CommandAt(c, "idle") /\ runs < MaxRuns /\ runs' = runs + 1
  /\ \E verb \in {"add", "remove", "update", "use", "market"}, a \in Aliases, p \in Projects,
        n \in ByName \union {NoPackage}, f \in BOOLEAN :
       /\ verb # "add" => n = NoPackage /\ ~f
       /\ Set(c, [NoCommand EXCEPT !.at = IF verb \in {"remove", "update"} THEN "lock" ELSE "globs",
                    !.verb = verb, !.alias = a, !.project = p, !.name = n, !.force = f,
                    !.known = IF verb = "use" THEN {LockedNow(a)} ELSE {}])
  /\ UNCHANGED machineVars

Publishes ==
  /\ \E k \in Packages : latest[k] < MaxVersion /\ latest' = [latest EXCEPT ![k] = @ + 1]
  /\ UNCHANGED <<locked, globs, installed, had, broken, cli, runs>>

\* loadMarketplace: no file, the default; a torn one fails.
LoadMarketplace(c) ==
  /\ CommandAt(c, "globs")
  /\ CASE globs = Torn -> Exit(c, "1")
       [] globs # Torn -> Set(c, [cli[c] EXCEPT !.globs = globs,
                                   !.at = IF cli[c].verb = "market" THEN "edit" ELSE "lock"])
  /\ UNCHANGED <<machineVars, runs>>

candidatesFor(c) == [i \in 1..Len(cli[c].globs) |-> <<cli[c].globs[i], cli[c].alias>>]

(***************************************************************************)
(* marketplaceAdd, marketplaceRemove, saveMarketplace: a glob is there     *)
(* once, a new one goes to the end, the last one stays.                    *)
(***************************************************************************)
SaveGlobs(c, kept) == globs' = Torn /\ Set(c, [cli[c] EXCEPT !.at = "fillGlobs", !.globs = kept])
Without(list, i) == SubSeq(list, 1, i - 1) \o SubSeq(list, i + 1, Len(list))
EditMarketplace(c) ==
  LET list == cli[c].globs IN
  /\ CommandAt(c, "edit")
  /\ \/ \E g \in Globs : SaveGlobs(c, IF \E i \in DOMAIN list : list[i] = g THEN list ELSE Append(list, g))
     \/ Len(list) > 1 /\ \E i \in DOMAIN list : SaveGlobs(c, Without(list, i))
     \/ Exit(c, "2") /\ UNCHANGED globs \* no glob, an unknown one, or the last
  /\ UNCHANGED <<locked, installed, had, broken, latest, runs>>
FillMarketplace(c) ==
  /\ CommandAt(c, "fillGlobs") /\ globs' = cli[c].globs /\ Exit(c, "0")
  /\ UNCHANGED <<locked, installed, had, broken, latest, runs>>

(***************************************************************************)
(* The lock file: loadLockfile, saveLockfile.                              *)
(***************************************************************************)
\* What each command does with what it has read.
AfterLock(c, seen) ==
  LET e == seen[cli[c].alias] v == cli[c].verb IN
  CASE v = "add" /\ e # NoEntry /\ ~cli[c].force -> Ended(c, "0", NoPackage) \* skipped
    [] v = "remove" /\ e = NoEntry -> Ended(c, "2", NoPackage)
    [] v = "update" /\ e = NoEntry -> Ended(c, "2", NoPackage)
    [] v = "remove" /\ e # NoEntry -> [cli[c] EXCEPT !.at = "uninstall", !.seen = seen, !.pkg = e.pkg]
    [] v = "update" /\ e # NoEntry -> [cli[c] EXCEPT !.at = "ask", !.seen = seen, !.pkg = e.pkg, !.version = e.version]
    [] v = "use" -> [cli[c] EXCEPT !.at = "resolve", !.seen = seen, !.pkg = e.pkg]
    [] OTHER -> [cli[c] EXCEPT !.at = "install", !.seen = seen,
                   !.pkg = IF cli[c].name # NoPackage THEN cli[c].name ELSE candidatesFor(c)[1]]

\* A file that is empty or half written is no JSON.
loadLockfile(c) ==
  /\ CommandAt(c, "lock")
  /\ IF locked = Torn THEN Exit(c, "1") ELSE Set(c, AfterLock(c, locked))
  /\ UNCHANGED <<machineVars, runs>>

\* The records read before, with this command's change; first the file is empty.
saveLockfile(c) ==
  /\ CommandAt(c, "save")
  /\ locked' = Torn /\ Set(c, [cli[c] EXCEPT !.at = "fill", !.wrote = TRUE])
  /\ UNCHANGED <<globs, installed, had, broken, latest, runs>>
LockEntry(c) == IF cli[c].verb = "remove" THEN NoEntry ELSE [pkg |-> cli[c].pkg, version |-> cli[c].version]
\* (What it says now of its alias, a running `use` may come to know.)
Learns(d) == IF cli[d].verb = "use" /\ ~CommandAt(d, "idle")
             THEN [cli[d] EXCEPT !.known = @ \union {locked'[cli[d].alias].pkg}] ELSE cli[d]
FillLockfile(c) ==
  /\ CommandAt(c, "fill")
  /\ locked' = [cli[c].seen EXCEPT ![cli[c].alias] = LockEntry(c)]
  /\ cli' = [d \in Clis |->
       IF d # c THEN Learns(d)
       ELSE IF cli[c].verb = "use" THEN [Learns(c) EXCEPT !.at = "again"]
       ELSE Ended(c, "0", NoPackage)]
  /\ UNCHANGED <<globs, installed, had, broken, latest, runs>>

(***************************************************************************)
(* pluginAdd, pluginUpdate, pluginRemove: the package manager.             *)
(***************************************************************************)
\* Installing: the registry's latest, as it is when the manager asks.
Install(c) ==
  /\ CommandAt(c, "install")
  /\ \/ /\ installed' = [installed EXCEPT ![cli[c].project][cli[c].pkg] = latest[cli[c].pkg]]
        /\ had' = had \union {<<cli[c].pkg, installed'[cli[c].project][cli[c].pkg]>>} /\ Go(c, "version")
     \/ Exit(c, "1") /\ UNCHANGED <<installed, had>>
  /\ UNCHANGED <<locked, globs, broken, latest, runs>>

\* Mutant: what was asked for is locked, whatever is on the disk.
MutReadVersion(c) ==
  /\ CommandAt(c, "version")
  /\ Set(c, [cli[c] EXCEPT !.at = "save", !.version = latest[cli[c].pkg]])
  /\ UNCHANGED <<machineVars, runs>>

\* readInstalledVersion: what the project has, resolved anew.
readInstalledVersion(c) ==
  LET v == installed[cli[c].project][cli[c].pkg] IN
  /\ CommandAt(c, "version")
  /\ IF v = 0 THEN Exit(c, "1") ELSE Set(c, [cli[c] EXCEPT !.at = "save", !.version = v])
  /\ UNCHANGED <<machineVars, runs>>

\* latestVersion: nothing to do when it is the one locked; or no answer.
AskLatest(c) ==
  /\ CommandAt(c, "ask")
  /\ \/ Exit(c, "1")
     \/ cli[c].version = latest[cli[c].pkg] /\ Exit(c, "0")
     \/ /\ cli[c].version # latest[cli[c].pkg]
        /\ Set(c, [cli[c] EXCEPT !.at = "upgrade", !.version = latest[cli[c].pkg]])
  /\ UNCHANGED <<machineVars, runs>>
\* The version asked for, not the one that is latest by now.
Upgrade(c) ==
  /\ CommandAt(c, "upgrade")
  /\ \/ /\ installed' = [installed EXCEPT ![cli[c].project][cli[c].pkg] = cli[c].version]
        /\ had' = had \union {<<cli[c].pkg, installed'[cli[c].project][cli[c].pkg]>>} /\ Go(c, "version")
     \/ Exit(c, "1") /\ UNCHANGED <<installed, had>>
  /\ UNCHANGED <<locked, globs, broken, latest, runs>>

\* In a project that lacks the package a manager may succeed or fail.
Uninstall(c) ==
  /\ CommandAt(c, "uninstall")
  /\ \/ /\ installed' = [installed EXCEPT ![cli[c].project][cli[c].pkg] = 0]
        /\ Go(c, "save") /\ UNCHANGED had
     \/ Exit(c, "1") /\ UNCHANGED <<installed, had>>
  /\ UNCHANGED <<locked, globs, broken, latest, runs>>

(***************************************************************************)
(* runAdaptive, resolveAdaptive.                                           *)
(***************************************************************************)
Present(c, k) == installed[cli[c].project][k] # 0
\* Mutant: the marketplace is looked at first.
MutTried(c, lockResolved) == candidatesFor(c) \o (IF lockResolved # NoPackage THEN <<lockResolved>> ELSE <<>>)

\* The first candidate the project has; the lock's package is the only one.
Tried(c, lockResolved) == IF lockResolved # NoPackage THEN <<lockResolved>> ELSE candidatesFor(c)

Found(c, lockResolved, k) ==
  \E i \in DOMAIN Tried(c, lockResolved) :
    /\ k = Tried(c, lockResolved)[i] /\ Present(c, k)
    /\ \A j \in 1..(i - 1) : ~Present(c, Tried(c, lockResolved)[j])
NothingFound(c, lockResolved) == \A k \in Packages : ~Found(c, lockResolved, k)
\* Names given by --name declare a name of their own.
DeclaresName(c, k) == k \notin ByName

\* An invalid manifest is an error, and a name other than the command's
\* unless the lock stands for it; else the plugin runs.
Dispatch(c, lockResolved) ==
  \E k \in Packages :
    /\ Found(c, lockResolved, k)
    /\ IF k \in broken \/ (lockResolved = NoPackage /\ ~DeclaresName(c, k)) THEN Exit(c, "1")
       ELSE Done(c, "0", k)

\* What is nowhere is installed: the first candidate of the marketplace; unless
\* DWEB_NO_AUTO_INSTALL says not to.
Resolve(c) ==
  /\ CommandAt(c, "resolve")
  /\ \/ Dispatch(c, cli[c].pkg)
     \/ NothingFound(c, cli[c].pkg) /\ (Exit(c, "1") \/ Go(c, "heal"))
  /\ UNCHANGED <<machineVars, runs>>
\* pluginAdd again, from the lock file's content of now, whatever it says.
Heal(c) ==
  /\ CommandAt(c, "heal")
  /\ IF locked = Torn THEN Exit(c, "1")
     ELSE Set(c, [cli[c] EXCEPT !.at = "install", !.seen = locked, !.pkg = candidatesFor(c)[1]])
  /\ UNCHANGED <<machineVars, runs>>
ResolveAgain(c) ==
  /\ CommandAt(c, "again")
  /\ Dispatch(c, NoPackage) \/ (NothingFound(c, NoPackage) /\ Exit(c, "1"))
  /\ UNCHANGED <<machineVars, runs>>

\* The process is killed, or the terminal closed.
Dies(c) ==
  /\ ~CommandAt(c, "idle") /\ Exit(c, "died")
  /\ UNCHANGED <<machineVars, runs>>

CliSteps(c) ==
  \/ Run(c) \/ LoadMarketplace(c) \/ EditMarketplace(c) \/ FillMarketplace(c) \/ loadLockfile(c)
  \/ saveLockfile(c) \/ FillLockfile(c) \/ Install(c) \/ readInstalledVersion(c) \/ AskLatest(c)
  \/ Upgrade(c) \/ Uninstall(c) \/ Resolve(c) \/ Heal(c) \/ ResolveAgain(c) \/ Dies(c)
CliNext == Publishes \/ \E c \in Clis : CliSteps(c)

CliSpec == CliInit /\ [][CliNext]_cliVars

(***************************************************************************)
(* Properties.                                                             *)
(***************************************************************************)
\* A plugin that runs under an alias is the package the lock named for it at
\* some time of the run; or, where the lock named none at some time or the run
\* has locked one itself, a package the marketplace makes of the alias
\* (plugin-resolve.mjs:371-374, bin/opendweb.mjs:498-523).
RunsLocked ==
  \A c \in Clis : LET p == cli[c] IN
    p.ran # NoPackage =>
      \/ p.ran \in p.known
      \/ (NoPackage \in p.known \/ p.wrote) /\ p.ran \in {<<g, p.alias>> : g \in Globs}

\* What the lock says of a package, some project had: commands lock the version
\* they read back, not the one they asked for (plugin-registry.mjs:160).
LockTells ==
  locked # Torn => \A a \in Aliases :
    locked[a] # NoEntry => <<locked[a].pkg, locked[a].version>> \in had

CliHolds == RunsLocked /\ LockTells

\* Refuted by TLC (README): bin/opendweb.mjs:498 calls the lock the trust anchor,
\* plugin-resolve.mjs:373 has it set by `plugin add` alone; yet running an alias
\* in a project without its package locks it to another one.
AnchorHolds ==
  [][\A c \in Clis, a \in Aliases :
       CommandAt(c, "fill") /\ ~CommandAt(c, "fill")' /\ cli[c].verb = "use" /\ locked' # Torn
         => cli[c].seen[a].pkg \in {NoPackage, locked'[a].pkg}]_cliVars

\* Refuted by TLC (README): a command that dies while it saves leaves a file
\* that every later command fails on.
LockReadable == locked = Torn => \E c \in Clis : CommandAt(c, "fill")

\* Refuted by TLC (README): two commands read the lock file, then both write it.
EntryKept ==
  [][\A c \in Clis, a \in Aliases :
       CommandAt(c, "fill") /\ ~CommandAt(c, "fill")' /\ a # cli[c].alias /\ locked' # Torn
         => \/ locked'[a] # NoEntry
            \/ \A d \in Clis : ~(cli[d].wrote /\ cli[d].alias = a /\ cli[d].verb = "add" /\ cli[d].code = "0")]_cliVars

\* Refuted by TLC (README): the package another alias is locked to goes too.
OthersStay ==
  [][\A c \in Clis, a \in Aliases :
       CommandAt(c, "uninstall") /\ installed' # installed /\ locked # Torn /\ a # cli[c].alias
         => locked[a].pkg # cli[c].pkg]_cliVars
=============================================================================
