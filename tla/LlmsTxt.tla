------------------------------- MODULE LlmsTxt -------------------------------
(***************************************************************************)
(* The site generator's llms.txt step                                      *)
(* (packages/website/src/vite-plugins/llms-txt.mjs, generateLlmsTxt): it   *)
(* scans the built site, groups the pages by section and by locale, writes *)
(* an index for each locale, a mirror of each page and one full text, and  *)
(* puts them into the site by renames that are taken back when one fails.  *)
(*                                                                         *)
(* A path is the sequence of its pieces: names, separators, extension.     *)
(* Pages are what their robots tag says; an index is its sections.         *)
(* Every call to the file system may fail, at most MaxFaults times.        *)
(***************************************************************************)
EXTENDS Naturals, Sequences, FiniteSets
LOCAL INSTANCE SequencesExt
LOCAL INSTANCE Functions

CONSTANTS Sites,       \* built sites: [files: path -> content, dirs: paths]
          Configs,     \* what the site's configuration says
          Added,       \* files that may be put into the site between two runs
          MaxRuns,     \* bound: runs of the step
          MaxFaults    \* bound: failing calls to the file system

VARIABLES files,       \* the files of the site: path -> content
          dirs,        \* its directories
          config,      \* the configuration
          before,      \* the files when the run began
          run,         \* where the run is, and what it has to take back
          runs, faults \* how many there have been
llmsVars == <<files, dirs, config, before, run, runs, faults>>

Page(noindex) == [kind |-> "page", noindex |-> noindex]
Hand == [kind |-> "hand"]
Slash == "/"
HtmlExt == {".html", ".htm"}
Upto(path, n) == SubSeq(path, 1, n)
Ext(rel) == Last(rel)

dirname(path) ==     \* the path before the last separator, <<>> at the top
  LET at == {k \in 1 .. Len(path) : path[k] = Slash} IN
    IF at = {} THEN <<>> ELSE Upto(path, (CHOOSE k \in at : \A j \in at : j <= k) - 1)
Parents(path) == {Upto(path, k - 1) : k \in {j \in 1 .. Len(path) : path[j] = Slash}}

(***************************************************************************)
(* The scan.                                                               *)
(***************************************************************************)
pageUrlFromRel(rel) ==
  LET n == Len(rel) IN
    IF rel = <<"index", ".html">> THEN <<Slash>>
    ELSE IF n > 2 /\ SubSeq(rel, n - 2, n) = <<Slash, "index", ".html">>
         THEN <<Slash>> \o Upto(rel, n - 2)
         ELSE <<Slash>> \o Upto(rel, n - 1)
mdRelFromRel(rel) == Append(Front(rel), ".md")

(* `**` is anything, with the separator after it; `*` is anything but a    *)
(* separator, `?` one piece but a separator.                               *)
RECURSIVE globToRegExp(_)
globToRegExp(glob) ==
  IF glob = <<>> THEN <<>>
  ELSE LET rest == Tail(glob)
           after == IF rest # <<>> /\ rest[1] = Slash THEN Tail(rest) ELSE rest
       IN CASE glob[1] = "**" -> <<"any">> \o globToRegExp(after)
            [] glob[1] = "*" -> <<"part">> \o globToRegExp(rest)
            [] glob[1] = "?" -> <<"one">> \o globToRegExp(rest)
            [] OTHER -> <<glob[1]>> \o globToRegExp(rest)

RECURSIVE Test(_, _)
Test(pattern, text) ==
  IF pattern = <<>> THEN text = <<>>
  ELSE LET p == pattern[1]
           one == text # <<>> /\ (p = "any" \/ text[1] # Slash)
       IN CASE p \in {"any", "part"} ->
                 \/ Test(Tail(pattern), text)
                 \/ one /\ Test(pattern, Tail(text))
            [] p = "one" -> one /\ Test(Tail(pattern), Tail(text))
            [] OTHER -> /\ text # <<>> /\ text[1] = p
                        /\ Test(Tail(pattern), Tail(text))
matchAny(rel, globs) == \E glob \in globs : Test(globToRegExp(glob), rel)

(* The pages, in any fixed order.                                          *)
listHtmlFiles == SetToSeq({rel \in DOMAIN files : Ext(rel) \in HtmlExt})
Pages ==
  SelectSeq(listHtmlFiles,
    LAMBDA rel : /\ matchAny(rel, config.include) /\ ~matchAny(rel, config.exclude)
                 /\ ~files[rel].noindex)

(***************************************************************************)
(* Sections: a page goes to the first whose globs match it.  Static        *)
(* entries go to the section they name, or to `Optional`.                  *)
(***************************************************************************)
OfPage(rel) == [page |-> rel, static |-> "no"]
Static(name) == [page |-> <<>>, static |-> name]
fallbackTitle == IF config.sections = <<>> THEN "Docs" ELSE "Pages"
bucketFor(rel) ==
  LET fits == {s \in DOMAIN config.sections : matchAny(rel, config.sections[s].include)}
  IN IF fits = {} THEN fallbackTitle
     ELSE config.sections[CHOOSE s \in fits : \A t \in fits : s <= t].title

TitleOf(entry) ==
  IF entry.optional \/ entry.section = "" THEN "Optional" ELSE entry.section
Bucket(pages, title) ==
  LET listed == SelectSeq(pages, LAMBDA rel : bucketFor(rel) = title)
      named == SelectSeq(config.entries, LAMBDA e : TitleOf(e) = title)
  IN [k \in 1 .. Len(listed) |-> OfPage(listed[k])]
       \o [k \in 1 .. Len(named) |-> Static(named[k].name)]

(* Each title once, where it stands first.                                 *)
Unique(titles) ==
  LET firsts == {k \in 1 .. Len(titles) : \A j \in 1 .. k - 1 : titles[j] # titles[k]}
  IN [n \in 1 .. Cardinality(firsts) |->
        titles[CHOOSE k \in firsts : Cardinality({j \in firsts : j <= k}) = n]]
sectionTitles == [s \in DOMAIN config.sections |-> config.sections[s].title] \o <<fallbackTitle>>
MutSectionOrder == sectionTitles   \* a title stands where each section names it
(* The sections with pages as they are configured, the fallback, then what *)
(* only additional entries name, as the entries come.                      *)
sectionOrder ==
  Unique(SelectSeq(sectionTitles, LAMBDA title : \E k \in DOMAIN Pages : bucketFor(Pages[k]) = title)
           \o [e \in DOMAIN config.entries |-> TitleOf(config.entries[e])])
buildSections(list) ==
  LET all == [s \in 1 .. Len(sectionOrder) |->
                [title |-> sectionOrder[s], entries |-> Bucket(list, sectionOrder[s])]]
  IN SelectSeq(all, LAMBDA section : section.entries # <<>>)

(***************************************************************************)
(* Locales: a page belongs to the first segment it lies under.             *)
(***************************************************************************)
Under(rel, segment) ==
  rel = Append(segment, ".html") \/ IsPrefix(Append(segment, Slash), rel)
SegmentsOf(rel) == {s \in DOMAIN config.segments : Under(rel, config.segments[s])}
SegmentOf(rel) ==
  config.segments[CHOOSE s \in SegmentsOf(rel) : \A t \in SegmentsOf(rel) : s <= t]
Grouped(segment) ==
  SelectSeq(Pages, LAMBDA rel : SegmentsOf(rel) # {} /\ SegmentOf(rel) = segment)
DefaultPages ==
  Grouped(config.default) \o SelectSeq(Pages, LAMBDA rel : SegmentsOf(rel) = {})
OtherLanguages ==
  LET others == SelectSeq(config.segments, LAMBDA s : s # config.default) IN
    IF others = <<>> THEN <<>>
    ELSE <<[title |-> "Other languages",
            entries |-> [k \in 1 .. Len(others) |-> Static(others[k])]]>>

Index(sections) == [kind |-> "index", sections |-> sections]
LlmsTxt == <<"llms", ".txt">>
LlmsFull == <<"llms-full", ".txt">>
Output(rel, content) == [rel |-> rel, content |-> content]
HasLocale == config.segments # <<>>
FullPages == IF HasLocale THEN DefaultPages ELSE Pages

Indexes ==
  IF ~HasLocale THEN <<Output(LlmsTxt, Index(buildSections(Pages)))>>
  ELSE [s \in DOMAIN config.segments |->
          Output(config.segments[s] \o <<Slash>> \o LlmsTxt,
                 Index(buildSections(Grouped(config.segments[s]))))]
       \o <<Output(LlmsTxt, Index(buildSections(DefaultPages) \o OtherLanguages))>>
outputs ==
  Indexes
  \o (IF config.mirrors
      THEN [p \in 1 .. Len(Pages) |->
              Output(mdRelFromRel(Pages[p]), [kind |-> "mirror", of |-> Pages[p]])]
      ELSE <<>>)
  \o (IF config.full THEN <<Output(LlmsFull, [kind |-> "full", of |-> FullPages])>>
      ELSE <<>>)

(***************************************************************************)
(* The guards, before anything is written.                                 *)
(***************************************************************************)
ConfigBad == ~config.valid \/ \E e \in DOMAIN config.entries : ~config.entries[e].safe
Duplicates ==
  \E p, q \in 1 .. Len(Pages) : p < q /\
     \/ pageUrlFromRel(Pages[p]) = pageUrlFromRel(Pages[q])
     \/ config.mirrors /\ mdRelFromRel(Pages[p]) = mdRelFromRel(Pages[q])
Conflict(output) ==
  \/ output.rel \in dirs
  \/ output.rel \in DOMAIN files /\ Ext(output.rel) = ".md"
     /\ files[output.rel].kind # "mirror"
Conflicts == \E k \in DOMAIN outputs : Conflict(outputs[k])
TooLarge == config.full /\ Len(FullPages) > config.maxPages
Refused == ConfigBad \/ Duplicates \/ Conflicts \/ TooLarge

Idle == [phase |-> "idle", outputs |-> <<>>, next |-> 1, staged |-> {}, parts |-> 1,
         backups |-> <<>>, created |-> {}, createdDirs |-> {}]
LlmsInit ==
  /\ \E site \in Sites : files = site.files /\ dirs = site.dirs
  /\ config \in Configs
  /\ before = files
  /\ run = Idle
  /\ runs = 0 /\ faults = 0

(* A run: the site is read and everything refused before the first write.  *)
Begin ==
  /\ run.phase \in {"idle", "done", "failed", "refused"} /\ runs < MaxRuns
  /\ runs' = runs + 1
  /\ before' = files
  /\ run' = IF Refused THEN [Idle EXCEPT !.phase = "refused"]
            ELSE [Idle EXCEPT !.phase = "stage", !.outputs = outputs]
  /\ UNCHANGED <<files, dirs, config, faults>>

(* Between two runs a file may appear in the site.                         *)
AddFile ==
  /\ run.phase \in {"done", "failed", "refused"} /\ runs < MaxRuns
  /\ \E f \in Added :
       /\ f.rel \notin DOMAIN files \cup dirs
       /\ files' = files @@ (f.rel :> f.content)
       /\ dirs' = dirs \cup Parents(f.rel)
       /\ before' = files'
  /\ run' = Idle
  /\ UNCHANGED <<config, runs, faults>>

Fault == faults < MaxFaults /\ faults' = faults + 1
Current == run.outputs[run.next]

(* Every output is written into the staging directory first.               *)
Stage ==
  /\ run.phase = "stage"
  /\ run' = IF run.next > Len(run.outputs) THEN [run EXCEPT !.phase = "commit", !.next = 1]
            ELSE [run EXCEPT !.next = @ + 1, !.staged = @ \cup {Current.rel}]
  /\ UNCHANGED <<files, dirs, config, before, runs, faults>>
StageFails ==
  /\ run.phase = "stage" /\ Fault
  /\ run' = [run EXCEPT !.phase = "unstage"]
  /\ UNCHANGED <<files, dirs, config, before, runs>>

(* The commit of one output: its directory, the backup of what is there,   *)
(* the rename of the staged file.                                          *)
MakeParent ==
  LET parent == dirname(Current.rel) IN
    /\ run.parts = 1 /\ parent \notin dirs
    /\ dirs' = dirs \cup {parent} \cup Parents(parent)
    /\ run' = [run EXCEPT !.parts = 2, !.createdDirs = @ \cup {parent}]
    /\ UNCHANGED files
HasParent ==
  /\ run.parts = 1 /\ dirname(Current.rel) \in dirs
  /\ run' = [run EXCEPT !.parts = 2]
  /\ UNCHANGED <<files, dirs>>
BackUp ==
  /\ run.parts = 2 /\ Current.rel \in DOMAIN files
  /\ run' = [run EXCEPT !.parts = 3,
               !.backups = Append(@, Output(Current.rel, files[Current.rel]))]
  /\ files' = Restrict(files, DOMAIN files \ {Current.rel})
  /\ UNCHANGED dirs
NoBackUp ==
  /\ run.parts = 2 /\ Current.rel \notin DOMAIN files
  /\ run' = [run EXCEPT !.parts = 3, !.created = @ \cup {Current.rel}]
  /\ UNCHANGED <<files, dirs>>
Place ==
  /\ run.parts = 3
  /\ files' = files @@ (Current.rel :> Current.content)
  /\ run' = [run EXCEPT !.parts = 1, !.next = @ + 1, !.staged = @ \ {Current.rel}]
  /\ UNCHANGED dirs
Committed ==
  /\ run.phase = "commit" /\ run.next > Len(run.outputs)
  /\ run' = [run EXCEPT !.phase = "clean"]
  /\ UNCHANGED <<files, dirs, config, before, runs, faults>>
Commit ==
  /\ run.phase = "commit" /\ run.next <= Len(run.outputs)
  /\ MakeParent \/ HasParent \/ BackUp \/ NoBackUp \/ Place
  /\ UNCHANGED <<config, before, runs, faults>>
CommitFails ==
  /\ run.phase = "commit" /\ run.next <= Len(run.outputs) /\ Fault
  /\ run.parts = 1 => dirname(Current.rel) \notin dirs
  /\ run.parts = 2 => Current.rel \in DOMAIN files
  /\ run' = [run EXCEPT !.phase = "restore", !.next = 1]
  /\ UNCHANGED <<files, dirs, config, before, runs>>

MutRestored ==        \* the restoring ends one backup early
  /\ run.phase = "restore" /\ run.next >= Len(run.backups)
  /\ run' = [run EXCEPT !.phase = "remove"]
  /\ UNCHANGED <<files, dirs, config, before, runs, faults>>

(* The way back: the backups are restored in their order, then what was    *)
(* created is removed, then the directories, the deepest first.  A step    *)
(* that fails is only noted.                                               *)
Restore ==
  /\ run.phase = "restore" /\ run.next <= Len(run.backups)
  /\ LET b == run.backups[run.next] IN
       \/ files' = (b.rel :> b.content) @@ files /\ UNCHANGED faults
       \/ Fault /\ UNCHANGED files
  /\ run' = [run EXCEPT !.next = @ + 1]
  /\ UNCHANGED <<dirs, config, before, runs>>
Restored ==
  /\ run.phase = "restore" /\ run.next > Len(run.backups)
  /\ run' = [run EXCEPT !.phase = "remove"]
  /\ UNCHANGED <<files, dirs, config, before, runs, faults>>
RemoveCreated ==
  /\ run.phase = "remove" /\ run.created # {}
  /\ \E rel \in run.created :
       /\ \/ files' = Restrict(files, DOMAIN files \ {rel}) /\ UNCHANGED faults
          \/ Fault /\ UNCHANGED files
       /\ run' = [run EXCEPT !.created = @ \ {rel}]
  /\ UNCHANGED <<dirs, config, before, runs>>
RemoveDirs ==
  LET Full(d) == \E p \in DOMAIN files \cup (dirs \ run.createdDirs) :
                    IsPrefix(Append(d, Slash), p)
  IN /\ run.phase = "remove" /\ run.created = {}
     /\ dirs' = {d \in dirs : d \in run.createdDirs => Full(d)}
     /\ run' = [run EXCEPT !.phase = "unstage", !.createdDirs = {}]
     /\ UNCHANGED <<files, config, before, runs, faults>>

(* `finally`: the staging directory goes, with the backups in it.  When it *)
(* cannot be removed the run has failed, whatever it has committed.        *)
CleanUp ==
  /\ run.phase \in {"clean", "unstage"}
  /\ \/ /\ run' = [run EXCEPT !.phase = IF run.phase = "clean" THEN "done" ELSE "failed",
                              !.staged = {}, !.backups = <<>>]
        /\ UNCHANGED faults
     \/ Fault /\ run' = [run EXCEPT !.phase = "failed"]
  /\ UNCHANGED <<files, dirs, config, before, runs>>

LlmsNext ==
  \/ Begin \/ AddFile \/ Stage \/ StageFails \/ Commit \/ Committed \/ CommitFails
  \/ Restore \/ Restored \/ RemoveCreated \/ RemoveDirs \/ CleanUp

(***************************************************************************)
(* Properties.                                                             *)
(***************************************************************************)
Complete ==
  [rel \in DOMAIN before \cup {run.outputs[k].rel : k \in DOMAIN run.outputs} |->
     IF \E k \in DOMAIN run.outputs : run.outputs[k].rel = rel
     THEN run.outputs[CHOOSE k \in DOMAIN run.outputs : run.outputs[k].rel = rel].content
     ELSE before[rel]]
Ended == run.phase \in {"done", "failed", "refused"}

(* However a run ends, with one call to the file system failing anywhere,  *)
(* the site holds the whole set of its outputs or is as it was: no text is *)
(* missing, replaced alone, or left of a run that failed.  A run that is   *)
(* done has them all.  Refuted by TLC with two failing calls (README): a   *)
(* backup that cannot be restored is deleted with the staging directory.   *)
AllOrNothing ==
  Ended => /\ files \in {before, Complete}
           /\ run.phase = "done" => files = Complete

(* Every page the configuration includes stands in exactly one section of  *)
(* the index of its locale, and in the root index when its locale is the   *)
(* default one or it has none; no other page stands in either.             *)
ListedIn(rel, index) ==
  {<<s, e>> \in (DOMAIN index.sections) \X (1 .. Len(Pages) + Len(config.entries)) :
     e \in DOMAIN index.sections[s].entries /\ index.sections[s].entries[e].page = rel}
EveryPageListed ==
  run.phase = "done" =>
    \A rel \in {f \in DOMAIN files : files[f].kind = "page"} :
      LET wanted == /\ Ext(rel) \in HtmlExt /\ ~files[rel].noindex
                    /\ matchAny(rel, config.include) /\ ~matchAny(rel, config.exclude)
          mine == IF SegmentsOf(rel) = {} THEN <<>> ELSE SegmentOf(rel)
          atRoot == ~HasLocale \/ mine \in {<<>>, config.default}
          Times(b) == IF b THEN 1 ELSE 0
      IN /\ Cardinality(ListedIn(rel, files[LlmsTxt])) = Times(wanted /\ atRoot)
         /\ \A s \in DOMAIN config.segments :
              Cardinality(ListedIn(rel, files[config.segments[s] \o <<Slash>> \o LlmsTxt]))
                = Times(wanted /\ mine = config.segments[s])

(* A failed run leaves no directory it made.  Refuted by TLC (README): of  *)
(* the directories a recursive call makes only the innermost is noted.     *)
NoShell ==
  run.phase = "failed" /\ files = before =>
    \A d \in dirs \ {<<>>} : \E p \in DOMAIN files : IsPrefix(Append(d, Slash), p)
=============================================================================
