--------------------------- MODULE SettingsWriter ---------------------------
(***************************************************************************)
(* Writing a local endpoint into Claude Code's settings file: the preview  *)
(* with its masked difference, and the confirmed write.                    *)
(* packages/opendweb-ext-ai/src/consumer/writers/claude-code.mjs, runtime  *)
(* (writerTarget, previewWriter, applyWriter), mgmt.mjs.                   *)
(*                                                                         *)
(* A line is its indentation, its key, its text and its comma; the file is *)
(* printed the way JSON.stringify(_, null, 2) prints it, which is how      *)
(* Claude Code writes it.  The hash of the token has no collisions.        *)
(***************************************************************************)
EXTENDS Naturals, Sequences
LOCAL INSTANCE SequencesExt
LOCAL INSTANCE FiniteSetsExt

CONSTANTS Settings,      \* files the user's side may leave
          EndpointPorts, \* ports the local endpoint may have
          MaxWrites, MaxPreviews \* bounds

VARIABLES
  settings, \* the file: "absent", "garbage", or its JSON object
  port,     \* the endpoint's, 0 while it does not listen
  shown,    \* the last preview: the file and the port it was made of
  apply,    \* the confirmed write under way: what it has read, and the preview
  wrote,    \* the last completed write
  writes, previews

writerVars == <<settings, port, shown, apply, wrote, writes, previews>>

(***************************************************************************)
(* JSON and its lines.                                                     *)
(***************************************************************************)
Text(t) == [kind |-> "text", text |-> t, fields |-> <<>>]
Object(fs) == [kind |-> "object", text |-> "", fields |-> fs]
List(vs) == [kind |-> "list", text |-> "", fields |-> [i \in DOMAIN vs |-> [key |-> "", value |-> vs[i]]]]
Pair(k, v) == [key |-> k, value |-> v]

RECURSIVE Printed(_, _, _, _)
Printed(v, key, depth, comma) ==
  LET line(text, c) == <<[depth |-> depth, key |-> key, text |-> text, comma |-> c]>>
      inner(i) == Printed(v.fields[i].value, v.fields[i].key, depth + 1, i < Len(v.fields))
      marks == IF v.kind = "object" THEN <<"{", "}", "{}">> ELSE <<"[", "]", "[]">>
  IN IF v.kind = "text" THEN line(v.text, comma)
     ELSE IF v.fields = <<>> THEN line(marks[3], comma)
     ELSE line(marks[1], FALSE)
            \o FlattenSeq([i \in DOMAIN v.fields |-> inner(i)])
            \o <<[depth |-> depth, key |-> "", text |-> marks[2], comma |-> comma]>>
LinesOf(f) == IF f.kind = "absent" THEN <<>> ELSE Printed(f, "", 0, FALSE)

Absent == [kind |-> "absent", text |-> "", fields |-> <<>>]
Keyed(v, k) == {i \in DOMAIN v.fields : v.fields[i].key = k}
With(v, k, w) ==
  IF Keyed(v, k) = {} THEN [v EXCEPT !.fields = Append(@, Pair(k, w))]
                      ELSE [v EXCEPT !.fields[CHOOSE i \in Keyed(v, k) : TRUE].value = w]
At(v, k) == v.fields[CHOOSE i \in Keyed(v, k) : TRUE].value

(***************************************************************************)
(* composeClaudeCodeSettings: two keys of env, everything else as it is; a *)
(* file that is no object, or whose env is none, is refused.               *)
(***************************************************************************)
Url == "ANTHROPIC_BASE_URL"
Token == "ANTHROPIC_AUTH_TOKEN"
Placeholder == "sk-aifly-local"
BaseUrl(p) == IF p = 1 THEN "http://127.0.0.1:1" ELSE "http://127.0.0.1:2"
Rewritable(f) ==
  f.kind \in {"absent", "object"} /\ \A i \in Keyed(f, "env") : f.fields[i].value.kind = "object"
Env(f) == IF Keyed(f, "env") = {} THEN Object(<<>>) ELSE At(f, "env")
MutCompose(f, p) == With(f, "env", Object(<<Pair(Url, Text(BaseUrl(p))), Pair(Token, Text(Placeholder))>>))
Compose(f, p) ==
  LET root == IF f.kind = "absent" THEN Object(<<>>) ELSE f
  IN With(root, "env", With(With(Env(root), Url, Text(BaseUrl(p))), Token, Text(Placeholder)))

(***************************************************************************)
(* maskSensitiveSettings: a sensitive key hides every text below it, at    *)
(* any depth and through lists; so does the form of a key.                 *)
(***************************************************************************)
Sensitive == {Token, "apiKeys", "authHeader"}
Forms == {"sk-real"}
RECURSIVE MaskedValue(_, _)
MutBelow(key, inherited) == key \in Sensitive
Below(key, inherited) == inherited \/ key \in Sensitive
MaskedValue(v, hidden) ==
  IF v.kind = "text"
    THEN IF v.text # Placeholder /\ (hidden \/ v.text \in Forms) THEN Text("mask") ELSE v
    ELSE [v EXCEPT !.fields = [i \in DOMAIN @ |->
            [@[i] EXCEPT !.value = MaskedValue(@, Below(v.fields[i].key, hidden))]]]

(***************************************************************************)
(* editScript: a longest common subsequence of the lines, as operations.   *)
(***************************************************************************)
Lengths(old, new) ==
  LET m == Len(new)
      cell(line, below, j, right) ==
        <<IF line = new[j] THEN below[j + 1] + 1 ELSE Max({below[j], Head(right)})>> \o right
      row(line, below) == FoldRight(LAMBDA j, right : cell(line, below, j, right), [j \in 1..m |-> j], <<0>>)
  IN FoldRight(LAMBDA line, rows : <<row(line, Head(rows))>> \o rows, old, <<[j \in 1..(m + 1) |-> 0]>>)
Script(old, new) ==
  LET n == Len(old)
      m == Len(new)
      lcs == Lengths(old, new)
      ops[i \in 1..(n + 1), j \in 1..(m + 1)] ==
        IF i > n THEN [k \in 1..(m + 1 - j) |-> <<"+", new[j + k - 1]>>]
        ELSE IF j > m THEN [k \in 1..(n + 1 - i) |-> <<"-", old[i + k - 1]>>]
        ELSE IF old[i] = new[j] THEN <<<<" ", old[i]>>>> \o ops[i + 1, j + 1]
        ELSE IF lcs[i + 1][j] >= lcs[i][j + 1] THEN <<<<"-", old[i]>>>> \o ops[i + 1, j]
        ELSE <<<<"+", new[j]>>>> \o ops[i, j + 1]
  IN ops[1, 1]

(***************************************************************************)
(* unifiedDiff: changes at most three equal lines apart share a hunk, and  *)
(* a hunk has up to three equal lines before and after.                    *)
(***************************************************************************)
Context == 3
Count(ops, k, kinds) == Cardinality({i \in 1..k : ops[i][1] \in kinds})
Start(ops, lo, kinds) == Count(ops, lo - 1, kinds) + 1
Hunks(ops) ==
  LET changed == {k \in DOMAIN ops : ops[k][1] # " "}
      first == {k \in changed : \A p \in changed : p < k => k - p > Context + 1}
      last(k) == Max({q \in changed : q >= k /\ \A f \in first : f > k => q < f})
      hunk(k) ==
        LET lo == Max({1, k - Context})
            hi == Min({Len(ops), last(k) + Context})
        IN [oldStart |-> Start(ops, lo, {" ", "-"}), newStart |-> Start(ops, lo, {" ", "+"}),
            lines |-> SubSeq(ops, lo, hi)]
  IN {hunk(k) : k \in first}
Diff(old, new) == Hunks(Script(old, new))

(***************************************************************************)
(* The preview reads; the confirmed write reads again, compares the hash   *)
(* of the difference, and replaces the file by an atomic rename.           *)
(***************************************************************************)
Canonical(f, p) == Diff(LinesOf(f), LinesOf(Compose(f, p)))
Preview(f, p) ==
  LET before == MaskedValue(f, FALSE)
      after == MaskedValue(Compose(f, p), FALSE)
  IN [token |-> Canonical(f, p), diff |-> Diff(LinesOf(before), LinesOf(after)),
      before |-> before, after |-> after]
NoPreview == [file |-> Absent, port |-> 0]
NotApplying == [file |-> Absent, port |-> 0, of |-> NoPreview]
WriterInit ==
  /\ settings \in Settings
  /\ port \in EndpointPorts
  /\ shown = NoPreview
  /\ apply = NotApplying
  /\ wrote = NotApplying
  /\ writes = 0 /\ previews = 0

previewWriter ==
  /\ port # 0 /\ Rewritable(settings) /\ previews < MaxPreviews
  /\ shown' = [file |-> settings, port |-> port]
  /\ previews' = previews + 1
  /\ UNCHANGED <<settings, port, apply, wrote, writes>>
MutConfirmed == TRUE
Confirmed == Canonical(settings, port) = Canonical(shown.file, shown.port)
applyWriter ==
  /\ apply = NotApplying /\ shown # NoPreview
  /\ port # 0 /\ Rewritable(settings)
  /\ Confirmed
  /\ apply' = [file |-> settings, port |-> port, of |-> shown]
  /\ UNCHANGED <<settings, port, shown, wrote, writes, previews>>
ApplyWrites ==
  /\ apply # NotApplying
  /\ \/ settings' = Compose(apply.file, apply.port) /\ wrote' = apply
     \/ UNCHANGED <<settings, wrote>>
  /\ apply' = NotApplying
  /\ UNCHANGED <<port, shown, writes, previews>>

\* Outside: the user, or Claude Code, writes the file; the endpoint stops,
\* or listens on another port.
Written == /\ writes < MaxWrites /\ writes' = writes + 1
           /\ settings' \in Settings \ {settings}
           /\ UNCHANGED <<port, shown, apply, wrote, previews>>
Moved == /\ writes < MaxWrites /\ writes' = writes + 1
         /\ port' \in (EndpointPorts \cup {0}) \ {port}
         /\ UNCHANGED <<settings, shown, apply, wrote, previews>>

WriterNext == previewWriter \/ applyWriter \/ ApplyWrites \/ Written \/ Moved

(***************************************************************************)
(* Properties.                                                             *)
(***************************************************************************)
\* The hunks of a difference say where they apply, and outside of them the
\* old and the new lines are the same: put in place, they make the new file.
Side(h, kinds) ==
  LET kept == SelectSeq(h.lines, LAMBDA o : o[1] \in kinds) IN [i \in DOMAIN kept |-> kept[i][2]]
Outside(lines, ranges) ==
  LET out == {i \in DOMAIN lines : \A r \in ranges : i \notin r}
  IN [k \in 1..Cardinality(out) |-> lines[CHOOSE i \in out : Cardinality({j \in out : j <= i}) = k]]
DiffFits(hunks, old, new) ==
  LET before(h) == Side(h, {" ", "-"})
      after(h) == Side(h, {" ", "+"})
      at(start, s) == start..(start + Len(s) - 1)
  IN /\ \A h \in hunks : /\ SubSeq(old, h.oldStart, h.oldStart + Len(before(h)) - 1) = before(h)
                         /\ SubSeq(new, h.newStart, h.newStart + Len(after(h)) - 1) = after(h)
     /\ Outside(old, {at(h.oldStart, before(h)) : h \in hunks})
          = Outside(new, {at(h.newStart, after(h)) : h \in hunks})
Previewed(x) == Preview(x.file, x.port)
DiffHolds ==
  shown # NoPreview =>
    LET a == Previewed(shown) IN DiffFits(a.diff, LinesOf(a.before), LinesOf(a.after))

\* No preview shows the browser a secret of the file, however deep it lies:
\* the texts that stand for secrets are in no line of the answer.
SecretTexts == {"sk-real", "hunter2"}
NoSecretShown ==
  shown # NoPreview =>
    \A f \in {Previewed(shown).before, Previewed(shown).after} :
      \A l \in Range(LinesOf(f)) : l.text \notin SecretTexts

\* A write changes two keys of env and nothing else of what it has read.
TwoKeysOnly ==
  LET rest(f) == {l \in Range(LinesOf(f)) : l.key \notin {Url, Token, "env"} /\ l.depth # 0}
      plain(f) == {<<l.key, l.depth, l.text>> : l \in rest(f)}
  IN wrote # NotApplying => plain(wrote.file) \subseteq plain(Compose(wrote.file, wrote.port))

\* A confirmed write repeats every change the preview has shown: the added
\* and removed lines of its difference are those the user saw.
Changes(a) == UNION {{h.lines[i] : i \in DOMAIN h.lines} : h \in a.token}
ChangesConfirmed == wrote # NotApplying => Changes(Previewed(wrote)) = Changes(Previewed(wrote.of))

\* The difference is exact and hides what is secret; the write makes the
\* changes that were shown and keeps the rest of the file it has read.
WriterHolds == DiffHolds /\ NoSecretShown /\ TwoKeysOnly /\ ChangesConfirmed

\* What is written is what the user has confirmed, and a file that has been
\* changed since its preview is refused (claude-code.mjs:9-11).
ConfirmedIsWritten ==
  wrote # NotApplying => Previewed(wrote).after = Previewed(wrote.of).after

\* Refuted by TLC (README): a write loses nothing another program has put
\* into the file.
NothingLost ==
  [][apply # NotApplying /\ wrote' # wrote => settings = apply.file]_writerVars
=============================================================================
