------------------------------- MODULE Parts -------------------------------
(***************************************************************************)
(* Parts of the system that run on their own: the server and plugin        *)
(* commands, the codecs, the documentation build, the AI consumer's        *)
(* settings writer, the SDK's admin client.  A behaviour looks at one of   *)
(* them and the others stay as they are at first.  They share nothing, so  *)
(* the same variables stand for the state of three of them, whichever is    *)
(* looked at.                                                              *)
(***************************************************************************)
EXTENDS PluginCli, Codecs, QrCode, SettingsWriter, ServerCommand, AdminClient, Integers, Sequences, FiniteSets, TLC
LOCAL INSTANCE SequencesExt

CONSTANTS
  Focuses,             \* the parts looked at
  MaxTokens,           \* HtmlMarkdown
  LlmsRuns, LlmsFaults \* LlmsTxt

(***************************************************************************)
(* What the server command reads: settings from flags, environment and     *)
(* file, the plugins of the file, what a preStart hook overrides.          *)
(***************************************************************************)
LOCAL NoValue == [k \in {"bind", "url", "timeout", "relay", "proxy"} |-> "none"]
LOCAL Source(f, e, c) == [flag |-> f, env |-> e, conf |-> c]
ServerSources ==
  {Source([NoValue EXCEPT !["url"] = f], [NoValue EXCEPT !["url"] = e, !["timeout"] = t], [NoValue EXCEPT !["url"] = c]) :
     f \in {"none", "a", "bad"}, e \in {"none", "b", "bad"}, c \in {"none", "c", "bad"}, t \in {"none", "bad"}}
  \cup {Source([NoValue EXCEPT !["relay"] = f, !["proxy"] = g], [NoValue EXCEPT !["relay"] = e, !["proxy"] = e],
               [NoValue EXCEPT !["relay"] = c, !["proxy"] = c]) :
          f \in {"none", "off"}, g \in {"none", "on"}, e \in {"none", "on", "off"}, c \in {"none", "on", "off"}}
  \cup {Source([NoValue EXCEPT !["bind"] = "bad"], NoValue, NoValue)}
TwoDeclared == <<"p1", "p2">>
LOCAL AllHooks == {"preStart", "postReady", "preStop", "setup"}
LOCAL Entry(is, name, hooks) == [is |-> is, name |-> name, hooks |-> hooks]
LOCAL Published1 == Entry("npm", "n", AllHooks)
ServerEntries == {Published1, Entry("local", "l", AllHooks), Entry("local", "m", {"preStart"}),
                  Entry("missing", "x", {}), Entry("invalid", "x", {})}
ServerOverrides == {[key |-> "bind", value |-> "good"], [key |-> "bind", value |-> "bad"],
                    [key |-> "relay", value |-> "off"], [key |-> "timeout", value |-> "good"]}

\* The marketplace, and a package that was given by its name.
TwoGlobs == <<"g1", "g2">>
NamedPackages == {<<"x">>}

\* What the codecs write.
LOCAL UpToLen(S, n) == UNION {[1..k -> S] : k \in 0..n}
CodecTrials ==
  [short |-> {<<ip, p>> : ip \in {<<192, 168, 1, 10>>, <<10, 0, 0, 255>>, <<64768, 0, 0, 0, 1, 2, 3, 65535>>,
                                  <<65152, 0, 0, 0, 0, 0, 0, 1>>},
                          p \in {0, 1, 8787, 65535}},
   ipv6 |-> [1..8 -> {0, 1}],
   base64 |-> UpToLen({0, 255, 90}, 4),
   utf8 |-> UpToLen({1, 2, 3, 4}, 4),
   invite |-> UpToLen({0, 1, 2, 4}, 5) \cup {<<0>> \o s : s \in UpToLen({1, 2, 4, 6}, 5)}]
CodecLimits == [relays |-> 1, url |-> 1, cap |-> 1, addrs |-> 1]
\* Texts at the limits of the versions.
QrTexts == {[i \in 1..n |-> (i * 37) % 256] : n \in {17, 18, 106, 107, 134, 135}}

\* Pages: tags and words.
LOCAL Tags(S) == {[type |-> "open", name |-> n] : n \in S}
                   \cup {[type |-> "close", name |-> n] : n \in S \ {"br", "hr", "img"}}
                   \cup {[type |-> "text", name |-> "text"]}
LOCAL OpenTag(n) == [type |-> "open", name |-> n]
MarkdownAlphabets ==
  {Tags({"main", "body", "nav", "p"}), Tags({"ul", "li", "p", "nav"}), Tags({"table", "tr", "td", "tbody"}),
   Tags({"a", "li", "p", "code"}), Tags({"unsafe", "pre", "img", "br"}), Tags({"ul", "li", "table", "tr", "td"})}
MarkdownStarts == {<<>>, <<OpenTag("main")>>, <<OpenTag("ul")>>, <<OpenTag("table"), OpenTag("tr")>>}

\* Built sites, what a hand adds to them between two builds, configurations.
LOCAL Html(p) == Append(p, ".html")
LOCAL SitePage(noindex) == [kind |-> "page", noindex |-> noindex]
LOCAL ByHand == [kind |-> "hand"]
LOCAL Home == Html(<<"index">>)
LOCAL Zh == Html(<<"zh", "/", "index">>)
LOCAL ZhA == Html(<<"zh", "/", "a">>)
LOCAL Site(fs, ds) == [files |-> fs, dirs |-> ds]
LlmsSites ==
  {Site([f \in {Home, Zh, ZhA, Html(<<"404">>)} |-> SitePage(f = ZhA)], {<<>>, <<"zh">>}),
   Site([f \in {Home, Zh} |-> SitePage(FALSE)], {<<>>, <<"zh">>}),
   Site([f \in {Home} |-> SitePage(FALSE)], {<<>>}),
   Site([f \in {Home, Zh, <<"llms", ".txt">>} |-> IF f = <<"llms", ".txt">> THEN ByHand ELSE SitePage(FALSE)],
        {<<>>, <<"zh">>})}
LlmsAdded ==
  {[rel |-> <<"index", ".md">>, content |-> ByHand], [rel |-> <<"zh", "/", "a", ".md">>, content |-> ByHand],
   [rel |-> <<"index", ".htm">>, content |-> SitePage(FALSE)], [rel |-> ZhA, content |-> SitePage(FALSE)],
   [rel |-> <<"zh", ".html">>, content |-> SitePage(TRUE)]}
LOCAL Plain ==
  [valid |-> TRUE, include |-> {<<"**", "/", "*", ".html">>}, exclude |-> {<<"404", ".html">>}, sections |-> <<>>,
   entries |-> <<>>, segments |-> <<>>, default |-> <<"en">>, mirrors |-> TRUE, full |-> TRUE, maxPages |-> 3]
LOCAL Section(title, patterns) == [title |-> title, include |-> patterns]
LOCAL Extra(name, optional, section) == [name |-> name, safe |-> TRUE, optional |-> optional, section |-> section]
LlmsConfigs ==
  {Plain, [Plain EXCEPT !.segments = <<<<"zh">>>>], [Plain EXCEPT !.segments = <<<<"zh">>>>, !.maxPages = 1],
   [Plain EXCEPT !.segments = <<<<"zh">>, <<"en">>>>, !.mirrors = FALSE,
                 !.sections = <<Section("A", {<<"zh", "/", "*", ".html">>}), Section("A", {<<"**">>})>>],
   [Plain EXCEPT !.sections = <<Section("Pages", {<<"zh", "/", "?", ".html">>})>>, !.include = {<<"**">>},
                 !.entries = <<Extra("x", FALSE, "Pages"), Extra("y", TRUE, "")>>, !.full = FALSE],
   [Plain EXCEPT !.valid = FALSE]}

\* Settings files of Claude Code.
LOCAL Many == <<"e1", "e2", "e3", "e4", "e5", "e6", "e7">>
LOCAL EnvOf(n, secret) ==
  Object(<<Pair("ANTHROPIC_BASE_URL", Text("old"))>> \o [i \in 1..n |-> Pair(Many[i], Text("v"))]
           \o <<Pair("ANTHROPIC_AUTH_TOKEN", Text(secret))>>)
WriterSettings ==
  {Absent, Text("garbage"), Object(<<Pair("env", Text("off"))>>),
   Object(<<Pair("theme", Text("dark"))>>),
   Object(<<Pair("env", Object(<<Pair("ANTHROPIC_AUTH_TOKEN", Text("sk-real")), Pair("e1", Text("v"))>>))>>),
   Object(<<Pair("apiKeys", List(<<Object(<<Pair("name", Text("hunter2"))>>), Text("hunter2")>>)),
            Pair("note", Text("sk-real"))>>)}
  \cup {Object(<<Pair("theme", Text(t)), Pair("a", Text("v")), Pair("b", Text("v")), Pair("c", Text("v")), Pair("env", EnvOf(n, s))>>) :
          t \in {"dark", "light"}, n \in {3, 5, 7}, s \in {"sk-real", "sk-aifly-local"}}

-----------------------------------------------------------------------------
VARIABLES
  focus, \* the part looked at
  s1, s2, s3, s4, s5, s6, s7 \* the state of the hash, the pages, the documentation build

Hash == INSTANCE Blake3 WITH
  BlockLen <- 2, ChunkLen <- 4, PieceLens <- {1, 3, 8}, MaxInput <- 40, hashed <- s1,
  chunkState <- s2, cvStack <- s3
Markdown == INSTANCE HtmlMarkdown WITH
  Alphabets <- MarkdownAlphabets, Starts <- MarkdownStarts, alphabet <- s1, page <- s2
Llms == INSTANCE LlmsTxt WITH
  Sites <- LlmsSites, Configs <- LlmsConfigs, Added <- LlmsAdded, MaxRuns <- LlmsRuns,
  MaxFaults <- LlmsFaults, files <- s1, dirs <- s2, config <- s3, before <- s4, run <- s5,
  runs <- s6, faults <- s7

Free3 == s4 = 0 /\ s5 = 0 /\ s6 = 0 /\ s7 = 0
Free2 == s3 = 0 /\ Free3
own == <<s1, s2, s3, s4, s5, s6, s7>>
After3 == <<s4, s5, s6, s7>>
After2 == <<s3, s4, s5, s6, s7>>

\* Settings and plugins vary one at a time; an unwatched part is in one state.
LOCAL Unset == Source(NoValue, NoValue, NoValue)
PlainServer ==
  /\ ServerInit
  /\ IF focus = "server" THEN source # Unset => \A p \in DeclaredPlugins : entry[p] = Published1
     ELSE command = "setup" /\ source = Unset /\ \A p \in DeclaredPlugins : entry[p] = Published1
Init ==
  /\ focus \in Focuses
  /\ IF focus = "codec" THEN CodecInit ELSE trial = 0 /\ step = 0 /\ text = 0 /\ slip = 0 /\ out = 0
  /\ IF focus = "qr" THEN QrInit
     ELSE qrText = 0 /\ qrStage = 0 /\ qrVersion = 0 /\ codewords = 0 /\ qrModules = 0 /\ qrMask = 0
  /\ IF focus = "writer" THEN WriterInit
     ELSE settings = 0 /\ port = 0 /\ shown = 0 /\ apply = 0 /\ wrote = 0 /\ writes = 0 /\ previews = 0
  /\ PlainServer /\ AdminInit /\ CliInit /\ (focus # "plugins" => broken = {})
  /\ \/ focus = "hash" /\ Hash!BlakeInit /\ Free3
     \/ focus = "markdown" /\ Markdown!MarkdownInit /\ Free2
     \/ focus = "llms" /\ Llms!LlmsInit
     \/ focus \notin {"hash", "markdown", "llms"} /\ s1 = 0 /\ s2 = 0 /\ Free2

writing == <<codecVars, qrVars, writerVars>>
commandVars == <<serverVars, cliVars, adminVars>>
Next ==
  /\ UNCHANGED focus
  /\ \/ /\ UNCHANGED <<writing, commandVars>>
        /\ \/ focus = "hash" /\ Hash!BlakeNext /\ UNCHANGED After3
           \/ focus = "markdown" /\ Markdown!MarkdownNext /\ UNCHANGED After2
           \/ focus = "llms" /\ Llms!LlmsNext
     \/ /\ UNCHANGED <<own, commandVars>>
        /\ \/ focus = "codec" /\ CodecNext /\ UNCHANGED <<qrVars, writerVars>>
           \/ focus = "qr" /\ QrNext /\ UNCHANGED <<codecVars, writerVars>>
           \/ focus = "writer" /\ WriterNext /\ UNCHANGED <<codecVars, qrVars>>
     \/ /\ UNCHANGED <<own, writing>>
        /\ \/ focus = "server" /\ ServerNext /\ UNCHANGED <<cliVars, adminVars>>
           \/ focus = "plugins" /\ CliNext /\ UNCHANGED <<serverVars, adminVars>>
           \/ focus = "admin" /\ AdminNext /\ UNCHANGED <<serverVars, cliVars>>

vars == <<focus, own, writing, commandVars>>
Spec == Init /\ [][Next]_vars
Symmetry == Permutations(Clis)

(***************************************************************************)
(* Properties: those of the parts extended above, and of the others.       *)
(***************************************************************************)
\* What is written is read back, or is refused: connection codes, addresses,
\* aliases and invitations, QR codes, the tree hash; a page's words come out
\* of its Markdown, each once and in order.  A documentation build publishes
\* all of its files or none, whatever call fails, and its index lists every
\* page (llms-txt.mjs); the settings writer shows what it does
\* (claude-code.mjs).
WrittenHolds ==
  /\ focus = "codec" => Holds
  /\ focus = "qr" => QrReads
  /\ focus = "hash" => Hash!BlakeTree
  /\ focus = "markdown" => Markdown!WordsKept
  /\ focus = "llms" => Llms!AllOrNothing /\ Llms!EveryPageListed
  /\ focus = "writer" => WriterHolds
=============================================================================
