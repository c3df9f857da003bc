---------------------------- MODULE HtmlMarkdown ----------------------------
(***************************************************************************)
(* The site generator's conversion of a built page to Markdown             *)
(* (packages/website/src/vite-plugins/llms-txt.mjs): a stack builder makes *)
(* a tree of the tokens of the page, the content root is looked up in it,  *)
(* the chrome is removed, and what is left is written as Markdown.         *)
(*                                                                         *)
(* A text is the position of its token, so that one can tell whether it is *)
(* written, how often and where.  The Markdown is the sequence of the      *)
(* texts it holds, each with the marks that stand around it; blank lines,  *)
(* escapes and entities are left out.  A page grows by one token a step.   *)
(***************************************************************************)
EXTENDS Naturals, Sequences, FiniteSets
LOCAL INSTANCE SequencesExt

CONSTANTS Alphabets,   \* sets of tokens a page may be made of
          Starts,      \* how a page may begin
          MaxTokens    \* bound: tokens of a page

VARIABLES alphabet,    \* the tokens this page is made of
          page         \* the tokens of the page so far
mdVars == <<alphabet, page>>

(* What the tokenizer yields.  An `a` whose target is not safe, a div that *)
(* is hidden and an element without content have names of their own.       *)
Open(n) == [type |-> "open", name |-> n]
Close(n) == [type |-> "close", name |-> n]
Word == [type |-> "text", name |-> "text"]
VoidElements == {"br", "hr", "img"}

(***************************************************************************)
(* The tree.                                                               *)
(***************************************************************************)
Node(n, w) == [name |-> n, word |-> w, kids |-> <<>>]
IsText(node) == node.name = "text"

(* The innermost node of the stack becomes a child of the one around it.   *)
Folded(stack) ==
  LET d == Len(stack) IN
    Append(SubSeq(stack, 1, d - 2),
           [stack[d - 1] EXCEPT !.kids = Append(@, stack[d])])

RECURSIVE FoldedTo(_, _)
FoldedTo(stack, depth) ==
  IF Len(stack) <= depth THEN stack ELSE FoldedTo(Folded(stack), depth)

MutPopped(stack, n) == \* a close pops the innermost element, whatever its name
  IF Len(stack) = 1 THEN stack ELSE Folded(stack)

(* A close pops to the nearest open of its name, or is ignored.            *)
Popped(stack, n) ==
  LET at == {s \in 2 .. Len(stack) : stack[s].name = n} IN
    IF at = {} THEN stack
    ELSE FoldedTo(stack, (CHOOSE s \in at : \A t \in at : t <= s) - 1)

RECURSIVE Built(_, _, _)
Built(stack, tokens, i) ==
  IF i > Len(tokens) THEN FoldedTo(stack, 1)[1]
  ELSE LET t == tokens[i]
           pushed == Append(stack, Node(t.name, i))
           single == t.type = "text" \/ (t.type = "open" /\ t.name \in VoidElements)
       IN CASE single ->
                 Built(Folded(pushed), tokens, i + 1)
            [] t.type = "open" /\ ~single ->
                 Built(pushed, tokens, i + 1)
            [] t.type = "close" -> Built(Popped(stack, t.name), tokens, i + 1)

parseFragment(tokens) == Built(<<Node("root", 0)>>, tokens, 1)

(***************************************************************************)
(* The content of the page: <main>, else <body>, else everything, without  *)
(* the chrome.                                                             *)
(***************************************************************************)
Chrome == {"nav", "button", "hidden"}
isChromeElement(node) == node.name \in Chrome

RECURSIVE Named(_, _)
Named(node, n) ==
  FlattenSeq([k \in 1 .. Len(node.kids) |->
     (IF node.kids[k].name = n THEN <<node.kids[k]>> ELSE <<>>)
        \o Named(node.kids[k], n)])
findFirst(node, n) == Named(node, n)[1]

RECURSIVE stripChrome(_)
stripChrome(node) ==
  LET kept == SelectSeq(node.kids, LAMBDA k : ~isChromeElement(k)) IN
    [node EXCEPT !.kids = [k \in 1 .. Len(kept) |-> stripChrome(kept[k])]]

extractPage(tokens) ==
  LET tree == parseFragment(tokens)
      content == CASE Named(tree, "main") # <<>> -> findFirst(tree, "main")
                   [] Named(tree, "main") = <<>> /\ Named(tree, "body") # <<>> ->
                        findFirst(tree, "body")
                   [] OTHER -> tree
  IN stripChrome(content)

(***************************************************************************)
(* The conversion.  A shown text carries the marks around it.              *)
(***************************************************************************)
Shown(w, marks) == <<[word |-> w, marks |-> marks]>>
Mark == [a |-> {"link"}, unsafe |-> {}, strong |-> {"strong"}, em |-> {"em"},
         del |-> {"del"}]

RECURSIVE textOf(_, _)
textOf(nodes, marks) ==
  FlattenSeq([k \in 1 .. Len(nodes) |->
     IF IsText(nodes[k]) THEN Shown(nodes[k].word, marks)
     ELSE textOf(nodes[k].kids, marks)])

RECURSIVE inlineOf(_, _)
inlineOf(nodes, marks) ==
  FlattenSeq([k \in 1 .. Len(nodes) |->
     LET node == nodes[k] IN
       CASE IsText(node) -> Shown(node.word, marks)
         [] isChromeElement(node) \/ node.name = "br" -> <<>>
         [] node.name = "img" -> Shown(node.word, marks \cup {"image"})
         [] node.name = "code" -> textOf(node.kids, marks \cup {"code"})
         [] node.name \in DOMAIN Mark ->
              inlineOf(node.kids, marks \cup Mark[node.name])
         [] OTHER -> inlineOf(node.kids, marks)])

Labelled == {"h1", "p", "dt", "dd", "summary"}
Lists == {"ul", "ol"}
Cells == {"td", "th"}

(* The cells of a row: children of the row only.                           *)
collect(tr) ==
  LET cells == SelectSeq(tr.kids, LAMBDA c : c.name \in Cells) IN
    FlattenSeq([c \in 1 .. Len(cells) |-> inlineOf(cells[c].kids, {"cell"})])

(* The rows of a table: wherever they are, but not inside a cell.          *)
RECURSIVE convertTable(_)
convertTable(node) ==
  FlattenSeq([k \in 1 .. Len(node.kids) |->
     LET child == node.kids[k] IN
       CASE child.name = "tr" -> collect(child)
         [] child.name \in Cells \/ IsText(child) -> <<>>
         [] OTHER -> convertTable(child)])

RECURSIVE nodeToMarkdown(_)
RECURSIVE convertList(_)
childrenToMarkdown(nodes) ==
  FlattenSeq([k \in 1 .. Len(nodes) |-> nodeToMarkdown(nodes[k])])

convertList(node) ==
  FlattenSeq([k \in 1 .. Len(node.kids) |->
     LET child == node.kids[k] IN
       CASE child.name = "li" -> childrenToMarkdown(child.kids)
         [] child.name \in Lists -> convertList(child)
         [] OTHER -> <<>>])

nodeToMarkdown(node) ==
  CASE IsText(node) -> Shown(node.word, {})
    [] isChromeElement(node) \/ node.name \in {"hr", "br"} -> <<>>
    [] node.name = "pre" -> textOf(node.kids, {"fence"})
    [] node.name = "code" -> inlineOf(<<node>>, {})
    [] node.name \in Labelled -> inlineOf(node.kids, {})
    [] node.name \in Lists -> convertList(node)
    [] node.name = "table" -> convertTable(node)
    [] OTHER -> childrenToMarkdown(node.kids)   \* a container, or any other

htmlToMarkdown(tokens) == childrenToMarkdown(extractPage(tokens).kids)

MarkdownInit == /\ alphabet \in Alphabets
                /\ page \in Starts

Feed ==
  /\ Len(page) < MaxTokens
  /\ \E t \in alphabet : page' = Append(page, t)
  /\ UNCHANGED alphabet
MarkdownNext == Feed

(***************************************************************************)
(* What a reader of the page sees, told from the tokens alone: the tags    *)
(* open before a text.                                                     *)
(***************************************************************************)
LOCAL Nearest(open, n) ==
  LET at == {s \in 1 .. Len(open) : page[open[s]].name = n} IN
    CHOOSE s \in at : \A t \in at : t <= s

RECURSIVE OpenBefore(_)
OpenBefore(i) ==      \* the positions of the tags open before token i
  IF i = 1 THEN <<>>
  ELSE LET open == OpenBefore(i - 1)  t == page[i - 1] IN
       CASE t.type = "open" /\ t.name \notin VoidElements -> Append(open, i - 1)
         [] t.type = "close" /\ \E s \in 1 .. Len(open) : page[open[s]].name = t.name ->
              SubSeq(open, 1, Nearest(open, t.name) - 1)
         [] OTHER -> open

Opened(n) == {i \in 1 .. Len(page) : page[i] = Open(n)}
LOCAL Least(S) == CHOOSE i \in S : \A j \in S : i <= j

(* The names of the tags between the content root and token i, or "no"     *)
(* alone when the token is outside of it.                                  *)
Path(i) ==
  LET open == OpenBefore(i)
      names == [s \in 1 .. Len(open) |-> page[open[s]].name]
      roots == IF Opened("main") # {} THEN Opened("main") ELSE Opened("body")
  IN IF roots = {} THEN names
     ELSE IF \E s \in 1 .. Len(open) : open[s] = Least(roots)
     THEN LET at == CHOOSE s \in 1 .. Len(open) : open[s] = Least(roots)
          IN SubSeq(names, at + 1, Len(names))
     ELSE <<"no">>

(* A text is read unless it is chrome, or stands in a list outside its     *)
(* items, or in a table outside its cells.  Inside a heading, a paragraph, *)
(* a cell or code everything is read.                                      *)
Reads(path) ==
  LET n == Len(path)
      inline == {k \in 1 .. n : path[k] \in Labelled \cup {"pre", "code"}}
      in == IF inline = {} THEN n + 1 ELSE Least(inline)
      tables == {k \in 1 .. in - 1 : path[k] = "table" /\
                   \A j \in 1 .. k - 1 : path[j] \in Lists => path[j + 1] \in Lists \cup {"li"}}
      block == IF tables = {} THEN in ELSE Least(tables)
  IN /\ \A k \in 1 .. n : path[k] \notin Chrome \cup {"no"}
     /\ \A k \in 1 .. block - 1 : path[k] \in Lists =>
          k < n /\ path[k + 1] \in Lists \cup {"li"}
     /\ tables # {} =>
          LET rows == {k \in block + 1 .. n : path[k] = "tr"} IN
            /\ rows # {}
            /\ Least(rows) < n /\ path[Least(rows) + 1] \in Cells
            /\ \A k \in block + 1 .. Least(rows) : path[k] \notin Cells

(* Every text a reader of the page sees is in the Markdown once, in the    *)
(* order of the page, and no chrome is: nothing is lost in the nesting of  *)
(* lists, tables and inline elements, whatever is left open or closed      *)
(* twice.                                                                  *)
WordsKept ==
  LET shown == htmlToMarkdown(page)
      read == SelectSeq([i \in 1 .. Len(page) |-> i],
                        LAMBDA i : page[i] = Word /\ Reads(Path(i)))
  IN SelectSeq([k \in 1 .. Len(shown) |-> shown[k].word],
               LAMBDA i : page[i] = Word) = read

(* A text inside a safe link is written as a link.  Refuted by TLC         *)
(* (README): a link that stands in a list item or a container, and not in  *)
(* a paragraph, is converted by the branch for containers.                 *)
LinksKept ==
  LET shown == htmlToMarkdown(page) IN
    \A k \in 1 .. Len(shown) :
      LET path == Path(shown[k].word) IN
        /\ \E s \in 1 .. Len(path) : path[s] = "a"
        /\ \A s \in 1 .. Len(path) : path[s] \notin {"code", "pre"}
        => "link" \in shown[k].marks
=============================================================================
