-------------------------------- MODULE Blake3 --------------------------------
(***************************************************************************)
(* The incremental BLAKE3 of packages/opendweb/src/blake3.mjs: blocks,     *)
(* chunks, the stack of subtree values and the root.  The compression      *)
(* function is a term: two inputs have the same value exactly when they    *)
(* are the same, so a hash is the tree it stands for.  A byte is its place *)
(* in the input.                                                           *)
(***************************************************************************)
EXTENDS Integers, Sequences
LOCAL INSTANCE SequencesExt

CONSTANTS BlockLen, ChunkLen,  \* BLOCK_LEN, CHUNK_LEN (a multiple of it)
          PieceLens,              \* the lengths update() is called with
          MaxInput

VARIABLES hashed,     \* how many bytes were given
          chunkState, \* [cv, counter, block, blocks]: ChunkState
          cvStack

blakeVars == <<hashed, chunkState, cvStack>>

IV == <<"iv">>
compress(cv, block, counter, flags) == <<cv, block, counter, flags>>

NewChunk(counter) == [cv |-> IV, counter |-> counter, block |-> <<>>, blocks |-> 0]
ChunkSize(c) == BlockLen * c.blocks + Len(c.block)

startFlag(c) == IF c.blocks = 0 THEN {"CHUNK_START"} ELSE {}

\* ChunkState.update: a full block is compressed when more is to come.
ChunkUpdate(c, byte) ==
  IF Len(c.block) = BlockLen
  THEN [c EXCEPT !.cv = compress(c.cv, c.block, c.counter, startFlag(c)),
                 !.blocks = @ + 1, !.block = <<byte>>]
  ELSE [c EXCEPT !.block = Append(@, byte)]

\* An output, not yet compressed: it may turn out to be the root.
Output(c) == [cv |-> c.cv, block |-> c.block, counter |-> c.counter,
              flags |-> startFlag(c) \union {"CHUNK_END"}]
outputCv(o) == compress(o.cv, o.block, o.counter, o.flags)
parentOutput(left, right) == [cv |-> IV, block |-> <<left, right>>, counter |-> 0, flags |-> {"PARENT"}]

\* Mutant: one merge at most.
MutMerges(total) == IF total % 2 = 0 THEN 1 ELSE 0
\* How often the number of chunks can be halved: so many subtrees are complete.
Merges(total) == CHOOSE n \in 0..total : total % 2^n = 0 /\ (total \div 2^n) % 2 = 1

pushCv(stack, cv, total) ==
  LET n == Merges(total)
      keep == Len(stack) - n
      Merge(acc, i) == outputCv(parentOutput(stack[Len(stack) + 1 - i], acc))
  IN Append(SubSeq(stack, 1, keep), FoldLeft(Merge, cv, [i \in 1..n |-> i]))

\* Hasher.update, a byte of it: a full chunk goes to the stack when more is to come.
Feed(h, byte) ==
  IF ChunkSize(h.chunk) = ChunkLen
  THEN LET total == h.chunk.counter + 1
       IN [stack |-> pushCv(h.stack, outputCv(Output(h.chunk)), total),
           chunk |-> ChunkUpdate(NewChunk(total), byte)]
  ELSE [h EXCEPT !.chunk = ChunkUpdate(@, byte)]

\* finalizeOutput: from the top of the stack down.
finalizeOutput ==
  FoldLeft(LAMBDA out, left : parentOutput(left, outputCv(out)), Output(chunkState), Reverse(cvStack))
Root(o) == compress(o.cv, o.block, o.counter, o.flags \union {"ROOT"})

BlakeInit == hashed = 0 /\ chunkState = NewChunk(0) /\ cvStack = <<>>

Update ==
  \E n \in PieceLens :
    /\ hashed + n <= MaxInput
    /\ hashed' = hashed + n
    /\ LET h == FoldLeft(Feed, [stack |-> cvStack, chunk |-> chunkState], [i \in 1..n |-> hashed + i])
       IN cvStack' = h.stack /\ chunkState' = h.chunk

BlakeNext == Update

(***************************************************************************)
(* The tree of the specification: every left subtree is full, as large as  *)
(* leaves something for the right one.                                     *)
(***************************************************************************)
ChunkOutput(first, last, counter) ==
  LET size == last - first + 1
      blocks == IF size = 0 THEN 1 ELSE (size + BlockLen - 1) \div BlockLen
      Block(i) == [k \in 1..(IF i < blocks THEN BlockLen ELSE size - BlockLen * (blocks - 1)) |->
                     first - 1 + BlockLen * (i - 1) + k]
      Flags(i) == (IF i = 1 THEN {"CHUNK_START"} ELSE {}) \union (IF i = blocks THEN {"CHUNK_END"} ELSE {})
      cv[i \in 0..blocks - 1] == IF i = 0 THEN IV ELSE compress(cv[i - 1], Block(i), counter, Flags(i))
  IN [cv |-> cv[blocks - 1], block |-> Block(blocks), counter |-> counter, flags |-> Flags(blocks)]

TreeOutput ==
  LET chunks == IF hashed = 0 THEN 1 ELSE (hashed + ChunkLen - 1) \div ChunkLen
      LeftOf(n) == CHOOSE p \in {2^k : k \in 0..n} : p < n /\ 2 * p >= n
      tree[from \in 0..chunks - 1, n \in 1..chunks] ==
        IF n = 1 THEN ChunkOutput(ChunkLen * from + 1,
                                  IF from = chunks - 1 THEN hashed ELSE ChunkLen * (from + 1), from)
        ELSE parentOutput(outputCv(tree[from, LeftOf(n)]),
                          outputCv(tree[from + LeftOf(n), n - LeftOf(n)]))
  IN tree[0, chunks]

\* However the input is cut into pieces, the stack yields the tree of the
\* specification at any moment, and the root of what was given so far.
BlakeTree == Root(finalizeOutput) = Root(TreeOutput)
=============================================================================
