-------------------------------- MODULE QrCode --------------------------------
(***************************************************************************)
(* The QR code of an access card (packages/opendweb/src/qr.mjs): byte mode, *)
(* error correction level L, versions 1 to 6.  A text becomes codewords    *)
(* with their Reed-Solomon remainders, the codewords are placed along the  *)
(* snake, the mask with the least penalty is chosen and the format written. *)
(*                                                                         *)
(* A module is a pair <<row, column>>, counted from zero.                  *)
(***************************************************************************)
EXTENDS Integers, Sequences, FiniteSets
LOCAL INSTANCE Bitwise
LOCAL INSTANCE SequencesExt

CONSTANT Texts   \* sequences of bytes

VARIABLES qrText,
          qrStage,    \* "text", "codewords", "placed", "masked", "done", "error"
          qrVersion,  \* a record of VERSIONS_L
          codewords,  \* data and error correction, interleaved
          qrModules,  \* of a mask's trial, and at the end the code itself
          qrMask      \* [next, best, penalty, modules] of the choice

qrVars == <<qrText, qrStage, qrVersion, codewords, qrModules, qrMask>>

(***************************************************************************)
(* The field of 256 elements, and remainders in it.                        *)
(***************************************************************************)
\* FoldLeft, with what is folded so far as a value and ten elements at a time
\* (as an expression of all that came before it TLC's stack would not hold it).
Strictly(op(_, _), base, seq) ==
  FoldLeft(LAMBDA acc, x : CHOOSE v \in {op(known, x) : known \in {acc}} : TRUE, base, seq)
Fold(op(_, _), base, seq) ==
  LET Ten(i) == SubSeq(seq, 10 * i - 9, IF 10 * i < Len(seq) THEN 10 * i ELSE Len(seq))
  IN Strictly(LAMBDA acc, i : Strictly(op, acc, Ten(i)), base, [i \in 1..(Len(seq) + 9) \div 10 |-> i])

Double(a) == IF a >= 128 THEN ((2 * a) % 256) ^^ 29 ELSE 2 * a
gmul(a, b) ==
  LET Bit(acc, i) == Double(acc) ^^ (IF (b \div 2^(8 - i)) % 2 = 1 THEN a ELSE 0)
  IN Fold(Bit, 0, <<1, 2, 3, 4, 5, 6, 7, 8>>)

Zeroes(n) == [i \in 1..n |-> 0]

\* rsDivisor: the product of (x - root) over the powers of two, without its
\* leading coefficient.
rsDivisor(degree) ==
  LET Times(poly, root) ==
        [j \in 1..degree |-> gmul(poly[j], root) ^^ (IF j < degree THEN poly[j + 1] ELSE 0)]
      Step(acc, i) == [poly |-> Times(acc.poly, acc.root), root |-> Double(acc.root)]
  IN Fold(Step, [poly |-> [Zeroes(degree) EXCEPT ![degree] = 1], root |-> 1],
              [i \in 1..degree |-> i]).poly

rsRemainder(data, divisor) ==
  LET n == Len(divisor)
      Step(rem, b) == LET factor == b ^^ rem[1]
                      IN [k \in 1..n |-> (IF k < n THEN rem[k + 1] ELSE 0) ^^ gmul(divisor[k], factor)]
  IN Fold(Step, Zeroes(n), data)

(***************************************************************************)
(* Versions and codewords.                                                 *)
(***************************************************************************)
VERSIONS_L ==
  LET V(n, data, ec, blocks, align) ==
        [size |-> 4 * n + 17, data |-> data, ec |-> ec, blocks |-> blocks, align |-> align]
  IN <<V(1, 19, 7, 1, {}), V(2, 34, 10, 1, {6, 18}), V(3, 55, 15, 1, {6, 22}),
       V(4, 80, 20, 1, {6, 26}), V(5, 108, 26, 1, {6, 30}), V(6, 136, 18, 2, {6, 34})>>

BitsOf(v, n) == [i \in 1..n |-> (v \div 2^(n - i)) % 2]
Byte(bits, i) == Fold(LAMBDA acc, k : 2 * acc + bits[8 * (i - 1) + k], 0, <<1, 2, 3, 4, 5, 6, 7, 8>>)

\* The bits of the mode, of the length and of the bytes lie half a byte off.
qrDataCodewords(text, v) ==
  LET nibbles == <<4, Len(text) \div 16, Len(text) % 16>>
                 \o [i \in 1..2 * Len(text) |-> IF i % 2 = 1 THEN text[(i + 1) \div 2] \div 16
                                                ELSE text[i \div 2] % 16]
                 \o <<0>>   \* the terminator
  IN [i \in 1..v.data |->
        IF 2 * i <= Len(nibbles) THEN 16 * nibbles[2 * i - 1] + nibbles[2 * i]
        ELSE IF (i - Len(text)) % 2 = 1 THEN 236 ELSE 17]

\* Of every block one codeword after the other.
Interleaved(blocks) ==
  [i \in 1..Len(blocks) * Len(blocks[1]) |->
     blocks[1 + ((i - 1) % Len(blocks))][1 + ((i - 1) \div Len(blocks))]]

AllCodewords(text, v) ==
  LET data == qrDataCodewords(text, v)
      per == v.data \div v.blocks
      blocks == [b \in 1..v.blocks |-> SubSeq(data, (b - 1) * per + 1, b * per)]
      divisor == rsDivisor(v.ec)
  IN Interleaved(blocks) \o Interleaved([b \in 1..v.blocks |-> rsRemainder(blocks[b], divisor)])

(***************************************************************************)
(* The matrix.                                                             *)
(***************************************************************************)
Size(v) == v.size
Grid(v) == (0..Size(v) - 1) \X (0..Size(v) - 1)
Far(a, b) == IF a >= b THEN a - b ELSE b - a
Ring(p, q) == LET r == Far(p[1], q[1]) c == Far(p[2], q[2]) IN IF r >= c THEN r ELSE c

\* A finder, with the light band around it, lies around its middle.
FinderMiddles(v) == {<<3, 3>>, <<3, Size(v) - 4>>, <<Size(v) - 4, 3>>}
Finder(v, p) == \E q \in FinderMiddles(v) : Ring(p, q) <= 4
FinderDark(v, p) == \E q \in FinderMiddles(v) : Ring(p, q) \in {0, 1, 3}

Timing(v, p) == \/ p[1] = 6 /\ p[2] \in 8..Size(v) - 9
                \/ p[2] = 6 /\ p[1] \in 8..Size(v) - 9
TimingDark(p) == (p[1] + p[2]) % 2 = 0

\* Where a finder is, no alignment pattern is drawn.
AlignMiddles(v) ==
  {q \in v.align \X v.align :
     /\ ~(q[1] <= 8 /\ q[2] <= 8) /\ ~(q[1] <= 8 /\ q[2] >= Size(v) - 9)
     /\ ~(q[1] >= Size(v) - 9 /\ q[2] <= 8)}
Alignment(v, p) == \E q \in AlignMiddles(v) : Ring(p, q) <= 2
AlignmentDark(v, p) == \E q \in AlignMiddles(v) : Ring(p, q) \in {0, 2}

DarkModule(v) == <<Size(v) - 8, 8>>

formatPositions(v) ==
  [copy1 |-> <<<<8, 0>>, <<8, 1>>, <<8, 2>>, <<8, 3>>, <<8, 4>>, <<8, 5>>, <<8, 7>>, <<8, 8>>,
               <<7, 8>>, <<5, 8>>, <<4, 8>>, <<3, 8>>, <<2, 8>>, <<1, 8>>, <<0, 8>>>>,
   copy2 |-> [i \in 1..7 |-> <<Size(v) - i, 8>>] \o [j \in 1..8 |-> <<8, Size(v) - 9 + j>>]]

Format(v) == ToSet(formatPositions(v).copy1) \union ToSet(formatPositions(v).copy2)

Reserved(v, p) == Finder(v, p) \/ Timing(v, p) \/ Alignment(v, p) \/ p = DarkModule(v) \/ p \in Format(v)

\* drawFinders, drawTimingAndAlignment: later drawings over earlier ones.
Drawn(v, p) ==
  IF \/ p = DarkModule(v)
     \/ Alignment(v, p) /\ AlignmentDark(v, p)
     \/ ~Alignment(v, p) /\ Timing(v, p) /\ TimingDark(p)
     \/ ~Alignment(v, p) /\ ~Timing(v, p) /\ Finder(v, p) /\ FinderDark(v, p)
  THEN 1 ELSE 0

\* Two columns at a time from the right, up and down; column six is left out.
Snake(v) ==
  [k \in 1..Size(v) * (Size(v) - 1) |->
     LET turn == (k - 1) \div (2 * Size(v))
         i == ((k - 1) % (2 * Size(v))) \div 2
         right == Size(v) - 1 - 2 * turn
     IN <<IF turn % 2 = 0 THEN Size(v) - 1 - i ELSE i,
          (IF right <= 6 THEN right - 1 ELSE right) - ((k - 1) % 2)>>]

\* Mutant: the place of the dark module is taken for data.
MutFree(v) ==
  SelectSeq(Snake(v), LAMBDA p : ~(Finder(v, p) \/ Timing(v, p) \/ Alignment(v, p) \/ p \in Format(v) \ {DarkModule(v)}))

\* The modules data goes to, in their order.
Free(v) == SelectSeq(Snake(v), LAMBDA p : ~Reserved(v, p))

Masks(m, p) ==
  LET r == p[1]  c == p[2]  rc == p[1] * p[2] IN
  CASE m = 0 -> (r + c) % 2 = 0
    [] m = 1 -> r % 2 = 0
    [] m = 2 -> c % 3 = 0
    [] m = 3 -> (r + c) % 3 = 0
    [] m = 4 -> ((r \div 2) + (c \div 3)) % 2 = 0
    [] m = 5 -> (rc % 2) + (rc % 3) = 0
    [] m = 6 -> ((rc % 2) + (rc % 3)) % 2 = 0
    [] m = 7 -> (((r + c) % 2) + (rc % 3)) % 2 = 0

Masked(modules, v, m) ==
  [p \in Grid(v) |-> IF ~Reserved(v, p) /\ Masks(m, p) THEN 1 - modules[p] ELSE modules[p]]

(***************************************************************************)
(* The penalty of a mask.                                                  *)
(***************************************************************************)
Lines(modules, v) ==
  [i \in 0..Size(v) - 1 |-> [j \in 1..Size(v) |-> modules[i, j - 1]]]
Columns(modules, v) ==
  [i \in 0..Size(v) - 1 |-> [j \in 1..Size(v) |-> modules[j - 1, i]]]

\* A run of n >= 5 costs n - 2.
lineRuns(line) ==
  LET fives == {i \in 1..Len(line) - 4 : \A k \in 1..4 : line[i + k] = line[i]}
  IN Cardinality(fives) + 2 * Cardinality({i \in fives : i = 1 \/ line[i - 1] # line[i]})

FinderLike == {<<0, 0, 0, 0, 1, 0, 1, 1, 1, 0, 1>>, <<1, 0, 1, 1, 1, 0, 1, 0, 0, 0, 0>>}
finderLikeRuns(line) ==
  40 * Cardinality({i \in 1..Len(line) - 10 : SubSeq(line, i, i + 10) \in FinderLike})

maskPenalty(modules, v) ==
  LET n == Size(v)
      lines == Lines(modules, v)
      columns == Columns(modules, v)
      Cost(line) == lineRuns(line) + finderLikeRuns(line)
      all == Fold(LAMBDA acc, i : acc + Cost(lines[i - 1]) + Cost(columns[i - 1]), 0, [i \in 1..n |-> i])
      squares == {p \in (0..n - 2) \X (0..n - 2) :
                    \A d \in {<<0, 1>>, <<1, 0>>, <<1, 1>>} : modules[p[1] + d[1], p[2] + d[2]] = modules[p]}
      dark == Cardinality({p \in Grid(v) : modules[p] = 1})
  IN all + 3 * Cardinality(squares) + 10 * (Far(100 * dark, 50 * n * n) \div (5 * n * n))

(***************************************************************************)
(* The format: five bits of data, ten of a BCH remainder, a mask over all. *)
(***************************************************************************)
bch15(data) ==
  LET Step(rem, i) == IF (rem \div 2^i) % 2 = 1 THEN rem ^^ (1335 * 2^(i - 10)) ELSE rem
  IN (1024 * data + Fold(Step, 1024 * data, <<14, 13, 12, 11, 10>>)) ^^ 21522
FormatBits(mask) == BitsOf(bch15(8 + mask), 15)

(***************************************************************************)
(* From a text to a code.                                                  *)
(***************************************************************************)
NoMask == [next |-> 0, best |-> 0, penalty |-> -1, modules |-> <<>>]

QrInit ==
  /\ qrText \in Texts /\ qrStage = "text" /\ qrVersion = VERSIONS_L[1]
  /\ codewords = <<>> /\ qrModules = <<>> /\ qrMask = NoMask

\* The smallest version with room for the bytes, mode, length and terminator.
Encode ==
  /\ qrStage = "text"
  /\ LET fitting == {i \in 1..6 : VERSIONS_L[i].data >= Len(qrText) + 2} IN
     IF fitting = {} THEN qrStage' = "error" /\ UNCHANGED <<qrVersion, codewords>>
     ELSE LET v == VERSIONS_L[CHOOSE i \in fitting : \A j \in fitting : i <= j] IN
          qrStage' = "codewords" /\ qrVersion' = v /\ codewords' = AllCodewords(qrText, v)
  /\ UNCHANGED <<qrText, qrModules, qrMask>>

\* Bits beyond the codewords are light.
Place ==
  /\ qrStage = "codewords" /\ qrStage' = "placed"
  /\ \E free \in {Free(qrVersion)} :
     LET At(p) == CHOOSE k \in 1..Len(free) : free[k] = p
         Bit(k) == IF k > 8 * Len(codewords) THEN 0
                   ELSE BitsOf(codewords[1 + ((k - 1) \div 8)], 8)[1 + ((k - 1) % 8)]
     IN qrModules' = [p \in Grid(qrVersion) |->
                        IF Reserved(qrVersion, p) THEN Drawn(qrVersion, p) ELSE Bit(At(p))]
  /\ UNCHANGED <<qrText, qrVersion, codewords, qrMask>>

\* One mask after the other; the first of those with the least penalty stays.
TryMask ==
  /\ qrStage = "placed"
  /\ \E masked \in {Masked(qrModules, qrVersion, qrMask.next)} :
     \E penalty \in {maskPenalty(masked, qrVersion)} :
       qrMask' = IF qrMask.penalty = -1 \/ penalty < qrMask.penalty
                 THEN [next |-> qrMask.next + 1, best |-> qrMask.next,
                       penalty |-> penalty, modules |-> masked]
                 ELSE [qrMask EXCEPT !.next = @ + 1]
  /\ qrStage' = IF qrMask.next = 7 THEN "masked" ELSE "placed"
  /\ UNCHANGED <<qrText, qrVersion, codewords, qrModules>>

\* The fifteen bits go to the first fifteen positions of both copies' list.
WriteFormat ==
  /\ qrStage = "masked" /\ qrStage' = "done"
  /\ LET positions == formatPositions(qrVersion).copy1 \o formatPositions(qrVersion).copy2
         At(p) == CHOOSE i \in 1..15 : positions[i] = p
     IN qrModules' = [p \in Grid(qrVersion) |->
                        IF \E i \in 1..15 : positions[i] = p THEN FormatBits(qrMask.best)[At(p)]
                        ELSE qrMask.modules[p]]
  /\ UNCHANGED <<qrText, qrVersion, codewords, qrMask>>

QrNext == Encode \/ Place \/ TryMask \/ WriteFormat

(***************************************************************************)
(* A reader of the code, who knows the standard and not the program.       *)
(***************************************************************************)
\* A polynomial, its highest coefficient first, at a point.
ValueAt(poly, x) == Fold(LAMBDA acc, c : gmul(acc, x) ^^ c, 0, poly)
Powers(n) == Fold(LAMBDA acc, i : Append(acc, Double(acc[i])), <<1>>, [i \in 1..n - 1 |-> i])
Codeword(block, ec) == \A x \in ToSet(Powers(ec)) : ValueAt(block, x) = 0

ReadMask(modules, v, copy) ==
  {m \in 0..7 : \A i \in 1..15 : modules[copy[i]] = FormatBits(m)[i]}

\* The codewords of a code under a mask, put back into their blocks.
ReadBlocks(modules, v, mask) ==
  LET free == Free(v)
      bits == [k \in 1..Len(free) |-> IF Masks(mask, free[k]) THEN 1 - modules[free[k]] ELSE modules[free[k]]]
      n == v.data + v.blocks * v.ec
      words == [i \in 1..n |-> Byte(bits, i)]
  IN [b \in 1..v.blocks |->
        [i \in 1..(n \div v.blocks) |-> words[(i - 1) * v.blocks + b]]]

\* Two formats differ in seven bits at least, so that three may be read wrongly.
FormatsApart ==
  \A a, b \in 0..31 : a # b =>
    Cardinality({i \in 1..15 : BitsOf(bch15(a), 15)[i] # BitsOf(bch15(b), 15)[i]}) >= 7

\* Every code that is drawn holds its codewords and at most seven modules more,
\* its blocks are words of the Reed-Solomon code, and it reads back as the text
\* it stands for, with a mask the format names, apart from every other format.
QrReads ==
  qrStage = "done" =>
    LET v == qrVersion
        masks == ReadMask(qrModules, v, formatPositions(v).copy1)
        blocks == ReadBlocks(qrModules, v, CHOOSE m \in masks : TRUE)
        per == v.data \div v.blocks
        Data(i) == blocks[1 + ((i - 1) \div per)][1 + ((i - 1) % per)]
    IN /\ Cardinality(masks) = 1
       /\ Len(Free(v)) - 8 * (v.data + v.blocks * v.ec) \in 0..7
       /\ \A b \in 1..v.blocks : Codeword(blocks[b], v.ec)
       /\ 16 * (Data(1) % 16) + (Data(2) \div 16) = Len(qrText) /\ Data(1) \div 16 = 4
       /\ FormatsApart
       /\ \A i \in 1..Len(qrText) : 16 * (Data(i + 1) % 16) + (Data(i + 2) \div 16) = qrText[i]

\* "format info written twice" (qr.mjs:341).  Refuted by TLC (README): the loop
\* ends with the first copy.
FormatTwice ==
  qrStage = "done" => ReadMask(qrModules, qrVersion, formatPositions(qrVersion).copy2) = {qrMask.best}
=============================================================================
