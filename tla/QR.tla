--------------------------------- MODULE QR ---------------------------------
(***************************************************************************)
(* The QR encoder of the subscription portal (internal/qr/qr.go): byte     *)
(* mode, level L, versions 1 to 5.  Encode chooses a version, makes the    *)
(* codewords, draws the function patterns, places the codewords, and tries *)
(* the eight masks, each undone before the next, to keep the best.         *)
(*                                                                         *)
(* A symbol is the set of its dark modules, each <<x, y>>, column and row. *)
(* Every loop that carries a value from one round to the next is a step.   *)
(***************************************************************************)
EXTENDS GaloisField, FiniteSets

CONSTANTS
  Text,   \* texts to encode, sequences of bytes
  None

ASSUME TextAssumption == Text \subseteq Seq(Byte)
ASSUME NoneAssumption == None \notin Nat

VARIABLES
  stage,    \* where Encode is
  text,     \* what it encodes
  version,  \* the version chosen
  bytes,    \* the data codewords
  gen,      \* the generator's coefficients
  rem,      \* the remainder, at the end the error correction codewords
  step,     \* rounds of the current loop that are done
  dark,     \* the symbol
  isFunc,   \* its modules that no data goes to
  placed,   \* history: the symbol as placeData left it
  best,     \* the best mask so far
  least     \* and its penalty

codeVars == <<version, bytes, gen, rem>>
tables == <<gfExp, gfLog>>
vars == <<tables, stage, text, codeVars, step, dark, isFunc, placed, best, least>>
-----------------------------------------------------------------------------
Version == 1 .. 5
DataCodewords == <<19, 34, 55, 80, 108>>
EcCodewords   == <<7, 10, 15, 20, 26>>
AlignCenter   == <<0, 18, 22, 26, 30>>

Size(v) == 17 + 4 * v
Grid(v) == (0 .. Size(v) - 1) \X (0 .. Size(v) - 1)

Abs(n) == IF n < 0 THEN -n ELSE n
Larger(m, n) == IF m < n THEN n ELSE m
Distance(p, c) == Larger(Abs(p[1] - c[1]), Abs(p[2] - c[2]))
-----------------------------------------------------------------------------
(***************************************************************************)
(* Data codewords.                                                         *)
(***************************************************************************)
\* Mutant: the header is not counted.
FitsWithoutHeader(n, v) == 8 * n <= 8 * DataCodewords[v]

\* Mode, count and text in the data codewords.
Fits(n, v) == 4 + 8 + 8 * n <= 8 * DataCodewords[v]

\* The bits are the mode 0100, the count, the text and a terminator of four
\* zeros; there is always room for four, and then no bits are missing to a byte
\* boundary.  So every byte of count and text is split between two codewords.
CountByte(n) == {b \in Bit : (n \div 2 ^ b) % 2 = 1}
HighHalf(b) == {i - 4 : i \in b \cap 4 .. 7}
LowHalf(b)  == {i + 4 : i \in b \cap 0 .. 3}

\* 0xEC and 0x11 in turn.
PadByte(i) == IF i % 2 = 0 THEN {2, 3, 5, 6, 7} ELSE {0, 4}

DataBytes(t, v) ==
  LET all == <<CountByte(Len(t))>> \o t
      first(k)  == IF k = 1 THEN {6} ELSE LowHalf(all[k - 1])
      second(k) == IF k <= Len(all) THEN HighHalf(all[k]) ELSE {}
  IN  [k \in 1 .. Larger(DataCodewords[v], Len(all) + 1) |->
         IF k <= Len(all) + 1 THEN first(k) \cup second(k)
         ELSE PadByte(k - Len(all) - 2)]
-----------------------------------------------------------------------------
(***************************************************************************)
(* Function patterns.  What is drawn later covers what was there.          *)
(***************************************************************************)
Timing(v) == {p \in Grid(v) : p[1] = 6 \/ p[2] = 6}
Finders(v) == {<<3, 3>>, <<Size(v) - 4, 3>>, <<3, Size(v) - 4>>}
FinderArea(v) == {p \in Grid(v) : \E c \in Finders(v) : Distance(p, c) <= 4}
Aligned(v) ==
  IF v = 1 THEN {} ELSE {<<AlignCenter[v], AlignCenter[v]>>}
AlignArea(v) == {p \in Grid(v) : \E c \in Aligned(v) : Distance(p, c) <= 2}
DarkModule(v) == <<8, Size(v) - 8>>

\* The dark modules of the function patterns.
Patterns(v) ==
  LET timing == {p \in Timing(v) : (p[1] + p[2]) % 2 = 0}
      finder == {p \in FinderArea(v) :
                   \E c \in Finders(v) : Distance(p, c) \in {0, 1, 3}}
      align  == {p \in AlignArea(v) : \E c \in Aligned(v) : Distance(p, c) # 1}
  IN  (((timing \ FinderArea(v)) \cup finder) \ AlignArea(v)) \cup align
        \cup {DarkModule(v)}

\* reserveFormat
FormatArea(v) ==
  LET far == Size(v) - 8 .. Size(v) - 1
  IN  ({8} \X (((0 .. 8) \ {6}) \cup (far \ {Size(v) - 8})))
        \cup ((((0 .. 7) \ {6}) \cup far) \X {8})

FunctionArea(v) ==
  Timing(v) \cup FinderArea(v) \cup AlignArea(v) \cup {DarkModule(v)}
    \cup FormatArea(v)
-----------------------------------------------------------------------------
(***************************************************************************)
(* Placing the codewords: column pairs from the right, upwards and         *)
(* downwards.                                                              *)
(***************************************************************************)
\* Mutant: the column of the timing pattern is not skipped.
RightUnskipped(v, k) == Size(v) - 1 - 2 * k

\* The right column of the k-th pair, from 0; the pair at 6 moves to 5.
Right(v, k) == LET r == Size(v) - 1 - 2 * k IN IF r <= 6 THEN r - 1 ELSE r

Upward(right) == ((right + 1) \div 2) % 2 = 0

\* The i-th module the loops come to, from 0.
Visited(v, i) ==
  LET right == Right(v, i \div (2 * Size(v)))
      vert  == (i % (2 * Size(v))) \div 2
  IN  <<right - (i % 2), IF Upward(right) THEN Size(v) - 1 - vert ELSE vert>>

\* The visits to data modules.
DataVisits(v) ==
  {i \in 0 .. Size(v) * (Size(v) - 1) - 1 : Visited(v, i) \notin isFunc}

\* The data modules that come out dark: each visit takes the next bit, as far as
\* there are bits (the last few modules of some versions get none).
Placed(v, codewords) ==
  LET visits == DataVisits(v)
      bit(i) == Cardinality({k \in visits : k < i})
      one(b) == /\ b < 8 * Len(codewords)
                /\ 7 - (b % 8) \in codewords[b \div 8 + 1]
  IN  {Visited(v, i) : i \in {j \in visits : one(bit(j))}}
-----------------------------------------------------------------------------
(***************************************************************************)
(* Masks and format information.                                           *)
(***************************************************************************)
Mask == 0 .. 7

Inverts(m, x, y) ==
  CASE m = 0 -> (x + y) % 2 = 0
    [] m = 1 -> y % 2 = 0
    [] m = 2 -> x % 3 = 0
    [] m = 3 -> (x + y) % 3 = 0
    [] m = 4 -> (y \div 2 + x \div 3) % 2 = 0
    [] m = 5 -> ((x * y) % 2) + ((x * y) % 3) = 0
    [] m = 6 -> (((x * y) % 2) + ((x * y) % 3)) % 2 = 0
    [] m = 7 -> (((x + y) % 2) + ((x * y) % 3)) % 2 = 0

\* 0x537 and 0x5412
FormatPoly == {0, 1, 2, 4, 5, 8, 10}
FormatXor  == {1, 4, 10, 12, 14}

\* Level L and the mask, five bits.
FormatData(m) == {3} \cup {b \in 0 .. 2 : (m \div 2 ^ b) % 2 = 1}

\* One round of the division by FormatPoly.
FormatStep ==
  [r \in SUBSET (0 .. 9) |->
     IF 9 \in r THEN Xor(Shifted(r), FormatPoly) ELSE Shifted(r)]

FormatRem(data) ==
  LET after[i \in 0 .. 10] ==
        IF i = 0 THEN data ELSE FormatStep[after[i - 1]]
  IN  after[10]

FormatWord(m) ==
  LET data == FormatData(m)
  IN  Xor({i + 10 : i \in data} \cup FormatRem(data), FormatXor)

\* Where bit i goes.
FirstCopy(i) ==
  CASE i <= 5 -> <<8, i>>
    [] i = 6  -> <<8, 7>>
    [] i = 7  -> <<8, 8>>
    [] i = 8  -> <<7, 8>>
    [] i >= 9 -> <<14 - i, 8>>

SecondCopy(v, i) ==
  IF i <= 7 THEN <<8, Size(v) - 1 - i>> ELSE <<Size(v) - 15 + i, 8>>

FormatCells(v, S) == {FirstCopy(i) : i \in S} \cup {SecondCopy(v, i) : i \in S}

\* Mutant: the dark module, which bit 7 goes over, is not restored.
FormattedOver(d, v, m) ==
  LET cells == FormatCells(v, 0 .. 14)
      ones  == FormatCells(v, FormatWord(m))
  IN  {p \in Grid(v) : IF p \in cells THEN p \in ones ELSE p \in d}

\* setFormatBits
Formatted(d, v, m) ==
  LET cells == FormatCells(v, 0 .. 14)
      ones  == FormatCells(v, FormatWord(m)) \cup {DarkModule(v)}
  IN  {p \in Grid(v) : IF p \in cells THEN p \in ones ELSE p \in d}

\* applyMask
Masked(d, v, m) ==
  {p \in Grid(v) : (p \in d) # (p \notin isFunc /\ Inverts(m, p[1], p[2]))}
-----------------------------------------------------------------------------
(***************************************************************************)
(* Penalty.                                                                *)
(***************************************************************************)
Direction == {<<1, 0>>, <<0, 1>>}
Along(p, dir, i) == <<p[1] + i * dir[1], p[2] + i * dir[2]>>

\* Starts of five modules of one colour.  A run of n has n - 4 of them, and
\* counts n - 2.
Fives(d, v, dir) ==
  {p \in Grid(v) : /\ Along(p, dir, 4) \in Grid(v)
                   /\ \A i \in 1 .. 4 : (Along(p, dir, i) \in d) = (p \in d)}
RunPenalty(d, v, dir) ==
  LET fives == Fives(d, v, dir)
  IN  Cardinality(fives)
        + 2 * Cardinality({p \in fives : Along(p, dir, -1) \notin fives})

Blocks(d, v) ==
  {p \in Grid(v) :
     /\ p[1] < Size(v) - 1 /\ p[2] < Size(v) - 1
     /\ \A q \in {<<1, 0>>, <<0, 1>>, <<1, 1>>} :
          (<<p[1] + q[1], p[2] + q[2]>> \in d) = (p \in d)}

HasFinderLike(d, v, p, dir) ==
  /\ Along(p, dir, 10) \in Grid(v)
  /\ \A i \in 0 .. 10 : (Along(p, dir, i) \in d) = (i \in {0, 2, 3, 4, 6})

FinderLike(d, v) ==
  {q \in Grid(v) \X Direction : HasFinderLike(d, v, q[1], q[2])}

Imbalance(d, v) ==
  LET total == Size(v) * Size(v)
  IN  (Abs(20 * Cardinality(d) - 10 * total) + total - 1) \div total

Penalty(d, v) ==
  RunPenalty(d, v, <<1, 0>>) + RunPenalty(d, v, <<0, 1>>)
    + 3 * Cardinality(Blocks(d, v)) + 40 * Cardinality(FinderLike(d, v))
    + 10 * Imbalance(d, v)
-----------------------------------------------------------------------------
(***************************************************************************)
(* Encode.                                                                 *)
(***************************************************************************)
Init ==
  /\ TablesInit
  /\ stage = "tables" /\ text = <<>> /\ version = 1 /\ bytes = <<>>
  /\ gen = <<>> /\ rem = <<>> /\ step = 0
  /\ dark = {} /\ isFunc = {} /\ placed = {} /\ best = None /\ least = None

\* The package's init.
FillTable ==
  /\ stage = "tables"
  /\ FillTables(step)
  /\ IF step < 254 THEN step' = step + 1 /\ UNCHANGED stage
     ELSE step' = 0 /\ stage' = "idle"
  /\ UNCHANGED <<text, codeVars, dark, isFunc, placed, best, least>>

\* Nothing happens to a text that fits no version; Encode returns an error.
Begin(t) ==
  /\ stage = "idle"
  /\ \E v \in Version :
       /\ Fits(Len(t), v) /\ \A w \in 1 .. v - 1 : ~Fits(Len(t), w)
       /\ version' = v
       /\ bytes' = DataBytes(t, v)
       /\ gen' = One(EcCodewords[v])
  /\ text' = t /\ stage' = "generator"
  /\ UNCHANGED <<rem, step, dark, isFunc, placed, best, least>>

\* rsGenerator
Generate ==
  /\ stage = "generator" /\ step < Len(gen)
  /\ gen' = TimesRoot(gen, gfExp[step], Len(gen))
  /\ step' = step + 1
  /\ UNCHANGED <<stage, text, version, bytes, rem, dark, isFunc, placed, best, least>>

Generated ==
  /\ stage = "generator" /\ step = Len(gen)
  /\ stage' = "divide" /\ step' = 0
  /\ rem' = Zero(Len(gen))
  /\ UNCHANGED <<text, version, bytes, gen, dark, isFunc, placed, best, least>>

\* reedSolomon
Divide ==
  /\ stage = "divide" /\ step < Len(bytes)
  /\ rem' = Divided(rem, bytes[step + 1], gen)
  /\ step' = step + 1
  /\ UNCHANGED <<stage, text, version, bytes, gen, dark, isFunc, placed, best, least>>

DrawFunctionPatterns ==
  /\ stage = "divide" /\ step = Len(bytes)
  /\ stage' = "place" /\ step' = 0
  /\ dark' = Patterns(version)
  /\ isFunc' = FunctionArea(version)
  /\ UNCHANGED <<text, codeVars, placed, best, least>>

Codewords == bytes \o rem

PlaceData ==
  /\ stage = "place"
  /\ stage' = "mask"
  /\ dark' = dark \cup Placed(version, Codewords)
  /\ placed' = dark'
  /\ UNCHANGED <<text, codeVars, isFunc, step, best, least>>

\* applyBestMask: every mask is applied, weighed and undone.
TryMask ==
  /\ stage = "mask" /\ step \in Mask
  /\ stage' = "weigh"
  /\ dark' = Formatted(Masked(dark, version, step), version, step)
  /\ UNCHANGED <<text, codeVars, isFunc, placed, step, best, least>>

\* Mutant: the mask is left on when it is not the best so far.
UnmaskedIfBetter(d, v, m) == IF best = m THEN Masked(d, v, m) ELSE d

Unmasked(d, v, m) == Masked(d, v, m)

\* Mutant: the comparison is the wrong way round.
Worse(p) == least = None \/ p > least

Better(p) == least = None \/ p < least

Weigh ==
  /\ stage = "weigh"
  /\ stage' = "mask" /\ step' = step + 1
  /\ LET p == Penalty(dark, version)
     IN  IF Better(p)
         THEN best' = step /\ least' = p
         ELSE UNCHANGED <<best, least>>
  /\ dark' = Unmasked(dark, version, step)
  /\ UNCHANGED <<text, codeVars, isFunc, placed>>

ApplyBest ==
  /\ stage = "mask" /\ step \notin Mask
  /\ stage' = "done"
  /\ dark' = Formatted(Masked(dark, version, best), version, best)
  /\ UNCHANGED <<text, codeVars, isFunc, placed, step, best, least>>

Return ==
  /\ stage = "done"
  /\ stage' = "idle" /\ text' = <<>> /\ version' = 1 /\ bytes' = <<>>
  /\ gen' = <<>> /\ rem' = <<>> /\ step' = 0
  /\ dark' = {} /\ isFunc' = {} /\ placed' = {} /\ best' = None /\ least' = None

Encode ==
  \/ \E t \in Text : Begin(t)
  \/ Generate \/ Generated \/ Divide \/ DrawFunctionPatterns \/ PlaceData
  \/ TryMask \/ Weigh \/ ApplyBest \/ Return

Next == FillTable \/ (Encode /\ UNCHANGED tables)

Spec == Init /\ [][Next]_vars
-----------------------------------------------------------------------------
(***************************************************************************)
(* A reader, written from the standard and not from the encoder.           *)
(***************************************************************************)

\* The bits of the value of the polynomial cw at the j-th power of x.
ValueAt(cw, j) ==
  LET terms(t) ==
        {q \in (1 .. Len(cw)) \X Bit :
           /\ q[2] \in cw[q[1]]
           /\ t \in gfExp[(q[2] + j * (Len(cw) - q[1])) % 255]}
  IN  {t \in Bit : Cardinality(terms(t)) % 2 = 1}

\* The multiples of the format polynomial that have 15 bits.
FormatCode ==
  {{j \in 0 .. 14 : Cardinality({i \in q : j - i \in FormatPoly}) % 2 = 1} :
     q \in SUBSET (0 .. 4)}

\* Both copies, where the standard has them.
ReadFormat(d, v) ==
  LET top  == {i \in 0 .. 5 : <<8, i>> \in d}
               \cup {i \in 6 .. 7 : <<8, i + 1>> \in d}
      left == {i \in {8} : <<7, 8>> \in d} \cup {i \in 9 .. 14 : <<14 - i, 8>> \in d}
      right  == {i \in 0 .. 7 : <<Size(v) - 1 - i, 8>> \in d}
      bottom == {i \in 8 .. 14 : <<8, Size(v) - 15 + i>> \in d}
  IN  {Xor(top \cup left, FormatXor), Xor(right \cup bottom, FormatXor)}

\* What the format words nearest to either copy say.
NearestFormats(d, v) ==
  LET off(w) == {Cardinality(Xor(w, c)) : c \in ReadFormat(d, v)}
      nearest == {w \in FormatCode :
                    \E n \in off(w) : \A u \in FormatCode : \A k \in off(u) : n <= k}
  IN  {[level |-> w \cap {13, 14},
        mask  |-> CHOOSE m \in Mask : CountByte(m) = {i - 10 : i \in w \cap 10 .. 12}] :
         w \in nearest}

\* Mask m inverts row i, column j.
StandardMask(m, i, j) ==
  CASE m = 0 -> (i + j) % 2 = 0          [] m = 1 -> i % 2 = 0
    [] m = 2 -> j % 3 = 0                [] m = 3 -> (i + j) % 3 = 0
    [] m = 4 -> (i \div 2 + j \div 3) % 2 = 0
    [] m = 5 -> (i * j) % 6 = 0          [] m = 6 -> (i * j) % 6 < 3
    [] m = 7 -> (i + j + ((i * j) % 3)) % 2 = 0

\* The data modules in reading order: pairs of columns, leaving out column 6,
\* every other one upwards, each numbered by the modules up to it.
ReadingOrder(v) ==
  LET pair(k) == k \div (2 * Size(v))
      col(k)  == Size(v) - 2 - 2 * pair(k) - (k % 2)
      row(k)  == (k % (2 * Size(v))) \div 2
      cell(k) == <<IF col(k) < 6 THEN col(k) ELSE col(k) + 1,
                   IF pair(k) % 2 = 0 THEN Size(v) - 1 - row(k) ELSE row(k)>>
      data == {k \in 0 .. Size(v) * (Size(v) - 1) - 1 : cell(k) \notin FunctionArea(v)}
      numbered == {<<Cardinality({j \in data : j <= k}), cell(k)>> : k \in data}
  IN  [n \in 1 .. Cardinality(data) |-> (CHOOSE q \in numbered : q[1] = n)[2]]

\* Eight bits of the symbol from bit i on.
ReadByte(d, order, m, i) ==
  {b \in Bit : LET p == order[i + 8 - b]
               IN  (p \in d) # StandardMask(m, p[2], p[1])}

Number(b) == CHOOSE n \in 0 .. 255 : CountByte(n) = b

ReadBytes(d, order, m) ==
  [k \in 1 .. Len(order) \div 8 |-> ReadByte(d, order, m, 8 * (k - 1))]

ReadText(d, order, m) ==
  [k \in 1 .. Number(ReadByte(d, order, m, 4)) |->
     ReadByte(d, order, m, 4 + 8 * k)]
-----------------------------------------------------------------------------
(***************************************************************************)
(* Properties.                                                             *)
(***************************************************************************)

\* Every variable holds what the code's types allow; codewords are bytes and the
\* symbol lies within its grid.
TypeOK ==
  /\ gfExp \in [0 .. 254 -> Byte] /\ gfLog \in [Byte -> 0 .. 254]
  /\ stage \in {"tables", "idle", "generator", "divide", "place", "mask", "weigh", "done"}
  /\ text \in Text \cup {<<>>} /\ version \in Version
  /\ bytes \in Seq(Byte) /\ gen \in Seq(Byte) /\ rem \in Seq(Byte)
  /\ stage \notin {"tables", "idle"} => Len(bytes) = DataCodewords[version]
  /\ step \in 0 .. 254
  /\ dark \cup isFunc \cup placed \subseteq Grid(version)
  /\ best \in Mask \cup {None} /\ least \in Nat \cup {None}

\* "a scannable code": a reader that follows the standard - the format word next
\* to either copy, the mask it names, the zigzag, the header - reads the encoded
\* text from the finished symbol, and all codewords, the correction's included.
ReadsBack ==
  stage = "done" =>
    \A f \in NearestFormats(dark, version), order \in {ReadingOrder(version)} :
      /\ f.level = {13}
      /\ ReadText(dark, order, f.mask) = text
      /\ ReadBytes(dark, order, f.mask) = Codewords

\* The codewords are a Reed-Solomon code word: as a polynomial they vanish at
\* the first powers of x, as many as there are error correction codewords.
Correctable ==
  stage = "place" =>
    \A j \in 0 .. EcCodewords[version] - 1 : ValueAt(Codewords, j) = {}

\* Finders, timing, alignment and the dark module stay as they were drawn, under
\* the data, all masks and the format bits, whose second copy goes over the dark
\* module.
PatternsKept ==
  stage \in {"place", "mask", "weigh", "done"} =>
    LET fixed == FunctionArea(version) \ FormatArea(version)
    IN  dark \cap fixed = Patterns(version) \cap fixed

\* Masks do not pile up: between two masks the data modules are as placed.
UnmaskedBetween ==
  stage = "mask" => dark \ isFunc = placed \ isFunc

\* The symbol under mask m alone, with its format bits.
Under(m) == Formatted(Masked(placed, version, m), version, m)

\* The finished symbol is the placed one under one mask alone, and no mask has a
\* lesser penalty: what the other seven drew over it, and what each left in the
\* format bits, has entered neither the result nor the choice (applyBestMask).
BestMask ==
  stage = "done" =>
    /\ best \in Mask /\ dark = Under(best)
    /\ \A m \in Mask : Penalty(Under(best), version) <= Penalty(Under(m), version)
=============================================================================
