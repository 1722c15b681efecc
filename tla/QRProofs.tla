------------------------------- MODULE QRProofs ------------------------------
(***************************************************************************)
(* Proofs about QR, for every set of texts: the types; that the codewords  *)
(* are a code word; that the zigzag comes to every module once; that data, *)
(* masks and format bits leave the function patterns as they were drawn;   *)
(* that masks do not pile up, and that the one left on is the best of the  *)
(* eight; that a reader gets the text back out of the symbol.              *)
(***************************************************************************)
EXTENDS QR, GaloisFieldProofs, SequenceTheorems
-----------------------------------------------------------------------------
(***************************************************************************)
(* The symbol.                                                             *)
(***************************************************************************)
\* Five versions, five sizes.
LEMMA Sizes ==
  ASSUME NEW v \in Version
  PROVE  /\ Size(v) \in 21 .. 37
         /\ Size(v) \in {21, 25, 29, 33, 37}
         /\ EcCodewords[v] \in 7 .. 26
         /\ DataCodewords[v] \in 19 .. 108
<1>1. v \in {1, 2, 3, 4, 5}
  BY DEF Version
<1>2. Size(v) \in {21, 25, 29, 33, 37}
  BY <1>1 DEF Size
<1>3. /\ EcCodewords[1] = 7 /\ EcCodewords[2] = 10 /\ EcCodewords[3] = 15
      /\ EcCodewords[4] = 20 /\ EcCodewords[5] = 26
  BY DEF EcCodewords
<1>4. /\ DataCodewords[1] = 19 /\ DataCodewords[2] = 34 /\ DataCodewords[3] = 55
      /\ DataCodewords[4] = 80 /\ DataCodewords[5] = 108
  BY DEF DataCodewords
<1>5. EcCodewords[v] \in 7 .. 26 /\ DataCodewords[v] \in 19 .. 108
  BY <1>1, <1>3, <1>4
<1> QED
  BY <1>2, <1>5

\* The symbol is finite.
LEMMA GridFinite ==
  ASSUME NEW v \in Version
  PROVE  IsFiniteSet(Grid(v))
<1>1. Size(v) - 1 \in Int
  BY Sizes
<1>2. IsFiniteSet(0 .. Size(v) - 1)
  BY <1>1, FS_Interval
<1> QED
  BY <1>2, FS_Product DEF Grid

\* A module is a column and a row.
LEMMA GridIs ==
  ASSUME NEW v, NEW x, NEW y
  PROVE  <<x, y>> \in Grid(v) <=> x \in 0 .. Size(v) - 1 /\ y \in 0 .. Size(v) - 1
BY DEF Grid

\* The cell that carries the dark module.
LEMMA DarkModuleIs ==
  ASSUME NEW v \in Version
  PROVE  /\ DarkModule(v) \in Grid(v)
         /\ DarkModule(v) \in Patterns(v)
         /\ DarkModule(v) \in FunctionArea(v)
<1>1. 8 \in 0 .. Size(v) - 1 /\ Size(v) - 8 \in 0 .. Size(v) - 1
  BY Sizes
<1>2. DarkModule(v) \in Grid(v)
  BY <1>1, GridIs DEF DarkModule
<1> QED
  BY <1>2 DEF Patterns, FunctionArea

\* The function patterns lie within the symbol.
LEMMA AreasInGrid ==
  ASSUME NEW v \in Version
  PROVE  Patterns(v) \subseteq Grid(v) /\ FunctionArea(v) \subseteq Grid(v)
<1>1. Timing(v) \subseteq Grid(v) /\ FinderArea(v) \subseteq Grid(v)
      /\ AlignArea(v) \subseteq Grid(v)
  BY DEF Timing, FinderArea, AlignArea
<1>2. FormatArea(v) \subseteq Grid(v)
  BY Sizes DEF FormatArea, Grid
<1>3. Patterns(v) \subseteq Grid(v)
  BY <1>1, DarkModuleIs DEF Patterns
<1> QED
  BY <1>1, <1>2, <1>3, DarkModuleIs DEF FunctionArea

\* What setFormatBits writes are the reserved modules and the dark module, that
\* its second copy comes over.
LEMMA FormatCellsAre ==
  ASSUME NEW v \in Version, NEW S, S \subseteq 0 .. 14
  PROVE  FormatCells(v, S) \subseteq FormatArea(v) \cup {DarkModule(v)}
<1>1. ASSUME NEW i \in 0 .. 14
      PROVE  FirstCopy(i) \in FormatArea(v)
  <2>1. CASE i <= 5
    <3>1. FirstCopy(i) = <<8, i>> /\ i \in (0 .. 8) \ {6}
      BY <2>1 DEF FirstCopy
    <3> QED
      BY <3>1 DEF FormatArea
  <2>2. CASE i = 6
    <3>1. FirstCopy(i) = <<8, 7>>
      BY <2>2 DEF FirstCopy
    <3> QED
      BY <3>1 DEF FormatArea
  <2>3. CASE i = 7
    <3>1. FirstCopy(i) = <<8, 8>>
      BY <2>3 DEF FirstCopy
    <3> QED
      BY <3>1 DEF FormatArea
  <2>4. CASE i = 8
    <3>1. FirstCopy(i) = <<7, 8>>
      BY <2>4 DEF FirstCopy
    <3> QED
      BY <3>1 DEF FormatArea
  <2>5. CASE i >= 9
    <3>1. FirstCopy(i) = <<14 - i, 8>> /\ 14 - i \in (0 .. 7) \ {6}
      BY <2>5 DEF FirstCopy
    <3> QED
      BY <3>1 DEF FormatArea
  <2> QED
    BY <2>1, <2>2, <2>3, <2>4, <2>5
<1>2. ASSUME NEW i \in 0 .. 14
      PROVE  SecondCopy(v, i) \in FormatArea(v) \cup {DarkModule(v)}
  <2>1. CASE i < 7
    <3>1. SecondCopy(v, i) = <<8, Size(v) - 1 - i>>
          /\ Size(v) - 1 - i \in (Size(v) - 8 .. Size(v) - 1) \ {Size(v) - 8}
      BY <2>1, Sizes DEF SecondCopy
    <3> QED
      BY <3>1 DEF FormatArea
  <2>2. CASE i = 7
    BY <2>2, Sizes DEF SecondCopy, DarkModule
  <2>3. CASE i > 7
    <3>1. SecondCopy(v, i) = <<Size(v) - 15 + i, 8>>
          /\ Size(v) - 15 + i \in Size(v) - 8 .. Size(v) - 1
      BY <2>3, Sizes DEF SecondCopy
    <3> QED
      BY <3>1 DEF FormatArea
  <2> QED
    BY <2>1, <2>2, <2>3
<1> QED
  BY <1>1, <1>2 DEF FormatCells

\* The dark module is not one of the reserved ones.
LEMMA DarkModuleAlone ==
  ASSUME NEW v \in Version
  PROVE  DarkModule(v) \notin FormatArea(v)
BY Sizes DEF DarkModule, FormatArea

\* The placing loops stay within the symbol.
LEMMA VisitedInGrid ==
  ASSUME NEW v \in Version, NEW i \in 0 .. Size(v) * (Size(v) - 1) - 1
  PROVE  Visited(v, i) \in Grid(v)
<1>1. PICK n, k, r : n = Size(v) /\ k = i \div (2 * n) /\ r = i % (2 * n)
  OBVIOUS
<1>2. n \in {21, 25, 29, 33, 37} /\ i \in Nat /\ i < n * (n - 1)
  BY <1>1, Sizes
<1>3. k \in Nat /\ r \in Nat /\ 2 * k <= n - 3 /\ r < 2 * n
  <2>1. CASE n = 21
    BY <1>1, <1>2, <2>1
  <2>2. CASE n = 25
    BY <1>1, <1>2, <2>2
  <2>3. CASE n = 29
    BY <1>1, <1>2, <2>3
  <2>4. CASE n = 33
    BY <1>1, <1>2, <2>4
  <2>5. CASE n = 37
    BY <1>1, <1>2, <2>5
  <2> QED
    BY <1>2, <2>1, <2>2, <2>3, <2>4, <2>5
<1>4. PICK right : right = Right(v, k)
  OBVIOUS
<1>5. right \in 1 .. n - 1
  BY <1>1, <1>2, <1>3, <1>4 DEF Right
<1>6. PICK vert, side : vert = r \div 2 /\ side = i % 2
  OBVIOUS
<1>7. vert \in 0 .. n - 1 /\ side \in 0 .. 1
  BY <1>2, <1>3, <1>6
<1>8. Visited(v, i) = <<right - side, IF Upward(right) THEN n - 1 - vert ELSE vert>>
  BY <1>1, <1>4, <1>6 DEF Visited
<1>9. right - side \in 0 .. n - 1 /\ n - 1 - vert \in 0 .. n - 1
  BY <1>2, <1>5, <1>7
<1> QED
  BY <1>1, <1>7, <1>8, <1>9, GridIs

\* The loops count column pairs, rows and sides.
LEMMA VisitedIs ==
  ASSUME NEW v \in Version, NEW i \in 0 .. Size(v) * (Size(v) - 1) - 1
  PROVE  \E k \in 0 .. (Size(v) - 3) \div 2, vert \in 0 .. Size(v) - 1, side \in 0 .. 1 :
           /\ i = 2 * Size(v) * k + 2 * vert + side
           /\ Visited(v, i) =
                <<Right(v, k) - side,
                  IF Upward(Right(v, k)) THEN Size(v) - 1 - vert ELSE vert>>
<1>1. PICK n, k, r, vert, side :
        /\ n = Size(v) /\ k = i \div (2 * n) /\ r = i % (2 * n)
        /\ vert = r \div 2 /\ side = i % 2
  OBVIOUS
<1>2. n \in {21, 25, 29, 33, 37} /\ i \in Nat /\ i < n * (n - 1)
  BY <1>1, Sizes
<1>3. /\ k \in Nat /\ 2 * k <= n - 3 /\ vert \in 0 .. n - 1 /\ side \in 0 .. 1
      /\ i = 2 * n * k + 2 * vert + side
  <2>1. CASE n = 21
    BY <1>1, <1>2, <2>1
  <2>2. CASE n = 25
    BY <1>1, <1>2, <2>2
  <2>3. CASE n = 29
    BY <1>1, <1>2, <2>3
  <2>4. CASE n = 33
    BY <1>1, <1>2, <2>4
  <2>5. CASE n = 37
    BY <1>1, <1>2, <2>5
  <2> QED
    BY <1>2, <2>1, <2>2, <2>3, <2>4, <2>5
<1>4. k \in 0 .. (n - 3) \div 2
  BY <1>2, <1>3
<1>5. Visited(v, i) = <<Right(v, k) - side,
                        IF Upward(Right(v, k)) THEN n - 1 - vert ELSE vert>>
  BY <1>1 DEF Visited
<1> QED
  BY <1>1, <1>3, <1>4, <1>5

\* The columns of a pair are in no other pair, and column 6 is in none.
LEMMA PairsAreApart ==
  ASSUME NEW v \in Version, NEW k \in 0 .. (Size(v) - 3) \div 2,
         NEW l \in 0 .. (Size(v) - 3) \div 2, NEW s \in 0 .. 1, NEW t \in 0 .. 1
  PROVE  /\ Right(v, k) - s \in (0 .. Size(v) - 1) \ {6}
         /\ Right(v, k) - s = Right(v, l) - t => k = l /\ s = t
<1>1. PICK n : n = Size(v)
  OBVIOUS
<1>2. n \in {21, 25, 29, 33, 37} /\ k \in Nat /\ l \in Nat /\ 2 * k <= n - 3 /\ 2 * l <= n - 3
  BY <1>1, Sizes
<1>3. PICK a, b : a = Right(v, k) /\ b = Right(v, l)
  OBVIOUS
<1>4. /\ a = IF n - 1 - 2 * k <= 6 THEN n - 2 - 2 * k ELSE n - 1 - 2 * k
      /\ b = IF n - 1 - 2 * l <= 6 THEN n - 2 - 2 * l ELSE n - 1 - 2 * l
  BY <1>1, <1>2, <1>3 DEF Right
<1>5. a - s \in 0 .. n - 1 /\ a - s # 6
  <2>1. CASE n = 21
    BY <1>2, <1>4, <2>1
  <2>2. CASE n = 25
    BY <1>2, <1>4, <2>2
  <2>3. CASE n = 29
    BY <1>2, <1>4, <2>3
  <2>4. CASE n = 33
    BY <1>2, <1>4, <2>4
  <2>5. CASE n = 37
    BY <1>2, <1>4, <2>5
  <2> QED
    BY <1>2, <2>1, <2>2, <2>3, <2>4, <2>5
<1>6. a - s = b - t => k = l /\ s = t
  <2>1. CASE n = 21
    BY <1>2, <1>4, <2>1
  <2>2. CASE n = 25
    BY <1>2, <1>4, <2>2
  <2>3. CASE n = 29
    BY <1>2, <1>4, <2>3
  <2>4. CASE n = 33
    BY <1>2, <1>4, <2>4
  <2>5. CASE n = 37
    BY <1>2, <1>4, <2>5
  <2> QED
    BY <1>2, <2>1, <2>2, <2>3, <2>4, <2>5
<1> QED
  BY <1>1, <1>3, <1>5, <1>6

\* The zigzag comes to every module outside the timing column, and to each once:
\* no bit of a codeword is lost under a later one, and no data module is left out
\* before the bits are (placeData).
THEOREM EachModuleOnce ==
  ASSUME NEW v \in Version
  PROVE  /\ \A i, j \in 0 .. Size(v) * (Size(v) - 1) - 1 :
              Visited(v, i) = Visited(v, j) => i = j
         /\ {Visited(v, i) : i \in 0 .. Size(v) * (Size(v) - 1) - 1}
              = {p \in Grid(v) : p[1] # 6}
<1> DEFINE All == 0 .. Size(v) * (Size(v) - 1) - 1
<1>1. ASSUME NEW i \in All, NEW j \in All, Visited(v, i) = Visited(v, j)
      PROVE  i = j
  <2>1. PICK k \in 0 .. (Size(v) - 3) \div 2, x \in 0 .. Size(v) - 1, s \in 0 .. 1 :
          /\ i = 2 * Size(v) * k + 2 * x + s
          /\ Visited(v, i) =
               <<Right(v, k) - s, IF Upward(Right(v, k)) THEN Size(v) - 1 - x ELSE x>>
    BY VisitedIs
  <2>2. PICK l \in 0 .. (Size(v) - 3) \div 2, y \in 0 .. Size(v) - 1, t \in 0 .. 1 :
          /\ j = 2 * Size(v) * l + 2 * y + t
          /\ Visited(v, j) =
               <<Right(v, l) - t, IF Upward(Right(v, l)) THEN Size(v) - 1 - y ELSE y>>
    BY VisitedIs
  <2>3. Right(v, k) - s = Right(v, l) - t
    BY <1>1, <2>1, <2>2
  <2>4. k = l /\ s = t
    BY <2>3, PairsAreApart
  <2>5. PICK a, b : a = Size(v) - 1 - x /\ b = Size(v) - 1 - y
    OBVIOUS
  <2>6. a = b \/ x = y
    BY <1>1, <2>1, <2>2, <2>4, <2>5
  <2>7. x = y
    BY <2>5, <2>6, Sizes
  <2> QED
    BY <2>1, <2>2, <2>4, <2>7
<1>2. ASSUME NEW i \in All
      PROVE  Visited(v, i) \in Grid(v) /\ Visited(v, i)[1] # 6
  <2>1. Visited(v, i) \in Grid(v)
    BY VisitedInGrid
  <2>2. PICK k \in 0 .. (Size(v) - 3) \div 2, x \in 0 .. Size(v) - 1, s \in 0 .. 1 :
          Visited(v, i) =
            <<Right(v, k) - s, IF Upward(Right(v, k)) THEN Size(v) - 1 - x ELSE x>>
    BY VisitedIs
  <2>3. Right(v, k) - s # 6
    BY PairsAreApart
  <2> QED
    BY <2>1, <2>2, <2>3
<1>3. ASSUME NEW p \in Grid(v), p[1] # 6
      PROVE  \E i \in All : Visited(v, i) = p
  <2>1. PICK n, c, r : n = Size(v) /\ c = p[1] /\ r = p[2]
    OBVIOUS
  <2>2. /\ n \in {21, 25, 29, 33, 37} /\ c \in 0 .. n - 1 /\ r \in 0 .. n - 1
        /\ c # 6 /\ p = <<c, r>>
    BY <1>3, <2>1, Sizes DEF Grid
  <2>3. PICK s : s = IF c < 6 THEN 1 - (c % 2) ELSE c % 2
    OBVIOUS
  <2>4. PICK k : k = IF c < 6 THEN (n - 2 - (c + s)) \div 2 ELSE (n - 1 - (c + s)) \div 2
    OBVIOUS
  <2>5. PICK x : x = IF Upward(Right(v, k)) THEN n - 1 - r ELSE r
    OBVIOUS
  <2>6. PICK i : i = 2 * n * k + 2 * x + s
    OBVIOUS
  <2>7. s \in 0 .. 1 /\ x \in 0 .. n - 1
    BY <2>2, <2>3, <2>5
  <2>8. k \in Nat /\ 2 * k <= n - 3 /\ (IF c < 6 THEN n - 2 - 2 * k ELSE n - 1 - 2 * k) = c + s
    BY <2>2, <2>3, <2>4, <2>7
  <2>9. Right(v, k) = c + s
    <3>1. n - 1 - 2 * k <= 6 <=> c < 6
      BY <2>2, <2>3, <2>8
    <3> QED
      BY <2>1, <2>2, <2>8, <3>1 DEF Right
  <2>10. /\ i \in Int /\ 0 <= i /\ i < n * (n - 1)
         /\ i \div (2 * n) = k /\ (i % (2 * n)) \div 2 = x /\ i % 2 = s
    <3>1. CASE n = 21
      BY <2>6, <2>7, <2>8, <3>1
    <3>2. CASE n = 25
      BY <2>6, <2>7, <2>8, <3>2
    <3>3. CASE n = 29
      BY <2>6, <2>7, <2>8, <3>3
    <3>4. CASE n = 33
      BY <2>6, <2>7, <2>8, <3>4
    <3>5. CASE n = 37
      BY <2>6, <2>7, <2>8, <3>5
    <3> QED
      BY <2>2, <3>1, <3>2, <3>3, <3>4, <3>5
  <2>11. i \in All
    BY <2>1, <2>2, <2>10
  <2>12. Visited(v, i) = <<Right(v, k) - s, IF Upward(Right(v, k)) THEN n - 1 - x ELSE x>>
    BY <2>1, <2>10 DEF Visited
  <2>13. Right(v, k) - s = c /\ (IF Upward(Right(v, k)) THEN n - 1 - x ELSE x) = r
    BY <2>2, <2>5, <2>7, <2>9
  <2> QED
    BY <2>2, <2>11, <2>12, <2>13
<1> QED
  BY <1>1, <1>2, <1>3

\* Data goes to data modules only.
LEMMA PlacedIsData ==
  ASSUME NEW v \in Version, NEW c
  PROVE  Placed(v, c) \subseteq Grid(v) \ isFunc
BY VisitedInGrid DEF Placed, DataVisits

-----------------------------------------------------------------------------
(***************************************************************************)
(* Bytes, polynomials, codewords, penalties.                               *)
(***************************************************************************)
\* The tables are of bytes and exponents.
TablesOK == gfExp \in [0 .. 254 -> Byte] /\ gfLog \in [Byte -> 0 .. 254]

\* The sum of two exponents is reduced to an index of the table.
LEMMA GfMulIsByte ==
  ASSUME TablesOK, NEW a \in Byte, NEW b \in Byte
  PROVE  GfMul(a, b) \in Byte
<1>1. gfLog[a] \in 0 .. 254 /\ gfLog[b] \in 0 .. 254
  BY DEF TablesOK
<1>2. (gfLog[a] + gfLog[b]) % 255 \in 0 .. 254
  <2>1. PICK n : n = gfLog[a] + gfLog[b]
    OBVIOUS
  <2>2. n \in Int
    BY <1>1, <2>1
  <2>3. n % 255 \in 0 .. 254
    BY <2>2
  <2> QED
    BY <2>1, <2>3
<1>3. gfExp[(gfLog[a] + gfLog[b]) % 255] \in Byte
  BY <1>2 DEF TablesOK
<1>4. {} \in Byte
  BY DEF Byte
<1> QED
  BY <1>3, <1>4 DEF GfMul

\* A polynomial with d coefficients.
Poly(d) == [1 .. d -> Byte]

\* Its coefficients are a sequence of bytes.
LEMMA PolyIs ==
  ASSUME NEW d \in Nat, NEW p \in Poly(d)
  PROVE  p \in Seq(Byte) /\ Len(p) = d
BY DEF Poly

\* What rsGenerator and reedSolomon start from.
LEMMA FirstPolys ==
  ASSUME NEW d \in Nat
  PROVE  One(d) \in Poly(d) /\ Zero(d) \in Poly(d)
<1>1. {} \in Byte /\ {0} \in Byte
  BY DEF Byte, Bit
<1> QED
  BY <1>1 DEF One, Zero, Poly

\* A round of rsGenerator keeps the degree.
LEMMA TimesRootIs ==
  ASSUME TablesOK, NEW d \in Nat, NEW p \in Poly(d), NEW root \in Byte
  PROVE  TimesRoot(p, root, d) \in Poly(d)
<1>1. {} \in Byte
  BY DEF Byte
<1>2. ASSUME NEW j \in 1 .. d
      PROVE  Xor(GfMul(p[j], root), IF j < d THEN p[j + 1] ELSE {}) \in Byte
  <2>1. p[j] \in Byte /\ (IF j < d THEN p[j + 1] ELSE {}) \in Byte
    BY <1>1 DEF Poly
  <2>2. GfMul(p[j], root) \in Byte
    BY <2>1, GfMulIsByte
  <2> QED
    BY <2>1, <2>2, XorIsByte
<1> QED
  BY <1>2 DEF TimesRoot, Poly

\* A round of reedSolomon keeps the degree.
LEMMA DividedIs ==
  ASSUME TablesOK, NEW d \in Nat \ {0}, NEW p \in Poly(d), NEW g \in Poly(d),
         NEW b \in Byte
  PROVE  Divided(p, b, g) \in Poly(d)
<1> DEFINE factor == Xor(b, p[1])
           next(i) == IF i < Len(p) THEN p[i + 1] ELSE {}
<1>1. Len(p) = d
  BY PolyIs
<1>2. factor \in Byte
  <2>1. p[1] \in Byte
    BY DEF Poly
  <2> QED
    BY <2>1, XorIsByte
<1>3. ASSUME NEW i \in 1 .. d
      PROVE  Xor(next(i), GfMul(g[i], factor)) \in Byte
  <2>1. {} \in Byte
    BY DEF Byte
  <2>2. next(i) \in Byte /\ g[i] \in Byte
    BY <1>1, <2>1 DEF Poly
  <2>3. GfMul(g[i], factor) \in Byte
    BY <1>2, <2>2, GfMulIsByte
  <2> QED
    BY <2>2, <2>3, XorIsByte
<1>4. Divided(p, b, g) = [i \in 1 .. d |-> Xor(next(i), GfMul(g[i], factor))]
  BY <1>1 DEF Divided
<1> HIDE DEF factor, next
<1> QED
  BY <1>3, <1>4 DEF Poly

\* The data codewords of a text that fits: as many bytes as the version has.
LEMMA DataBytesAre ==
  ASSUME NEW v \in Version, NEW t \in Seq(Byte), Fits(Len(t), v)
  PROVE  DataBytes(t, v) \in Poly(DataCodewords[v])
<1>1. /\ Len(t) \in Nat /\ DataCodewords[v] \in Nat
      /\ Len(t) + 2 <= DataCodewords[v]
  <2>1. Len(t) \in Nat
    BY LenProperties
  <2>2. DataCodewords[v] \in 19 .. 108
    BY Sizes
  <2>3. PICK c, n : c = DataCodewords[v] /\ n = Len(t)
    OBVIOUS
  <2>4. c \in 19 .. 108 /\ n \in Nat /\ 4 + 8 + 8 * n <= 8 * c
    BY <2>1, <2>2, <2>3 DEF Fits
  <2>5. c \in Nat /\ n + 2 <= c
    BY <2>4
  <2> QED
    BY <2>1, <2>3, <2>5
<1> DEFINE all == <<CountByte(Len(t))>> \o t
           n == Len(t)
           first(k)  == IF k = 1 THEN {6} ELSE LowHalf(all[k - 1])
           second(k) == IF k <= Len(all) THEN HighHalf(all[k]) ELSE {}
           byte(k) == IF k <= Len(all) + 1 THEN first(k) \cup second(k)
                      ELSE PadByte(k - Len(all) - 2)
<1>2. CountByte(n) \in Byte
  BY DEF CountByte, Byte
<1>3. Len(all) = n + 1 /\ \A k \in 1 .. n + 1 : all[k] \in Byte
  <2>1. PICK head : head = <<CountByte(n)>>
    OBVIOUS
  <2>2. head \in Seq(Byte) /\ Len(head) = 1
    BY <1>2, <2>1
  <2>3. all = head \o t
    BY <2>1
  <2>4. head \o t \in Seq(Byte) /\ Len(head \o t) = Len(head) + Len(t)
    BY <2>2, ConcatProperties
  <2> HIDE DEF all
  <2>5. all \in Seq(Byte) /\ Len(all) = n + 1
    BY <1>1, <2>2, <2>3, <2>4
  <2>6. \A k \in 1 .. Len(all) : all[k] \in Byte
    BY <2>5
  <2> QED
    BY <2>5, <2>6
<1> HIDE DEF all
<1>4. Larger(DataCodewords[v], Len(all) + 1) = DataCodewords[v]
  BY <1>1, <1>3 DEF Larger
<1>5. \A b \in Byte : HighHalf(b) \in Byte /\ LowHalf(b) \in Byte
  BY DEF HighHalf, LowHalf, Byte, Bit
<1>6. {6} \in Byte /\ {} \in Byte /\ \A i : PadByte(i) \in Byte
  BY DEF Byte, Bit, PadByte
<1>7. \A a, b \in Byte : a \cup b \in Byte
  BY DEF Byte
<1>8. ASSUME NEW k \in 1 .. DataCodewords[v]
      PROVE  byte(k) \in Byte
  <2>1. CASE k <= Len(all) + 1
    <3>1. first(k) \in Byte
      BY <1>1, <1>3, <1>5, <1>6, <2>1
    <3>2. second(k) \in Byte
      BY <1>1, <1>3, <1>5, <1>6, <2>1
    <3> HIDE DEF first, second
    <3> QED
      BY <1>7, <2>1, <3>1, <3>2
  <2>2. CASE ~(k <= Len(all) + 1)
    BY <1>6, <2>2
  <2> QED
    BY <2>1, <2>2
<1>9. DataBytes(t, v) = [k \in 1 .. DataCodewords[v] |-> byte(k)]
  BY <1>4 DEF DataBytes, all
<1> HIDE DEF byte
<1> QED
  BY <1>8, <1>9 DEF Poly

\* A penalty is a number.
LEMMA PenaltyIsNat ==
  ASSUME NEW v \in Version, NEW d, d \subseteq Grid(v)
  PROVE  Penalty(d, v) \in Nat
<1>1. IsFiniteSet(Grid(v))
  BY GridFinite
<1>2. ASSUME NEW dir
      PROVE  RunPenalty(d, v, dir) \in Nat
  <2> DEFINE fives == Fives(d, v, dir)
             starts == {p \in fives : Along(p, dir, -1) \notin fives}
  <2>1. fives \subseteq Grid(v) /\ starts \subseteq Grid(v)
    BY DEF Fives
  <2>2. Cardinality(fives) \in Nat /\ Cardinality(starts) \in Nat
    BY <1>1, <2>1, FS_Subset, FS_CardinalityType
  <2>3. RunPenalty(d, v, dir) = Cardinality(fives) + 2 * Cardinality(starts)
    BY DEF RunPenalty
  <2> QED
    BY <2>2, <2>3
<1>3. Cardinality(Blocks(d, v)) \in Nat
  <2>1. Blocks(d, v) \subseteq Grid(v)
    BY DEF Blocks
  <2> QED
    BY <1>1, <2>1, FS_Subset, FS_CardinalityType
<1>4. Cardinality(FinderLike(d, v)) \in Nat
  <2>1. IsFiniteSet(Direction)
    <3>1. IsFiniteSet({<<1, 0>>} \cup {<<0, 1>>})
      BY FS_Singleton, FS_AddElement
    <3>2. Direction = {<<1, 0>>} \cup {<<0, 1>>}
      BY DEF Direction
    <3> QED
      BY <3>1, <3>2
  <2>2. IsFiniteSet(Grid(v) \X Direction)
    BY <1>1, <2>1, FS_Product
  <2>3. FinderLike(d, v) \subseteq Grid(v) \X Direction
    BY DEF FinderLike
  <2> QED
    BY <2>2, <2>3, FS_Subset, FS_CardinalityType
<1>5. Imbalance(d, v) \in Nat
  <2>1. PICK s, k : s = Size(v) /\ k = Cardinality(d)
    OBVIOUS
  <2>2. s \in {21, 25, 29, 33, 37} /\ k \in Nat
    BY <1>1, <2>1, Sizes, FS_Subset, FS_CardinalityType
  <2>3. PICK total, off : total = s * s /\ off = Abs(20 * k - 10 * total)
    OBVIOUS
  <2>4. total \in {441, 625, 841, 1089, 1369} /\ off \in Nat
    BY <2>2, <2>3 DEF Abs
  <2>5. (off + total - 1) \div total \in Nat
    BY <2>4
  <2> QED
    BY <2>1, <2>3, <2>5 DEF Imbalance
<1> QED
  BY <1>2, <1>3, <1>4, <1>5 DEF Penalty

-----------------------------------------------------------------------------
(***************************************************************************)
(* The types.  Beyond TypeOK: what the polynomials of a stage are, that    *)
(* the symbol is untouched until its patterns are drawn, and where the     *)
(* round counter is.                                                       *)
(***************************************************************************)
\* Encode has chosen a version.
Working == {"generator", "divide", "place", "mask", "weigh", "done"}

\* The patterns are drawn.
Drawn == {"place", "mask", "weigh", "done"}

\* Data, generator and remainder have the lengths of the version.
Polynomials ==
  /\ stage \in Working => /\ bytes \in Poly(DataCodewords[version])
                          /\ gen \in Poly(EcCodewords[version])
  /\ stage = "divide" => rem \in Poly(EcCodewords[version])

\* The reserved modules are those of the version, and not before they are drawn.
Drawing ==
  /\ stage \in Drawn => isFunc = FunctionArea(version)
  /\ stage \notin Drawn => dark = {} /\ isFunc = {} /\ placed = {}

\* The counter of each loop over the masks.
Rounds ==
  /\ stage = "place" => step = 0
  /\ stage = "mask" => step \in 0 .. 8
  /\ stage = "weigh" => step \in Mask

\* The inductive invariant.
TypeInv == TypeOK /\ Polynomials /\ Drawing /\ Rounds

\* A new process knows no tables and encodes nothing.
LEMMA TypeInit == Init => TypeInv
<1> SUFFICES ASSUME Init
             PROVE  TypeInv
  OBVIOUS
<1>1. gfExp \in [0 .. 254 -> Byte] /\ gfLog \in [Byte -> 0 .. 254]
  BY DEF Init, TablesInit, Byte
<1>2. <<>> \in Seq(Byte)
  OBVIOUS
<1>3. version \in Version /\ step \in 0 .. 254
  BY DEF Init, Version
<1>4. dark \cup isFunc \cup placed \subseteq Grid(version)
  BY DEF Init
<1>5. stage = "tables" /\ best = None /\ least = None /\ text = <<>>
      /\ bytes = <<>> /\ gen = <<>> /\ rem = <<>>
      /\ dark = {} /\ isFunc = {} /\ placed = {}
  BY DEF Init
<1>6. TypeOK
  BY <1>1, <1>2, <1>3, <1>4, <1>5 DEF TypeOK
<1> QED
  BY <1>5, <1>6 DEF TypeInv, Polynomials, Drawing, Rounds, Working, Drawn

\* A round of the tables writes a byte and its exponent.
LEMMA FillTableKeepsTypes ==
  ASSUME TypeInv, FillTable
  PROVE  TypeInv'
<1>1. TypeOK /\ step \in 0 .. 254 /\ stage = "tables"
  BY DEF TypeInv, TypeOK, FillTable
<1> DEFINE x == IF step = 0 THEN {0} ELSE Doubled(gfExp[step - 1])
<1>2. x \in Byte
  <2>1. {0} \in Byte
    BY DEF Byte, Bit
  <2>2. ASSUME step # 0
        PROVE  Doubled(gfExp[step - 1]) \in Byte
    <3>1. gfExp \in [0 .. 254 -> Byte]
      BY <1>1 DEF TypeOK
    <3>2. step - 1 \in 0 .. 254
      BY <1>1, <2>2
    <3>3. gfExp[step - 1] \in Byte
      BY <3>1, <3>2
    <3> QED
      BY <3>3, DoubledIsByte
  <2> QED
    BY <2>1, <2>2
<1>3. gfExp' = [gfExp EXCEPT ![step] = x] /\ gfLog' = [gfLog EXCEPT ![x] = step]
  BY DEF FillTable, FillTables
<1> HIDE DEF x
<1>4. gfExp' \in [0 .. 254 -> Byte] /\ gfLog' \in [Byte -> 0 .. 254]
  BY <1>1, <1>2, <1>3 DEF TypeOK
<1>5. step' \in 0 .. 254 /\ stage' \in {"tables", "idle"}
  BY <1>1 DEF FillTable
<1>6. UNCHANGED <<text, version, bytes, gen, rem, dark, isFunc, placed, best, least>>
  BY DEF FillTable, codeVars
<1>7. TypeOK'
  BY <1>1, <1>4, <1>5, <1>6 DEF TypeOK
<1>8. Drawing'
  BY <1>1, <1>5, <1>6 DEF TypeInv, Drawing, Drawn
<1> QED
  BY <1>5, <1>7, <1>8 DEF TypeInv, Polynomials, Rounds, Working

\* The version chosen has room for the text.
LEMMA BeginKeepsTypes ==
  ASSUME TypeInv, NEW t \in Text, Begin(t), UNCHANGED tables
  PROVE  TypeInv'
<1>1. PICK v \in Version : /\ Fits(Len(t), v) /\ version' = v
                           /\ bytes' = DataBytes(t, v)
                           /\ gen' = One(EcCodewords[v])
  BY DEF Begin
<1>2. t \in Seq(Byte)
  BY TextAssumption
<1>3. bytes' \in Poly(DataCodewords[v])
  BY <1>1, <1>2, DataBytesAre
<1>4. EcCodewords[v] \in Nat /\ DataCodewords[v] \in Nat
  BY Sizes
<1>5. gen' \in Poly(EcCodewords[v])
  BY <1>1, <1>4, FirstPolys
<1>6. bytes' \in Seq(Byte) /\ Len(bytes') = DataCodewords[v] /\ gen' \in Seq(Byte)
  BY <1>3, <1>4, <1>5, PolyIs
<1>7. /\ TypeOK /\ stage = "idle" /\ stage' = "generator" /\ text' = t
      /\ dark = {} /\ isFunc = {} /\ placed = {}
      /\ UNCHANGED <<rem, step, dark, isFunc, placed, best, least, gfExp, gfLog>>
  BY DEF TypeInv, Drawing, Drawn, Begin, tables
<1>8. dark' \cup isFunc' \cup placed' \subseteq Grid(version')
  BY <1>7
<1>9. TypeOK'
  BY <1>1, <1>6, <1>7, <1>8 DEF TypeOK
<1>10. Polynomials'
  BY <1>1, <1>3, <1>5, <1>7 DEF Polynomials
<1> QED
  BY <1>7, <1>9, <1>10 DEF TypeInv, Drawing, Rounds, Drawn

\* Multiplying by a root keeps the degree.
LEMMA GenerateKeepsTypes ==
  ASSUME TypeInv, Generate, UNCHANGED tables
  PROVE  TypeInv'
<1>1. /\ TypeOK /\ stage = "generator" /\ stage' = stage
      /\ step < Len(gen) /\ step' = step + 1
      /\ gen' = TimesRoot(gen, gfExp[step], Len(gen))
      /\ UNCHANGED <<text, version, bytes, rem, dark, isFunc, placed, best, least>>
  BY DEF TypeInv, Generate
<1>2. UNCHANGED <<gfExp, gfLog>>
  BY DEF tables
<1>3. TablesOK /\ step \in 0 .. 254 /\ version \in Version
  BY <1>1 DEF TypeOK, TablesOK
<1>4. EcCodewords[version] \in 7 .. 26
  BY <1>3, Sizes
<1>5. EcCodewords[version] \in Nat
  BY <1>4
<1>6. gen \in Poly(EcCodewords[version])
  BY <1>1 DEF TypeInv, Polynomials, Working
<1>7. Len(gen) = EcCodewords[version]
  BY <1>5, <1>6, PolyIs
<1>8. gfExp[step] \in Byte
  BY <1>3 DEF TablesOK
<1>9. gen' \in Poly(EcCodewords[version])
  BY <1>1, <1>3, <1>5, <1>6, <1>7, <1>8, TimesRootIs
<1>10. gen' \in Seq(Byte)
  BY <1>5, <1>9, PolyIs
<1>11. step' \in 0 .. 254
  <2>1. PICK d \in 7 .. 26 : d = Len(gen)
    BY <1>4, <1>7
  <2>2. step < d /\ step' = step + 1
    BY <1>1, <2>1
  <2> QED
    BY <1>3, <2>2
<1>12. TypeOK'
  BY <1>1, <1>2, <1>10, <1>11 DEF TypeOK
<1>13. Polynomials'
  BY <1>1, <1>9 DEF TypeInv, Polynomials, Working
<1> QED
  BY <1>1, <1>12, <1>13 DEF TypeInv, Drawing, Rounds, Drawn

\* The division starts from nothing.
LEMMA GeneratedKeepsTypes ==
  ASSUME TypeInv, Generated, UNCHANGED tables
  PROVE  TypeInv'
<1>1. /\ TypeOK /\ stage = "generator" /\ stage' = "divide" /\ step' = 0
      /\ rem' = Zero(Len(gen))
      /\ UNCHANGED <<text, version, bytes, gen, dark, isFunc, placed, best, least>>
  BY DEF TypeInv, Generated
<1>2. UNCHANGED <<gfExp, gfLog>>
  BY DEF tables
<1>3. version \in Version
  BY <1>1 DEF TypeOK
<1>4. EcCodewords[version] \in Nat
  BY <1>3, Sizes
<1>5. gen \in Poly(EcCodewords[version]) /\ bytes \in Poly(DataCodewords[version])
  BY <1>1 DEF TypeInv, Polynomials, Working
<1>6. rem' \in Poly(EcCodewords[version])
  BY <1>1, <1>4, <1>5, PolyIs, FirstPolys
<1>7. rem' \in Seq(Byte)
  BY <1>4, <1>6, PolyIs
<1>8. TypeOK'
  <2>1. /\ stage' \notin {"tables", "idle"} => Len(bytes') = DataCodewords[version']
        /\ bytes' \in Seq(Byte) /\ gen' \in Seq(Byte)
    BY <1>1 DEF TypeOK
  <2>2. dark' \cup isFunc' \cup placed' \subseteq Grid(version')
    BY <1>1 DEF TypeOK
  <2>3. gfExp' \in [0 .. 254 -> Byte] /\ gfLog' \in [Byte -> 0 .. 254]
    BY <1>1, <1>2 DEF TypeOK
  <2>4. /\ stage' \in {"tables", "idle", "generator", "divide", "place", "mask",
                       "weigh", "done"}
        /\ text' \in Text \cup {<<>>} /\ version' \in Version /\ step' \in 0 .. 254
        /\ best' \in Mask \cup {None} /\ least' \in Nat \cup {None}
    BY <1>1 DEF TypeOK
  <2> QED
    BY <1>7, <2>1, <2>2, <2>3, <2>4 DEF TypeOK
<1>9. Polynomials'
  BY <1>1, <1>5, <1>6 DEF Polynomials
<1> QED
  BY <1>1, <1>8, <1>9 DEF TypeInv, Drawing, Rounds, Drawn

\* A round of the division keeps the degree.
LEMMA DivideKeepsTypes ==
  ASSUME TypeInv, Divide, UNCHANGED tables
  PROVE  TypeInv'
<1>1. /\ TypeOK /\ stage = "divide" /\ stage' = stage
      /\ step < Len(bytes) /\ step' = step + 1
      /\ rem' = Divided(rem, bytes[step + 1], gen)
      /\ UNCHANGED <<text, version, bytes, gen, dark, isFunc, placed, best, least>>
  BY DEF TypeInv, Divide
<1>2. UNCHANGED <<gfExp, gfLog>>
  BY DEF tables
<1>3. TablesOK /\ step \in 0 .. 254 /\ version \in Version
  BY <1>1 DEF TypeOK, TablesOK
<1>4. EcCodewords[version] \in Nat \ {0} /\ DataCodewords[version] \in 19 .. 108
  BY <1>3, Sizes
<1>5. /\ gen \in Poly(EcCodewords[version]) /\ rem \in Poly(EcCodewords[version])
      /\ bytes \in Poly(DataCodewords[version])
  BY <1>1 DEF TypeInv, Polynomials, Working
<1>6. Len(bytes) = DataCodewords[version]
  BY <1>1 DEF TypeOK
<1>7. bytes[step + 1] \in Byte
  BY <1>1, <1>3, <1>4, <1>5, <1>6 DEF Poly
<1>8. rem' \in Poly(EcCodewords[version])
  BY <1>1, <1>3, <1>4, <1>5, <1>7, DividedIs
<1>9. rem' \in Seq(Byte)
  BY <1>4, <1>8, PolyIs
<1>10. step' \in 0 .. 254
  <2>1. PICK n : n = DataCodewords[version]
    OBVIOUS
  <2>2. n \in 19 .. 108 /\ step < n /\ step \in 0 .. 254
    BY <1>1, <1>3, <1>4, <1>6, <2>1
  <2> QED
    BY <1>1, <2>2
<1>11. TypeOK'
  BY <1>1, <1>2, <1>9, <1>10 DEF TypeOK
<1>12. Polynomials'
  BY <1>1, <1>5, <1>8 DEF Polynomials
<1> QED
  BY <1>1, <1>11, <1>12 DEF TypeInv, Drawing, Rounds, Drawn

\* The patterns lie within the symbol.
LEMMA DrawKeepsTypes ==
  ASSUME TypeInv, DrawFunctionPatterns, UNCHANGED tables
  PROVE  TypeInv'
<1>1. /\ TypeOK /\ stage = "divide" /\ stage' = "place" /\ step' = 0
      /\ dark' = Patterns(version) /\ isFunc' = FunctionArea(version)
      /\ UNCHANGED <<text, version, bytes, gen, rem, placed, best, least>>
  BY DEF TypeInv, DrawFunctionPatterns, codeVars
<1>2. UNCHANGED <<gfExp, gfLog>>
  BY DEF tables
<1>3. version \in Version /\ placed \subseteq Grid(version)
  BY <1>1 DEF TypeOK
<1>4. dark' \cup isFunc' \cup placed' \subseteq Grid(version')
  BY <1>1, <1>3, AreasInGrid
<1>5. TypeOK'
  <2>1. /\ stage' \notin {"tables", "idle"} => Len(bytes') = DataCodewords[version']
        /\ bytes' \in Seq(Byte) /\ gen' \in Seq(Byte) /\ rem' \in Seq(Byte)
    BY <1>1 DEF TypeOK
  <2>2. gfExp' \in [0 .. 254 -> Byte] /\ gfLog' \in [Byte -> 0 .. 254]
    BY <1>1, <1>2 DEF TypeOK
  <2>4. /\ stage' \in {"tables", "idle", "generator", "divide", "place", "mask",
                       "weigh", "done"}
        /\ text' \in Text \cup {<<>>} /\ version' \in Version /\ step' \in 0 .. 254
        /\ best' \in Mask \cup {None} /\ least' \in Nat \cup {None}
    BY <1>1 DEF TypeOK
  <2> QED
    BY <1>4, <2>1, <2>2, <2>4 DEF TypeOK
<1>6. Polynomials'
  BY <1>1 DEF TypeInv, Polynomials, Working
<1> QED
  BY <1>1, <1>5, <1>6 DEF TypeInv, Drawing, Rounds, Drawn

\* A step of a drawn symbol that leaves the codewords, the modules that are
\* reserved and the tables alone keeps the types when its own results are typed.
LEMMA PaintKeepsTypes ==
  ASSUME TypeInv, stage \in Drawn, stage' \in Drawn,
         UNCHANGED <<tables, text, codeVars, isFunc>>,
         dark' \subseteq Grid(version), placed' \subseteq Grid(version),
         best' \in Mask \cup {None}, least' \in Nat \cup {None},
         step' \in 0 .. 8, Rounds'
  PROVE  TypeInv'
<1>1. UNCHANGED <<gfExp, gfLog, text, version, bytes, gen, rem, isFunc>>
  BY DEF tables, codeVars
<1>2. TypeOK /\ Polynomials /\ Drawing
  BY DEF TypeInv
<1>3. stage' \in Working /\ stage \in Working /\ stage \notin {"tables", "idle"}
  BY DEF Working, Drawn
<1>4. dark' \cup isFunc' \cup placed' \subseteq Grid(version')
  BY <1>1, <1>2 DEF TypeOK
<1>5. step' \in 0 .. 254
  OBVIOUS
<1>6. TypeOK'
  BY <1>1, <1>2, <1>3, <1>4, <1>5 DEF TypeOK, Working
<1>7. Polynomials'
  BY <1>1, <1>2, <1>3 DEF Polynomials, Drawn
<1>8. Drawing'
  BY <1>1, <1>2 DEF Drawing
<1> QED
  BY <1>6, <1>7, <1>8 DEF TypeInv

\* What is drawn stays within the symbol, and a penalty is a number.
LEMMA PlaceAndMaskKeepTypes ==
  ASSUME TypeInv, UNCHANGED tables,
         PlaceData \/ TryMask \/ Weigh \/ ApplyBest
  PROVE  TypeInv'
<1>1. /\ TypeOK /\ Rounds /\ version \in Version /\ dark \subseteq Grid(version)
      /\ placed \subseteq Grid(version)
      /\ best \in Mask \cup {None} /\ least \in Nat \cup {None}
  BY DEF TypeInv, TypeOK
<1>2. CASE PlaceData
  <2>1. /\ stage = "place" /\ stage' = "mask" /\ placed' = dark'
        /\ dark' = dark \cup Placed(version, Codewords)
        /\ UNCHANGED <<text, codeVars, isFunc, step, best, least>>
    BY <1>2 DEF PlaceData
  <2>2. dark' \subseteq Grid(version)
    BY <1>1, <2>1, PlacedIsData
  <2>3. step' \in 0 .. 8 /\ Rounds'
    BY <1>1, <2>1 DEF Rounds
  <2> QED
    BY <1>1, <2>1, <2>2, <2>3, PaintKeepsTypes DEF Drawn
<1>3. CASE TryMask
  <2>1. /\ stage = "mask" /\ step \in Mask /\ stage' = "weigh"
        /\ dark' = Formatted(Masked(dark, version, step), version, step)
        /\ UNCHANGED <<text, codeVars, isFunc, placed, step, best, least>>
    BY <1>3 DEF TryMask
  <2>2. dark' \subseteq Grid(version)
    BY <2>1 DEF Formatted
  <2>3. step' \in 0 .. 8 /\ Rounds'
    BY <2>1 DEF Rounds, Mask
  <2> QED
    BY <1>1, <2>1, <2>2, <2>3, PaintKeepsTypes DEF Drawn
<1>4. CASE Weigh
  <2>1. /\ stage = "weigh" /\ stage' = "mask" /\ step' = step + 1
        /\ dark' = Masked(dark, version, step)
        /\ UNCHANGED <<text, codeVars, isFunc, placed>>
    BY <1>4 DEF Weigh, Unmasked
  <2>2. dark' \subseteq Grid(version)
    BY <2>1 DEF Masked
  <2>3. step \in Mask
    BY <1>1, <2>1 DEF Rounds
  <2>4. step' \in 0 .. 8 /\ Rounds'
    BY <2>1, <2>3 DEF Rounds, Mask
  <2>5. PICK p : p = Penalty(dark, version)
    OBVIOUS
  <2>6. p \in Nat
    BY <1>1, <2>5, PenaltyIsNat
  <2>7. \/ best' = step /\ least' = p
        \/ best' = best /\ least' = least
    BY <1>4, <2>5 DEF Weigh
  <2>8. best' \in Mask \cup {None} /\ least' \in Nat \cup {None}
    BY <1>1, <2>3, <2>6, <2>7
  <2> QED
    BY <1>1, <2>1, <2>2, <2>4, <2>8, PaintKeepsTypes DEF Drawn
<1>5. CASE ApplyBest
  <2>1. /\ stage = "mask" /\ stage' = "done"
        /\ dark' = Formatted(Masked(dark, version, best), version, best)
        /\ UNCHANGED <<text, codeVars, isFunc, placed, step, best, least>>
    BY <1>5 DEF ApplyBest
  <2>2. dark' \subseteq Grid(version)
    BY <2>1 DEF Formatted
  <2>3. step' \in 0 .. 8 /\ Rounds'
    BY <1>1, <2>1 DEF Rounds
  <2> QED
    BY <1>1, <2>1, <2>2, <2>3, PaintKeepsTypes DEF Drawn
<1> QED
  BY <1>2, <1>3, <1>4, <1>5

\* The next call starts afresh.
LEMMA ReturnKeepsTypes ==
  ASSUME TypeInv, Return, UNCHANGED tables
  PROVE  TypeInv'
<1>1. /\ stage' = "idle" /\ text' = <<>> /\ version' = 1 /\ bytes' = <<>>
      /\ gen' = <<>> /\ rem' = <<>> /\ step' = 0 /\ dark' = {} /\ isFunc' = {}
      /\ placed' = {} /\ best' = None /\ least' = None
  BY DEF Return
<1>2. UNCHANGED <<gfExp, gfLog>> /\ TypeOK
  BY DEF tables, TypeInv
<1>3. <<>> \in Seq(Byte) /\ 0 \in 0 .. 254 /\ 1 \in Version
  BY DEF Version
<1>4. dark' \cup isFunc' \cup placed' \subseteq Grid(version')
  BY <1>1
<1>5. TypeOK'
  BY <1>1, <1>2, <1>3, <1>4 DEF TypeOK
<1> QED
  BY <1>1, <1>5 DEF TypeInv, Polynomials, Drawing, Rounds, Working, Drawn

\* Every step keeps the types.
LEMMA TypeStep == TypeInv /\ [Next]_vars => TypeInv'
<1> SUFFICES ASSUME TypeInv, [Next]_vars
             PROVE  TypeInv'
  OBVIOUS
<1>1. CASE FillTable
  BY <1>1, FillTableKeepsTypes
<1>2. CASE Encode /\ UNCHANGED tables
  <2>1. ASSUME NEW t \in Text, Begin(t)
        PROVE  TypeInv'
    BY <1>2, <2>1, BeginKeepsTypes
  <2>2. CASE Generate
    BY <1>2, <2>2, GenerateKeepsTypes
  <2>3. CASE Generated
    BY <1>2, <2>3, GeneratedKeepsTypes
  <2>4. CASE Divide
    BY <1>2, <2>4, DivideKeepsTypes
  <2>5. CASE DrawFunctionPatterns
    BY <1>2, <2>5, DrawKeepsTypes
  <2>6. CASE PlaceData \/ TryMask \/ Weigh \/ ApplyBest
    BY <1>2, <2>6, PlaceAndMaskKeepTypes
  <2>7. CASE Return
    BY <1>2, <2>7, ReturnKeepsTypes
  <2> QED
    BY <1>2, <2>1, <2>2, <2>3, <2>4, <2>5, <2>6, <2>7 DEF Encode
<1>3. CASE UNCHANGED vars
  <2>1. UNCHANGED <<gfExp, gfLog, stage, text, version, bytes, gen, rem, step, dark,
                    isFunc, placed, best, least>>
    BY <1>3 DEF vars, tables, codeVars
  <2>2. TypeOK'
    BY <2>1 DEF TypeInv, TypeOK
  <2>3. Polynomials' /\ Drawing' /\ Rounds'
    BY <2>1 DEF TypeInv, Polynomials, Drawing, Rounds
  <2> QED
    BY <2>2, <2>3 DEF TypeInv
<1> QED
  BY <1>1, <1>2, <1>3 DEF Next

\* Every codeword is a byte, and the symbol stays within its grid.
THEOREM TypeCorrect == Spec => []TypeOK
<1>1. TypeInv => TypeOK
  BY DEF TypeInv
<1> QED
  BY <1>1, TypeInit, TypeStep, PTL DEF Spec

-----------------------------------------------------------------------------
(***************************************************************************)
(* The codewords.  They are a code word when, as a polynomial, they vanish *)
(* at the roots of the generator: the loops of reedSolomon keep that of    *)
(* the data so far and the remainder.                                      *)
(***************************************************************************)
\* The tables while init fills them, and after that.
TablesInv ==
  /\ stage = "tables" => Filled(gfExp, gfLog, step)
  /\ stage # "tables" => Field(gfExp, gfLog)

\* The generator has its d roots, and so has the data so far with the remainder.
DivisionInv(d) ==
  /\ step \in 0 .. Len(bytes)
  /\ Roots(gfExp, Led({0}, gen, d), d + 1, d)
  /\ Roots(gfExp, SoFar(bytes, rem, step, d), step + d, d)

\* The inductive invariant: what vanishes where in each loop, from the product of
\* the factors so far to the codewords.
CodeInv ==
  /\ stage = "idle" => step = 0
  /\ stage = "generator" => Product(gfExp, gen, step, EcCodewords[version])
  /\ stage = "divide" => DivisionInv(EcCodewords[version])
  /\ Correctable

\* gfMul is the multiplication of the tables.
LEMMA GfMulIs ==
  ASSUME NEW a, NEW b
  PROVE  GfMul(a, b) = Mul(gfExp, gfLog, a, b)
BY DEF GfMul, Mul

\* ValueAt, for any table.
SumAt(f, p, j) ==
  LET terms(t) == {q \in (1 .. Len(p)) \X Bit :
                     /\ q[2] \in p[q[1]]
                     /\ t \in f[(q[2] + j * (Len(p) - q[1])) % 255]}
  IN  {t \in Bit : Cardinality(terms(t)) % 2 = 1}

\* It is the value of the polynomial.
LEMMA SumAtIs ==
  ASSUME NEW f, NEW p, NEW n, n = Len(p), NEW j
  PROVE  SumAt(f, p, j) = ValueOf(f, p, n, j)
<1> DEFINE terms(t) == {q \in (1 .. Len(p)) \X Bit :
                          /\ q[2] \in p[q[1]]
                          /\ t \in f[(q[2] + j * (Len(p) - q[1])) % 255]}
           same(t) == {q \in Terms(p, n) : t \in f[Exponent(n, j)[q]]}
<1>1. ASSUME NEW t
      PROVE  terms(t) = same(t)
  <2>1. ASSUME NEW q \in (1 .. n) \X Bit
        PROVE  Exponent(n, j)[q] = (q[2] + j * (n - q[1])) % 255
    BY DEF Exponent
  <2> QED
    BY <2>1 DEF Terms
<1>2. SumAt(f, p, j) = {t \in Bit : Cardinality(terms(t)) % 2 = 1}
  BY DEF SumAt
<1>3. ValueOf(f, p, n, j) = {t \in Bit : Cardinality(same(t)) % 2 = 1}
  BY DEF ValueOf, Sum
<1> HIDE DEF terms, same
<1> QED
  BY <1>1, <1>2, <1>3

\* A round of the tables.
LEMMA FillTableKeepsTables ==
  ASSUME TypeInv, TablesInv, FillTable
  PROVE  TablesInv'
<1>1. stage = "tables" /\ step \in Index /\ gfExp \in [Index -> Byte]
      /\ gfLog \in [Byte -> Index]
  BY DEF TypeInv, TypeOK, FillTable, Index
<1>2. PICK x : x = IF step = 0 THEN {0} ELSE Doubled(gfExp[step - 1])
  OBVIOUS
<1>3. gfExp' = [gfExp EXCEPT ![step] = x] /\ gfLog' = [gfLog EXCEPT ![x] = step]
  BY <1>2 DEF FillTable, FillTables
<1>4. Filled(gfExp, gfLog, step)
  BY <1>1 DEF TablesInv
<1>5. Filled(gfExp', gfLog', step + 1)
  BY <1>1, <1>2, <1>3, <1>4, FillOneMore
<1>6. CASE step < 254
  BY <1>1, <1>5, <1>6 DEF FillTable, TablesInv
<1>7. CASE ~(step < 254)
  <2>1. stage' = "idle" /\ step + 1 = 255
    BY <1>1, <1>7 DEF FillTable, Index
  <2>2. gfLog' \in [Byte -> Index]
    <3>1. TypeInv'
      BY FillTableKeepsTypes
    <3> QED
      BY <3>1 DEF TypeInv, TypeOK, Index
  <2>3. Field(gfExp', gfLog')
    BY <1>5, <2>1, <2>2, TablesAreField
  <2> QED
    BY <2>1, <2>3 DEF TablesInv
<1> QED
  BY <1>6, <1>7

\* Nothing else writes them.
LEMMA TablesStep ==
  ASSUME TypeInv, TablesInv, [Next]_vars
  PROVE  TablesInv'
<1>1. CASE FillTable
  BY <1>1, FillTableKeepsTables
<1>2. CASE Encode /\ UNCHANGED tables
  <2>1. stage # "tables" /\ stage' # "tables"
    BY <1>2 DEF Encode, Begin, Generate, Generated, Divide, DrawFunctionPatterns,
                PlaceData, TryMask, Weigh, ApplyBest, Return
  <2> QED
    BY <1>2, <2>1 DEF TablesInv, tables
<1>3. CASE UNCHANGED vars
  BY <1>3 DEF vars, tables, TablesInv
<1> QED
  BY <1>1, <1>2, <1>3 DEF Next

\* rsGenerator starts with a product of no factors.
LEMMA BeginKeepsCode ==
  ASSUME CodeInv, NEW t \in Text, Begin(t)
  PROVE  CodeInv'
<1>1. PICK v \in Version : version' = v /\ gen' = One(EcCodewords[v])
  BY DEF Begin
<1>2. stage = "idle" /\ stage' = "generator" /\ step' = 0
  BY DEF Begin, CodeInv
<1>3. PICK d \in Nat : d = EcCodewords[v] /\ d > 0
  BY Sizes
<1>4. Product(gfExp', One(d), 0, d)
  BY <1>3, ProductOfNone
<1> QED
  BY <1>1, <1>2, <1>3, <1>4 DEF CodeInv, Correctable

\* Its round for x to the j makes that a root, and loses none.
LEMMA GenerateKeepsCode ==
  ASSUME TypeInv, TablesInv, CodeInv, Generate, UNCHANGED tables
  PROVE  CodeInv'
<1>1. PICK d : d = EcCodewords[version]
  OBVIOUS
<1>2. /\ stage = "generator" /\ stage' = stage /\ step < Len(gen) /\ step' = step + 1
      /\ gen' = TimesRoot(gen, gfExp[step], Len(gen))
      /\ version' = version /\ gfExp' = gfExp /\ gfLog' = gfLog
  BY DEF Generate, tables
<1>3. d \in 7 .. 26 /\ version \in Version
  BY <1>1, Sizes DEF TypeInv, TypeOK
<1>4. gen \in Poly(d)
  BY <1>1, <1>2 DEF TypeInv, Polynomials, Working
<1>5. Len(gen) = d
  BY <1>3, <1>4, PolyIs
<1>6. step \in 0 .. d - 1 /\ d \in 1 .. 254
  <2>1. step \in Nat
    BY DEF TypeInv, TypeOK
  <2>2. d \in Int /\ 7 <= d /\ d <= 26
    BY <1>3
  <2>3. step < d
    BY <1>2, <1>5
  <2> QED
    BY <2>1, <2>2, <2>3
<1>7. Field(gfExp, gfLog) /\ Product(gfExp, gen, step, d)
  BY <1>1, <1>2 DEF TablesInv, CodeInv
<1>8. Coefficients(gen, d)
  BY <1>4 DEF Poly, Coefficients
<1>9. Multiplied(gen', gfExp, gfLog, gen, step, d)
  BY <1>2, <1>5, GfMulIs DEF Multiplied, TimesRoot
<1>10. Product(gfExp, gen', step + 1, d)
  BY <1>6, <1>7, <1>8, <1>9, ProductOfOneMore
<1> QED
  BY <1>1, <1>2, <1>10 DEF CodeInv, Correctable

\* The division begins with no data and no remainder.
LEMMA GeneratedKeepsCode ==
  ASSUME TypeInv, CodeInv, Generated, UNCHANGED tables
  PROVE  CodeInv'
<1>1. PICK d : d = EcCodewords[version]
  OBVIOUS
<1>2. /\ stage = "generator" /\ stage' = "divide" /\ step = Len(gen) /\ step' = 0
      /\ rem' = Zero(Len(gen)) /\ gen' = gen /\ bytes' = bytes
      /\ version' = version /\ gfExp' = gfExp
  BY DEF Generated, tables
<1>3. d \in 7 .. 26 /\ version \in Version
  BY <1>1, Sizes DEF TypeInv, TypeOK
<1>4. gen \in Poly(d)
  BY <1>1, <1>2 DEF TypeInv, Polynomials, Working
<1>5. Len(gen) = d
  BY <1>3, <1>4, PolyIs
<1>6. Roots(gfExp, Led({0}, gen, d), d + 1, d)
  <2>1. Product(gfExp, gen, d, d)
    BY <1>1, <1>2, <1>5 DEF CodeInv
  <2> QED
    BY <2>1 DEF Product, Leading
<1>7. Roots(gfExp, SoFar(bytes, Zero(d), 0, d), 0 + d, d)
  <2>1. Zeros(SoFar(bytes, Zero(d), 0, d), 0 + d)
    BY <1>3 DEF Zeros, SoFar, Zero
  <2> QED
    BY <2>1, ValueOfZeros DEF Roots
<1>8. 0 \in 0 .. Len(bytes)
  <2>1. Len(bytes) \in Nat
    BY LenProperties DEF TypeInv, TypeOK
  <2> QED
    BY <2>1
<1>9. DivisionInv(d)'
  BY <1>2, <1>5, <1>6, <1>7, <1>8 DEF DivisionInv
<1> QED
  BY <1>1, <1>2, <1>9 DEF CodeInv, Correctable

\* The next data byte.
LEMMA DivideKeepsCode ==
  ASSUME TypeInv, TablesInv, CodeInv, Divide, UNCHANGED tables
  PROVE  CodeInv'
<1>1. PICK d, n : d = EcCodewords[version] /\ n = DataCodewords[version]
  OBVIOUS
<1>2. /\ stage = "divide" /\ stage' = stage /\ step < Len(bytes) /\ step' = step + 1
      /\ rem' = Divided(rem, bytes[step + 1], gen)
      /\ UNCHANGED <<version, bytes, gen>> /\ gfExp' = gfExp /\ gfLog' = gfLog
  BY DEF Divide, tables
<1>3. d \in 7 .. 26 /\ n \in 19 .. 108 /\ version \in Version
  BY <1>1, Sizes DEF TypeInv, TypeOK
<1>4. gen \in Poly(d) /\ rem \in Poly(d) /\ bytes \in Poly(n)
  BY <1>1, <1>2 DEF TypeInv, Polynomials, Working
<1>5. Len(rem) = d /\ Len(bytes) = n
  BY <1>3, <1>4, PolyIs
<1>6. step \in 0 .. n - 1 /\ d \in 1 .. 254 /\ step \in Nat /\ n \in Int
  <2>1. step \in Nat
    BY DEF TypeInv, TypeOK
  <2>2. d \in Int /\ 7 <= d /\ d <= 26 /\ n \in Int
    BY <1>3
  <2>3. step < n
    BY <1>2, <1>5
  <2> QED
    BY <2>1, <2>2, <2>3
<1>7. Field(gfExp, gfLog) /\ DivisionInv(d)
  BY <1>1, <1>2 DEF TablesInv, CodeInv
<1>8. Coefficients(gen, d) /\ Coefficients(rem, d) /\ Coefficients(bytes, step + 1)
  <2>1. Coefficients(gen, d) /\ Coefficients(rem, d)
    BY <1>4 DEF Poly, Coefficients
  <2>2. \A i \in 1 .. step + 1 : i \in 1 .. n
    BY <1>6
  <2>3. \A i \in 1 .. n : bytes[i] \in Byte
    BY <1>4 DEF Poly
  <2>4. Coefficients(bytes, step + 1)
    BY <2>2, <2>3 DEF Coefficients
  <2> QED
    BY <2>1, <2>4
<1>9. PICK c : c = Xor(bytes[step + 1], rem[1])
  OBVIOUS
<1>10. Remains(rem', gfExp, gfLog, rem, c, gen, d)
  BY <1>2, <1>5, <1>9, GfMulIs DEF Remains, Divided
<1>11. Roots(gfExp, SoFar(bytes, rem', step + 1, d), step + 1 + d, d)
  BY <1>6, <1>7, <1>8, <1>9, <1>10, OneMoreDivided DEF DivisionInv
<1>12. DivisionInv(d)'
  <2>1. step' \in 0 .. Len(bytes')
    BY <1>2, <1>5, <1>6
  <2> QED
    BY <1>2, <1>7, <1>11, <2>1 DEF DivisionInv
<1> QED
  BY <1>1, <1>2, <1>12 DEF CodeInv, Correctable

\* When all data is divided, the codewords are data and remainder.
LEMMA DrawKeepsCode ==
  ASSUME TypeInv, CodeInv, DrawFunctionPatterns, UNCHANGED tables
  PROVE  CodeInv'
<1>1. PICK d, n : d = EcCodewords[version] /\ n = DataCodewords[version]
  OBVIOUS
<1>2. /\ stage = "divide" /\ stage' = "place" /\ step = Len(bytes)
      /\ UNCHANGED <<version, bytes, gen, rem, gfExp, gfLog>>
  BY DEF DrawFunctionPatterns, tables, codeVars
<1>3. d \in 7 .. 26 /\ n \in 19 .. 108 /\ version \in Version
  BY <1>1, Sizes DEF TypeInv, TypeOK
<1>4. rem \in Poly(d) /\ bytes \in Poly(n)
  BY <1>1, <1>2 DEF TypeInv, Polynomials, Working
<1>5. Len(rem) = d /\ Len(bytes) = n /\ rem \in Seq(Byte) /\ bytes \in Seq(Byte)
  BY <1>3, <1>4, PolyIs
<1>6. Roots(gfExp, SoFar(bytes, rem, n, d), n + d, d)
  BY <1>1, <1>2, <1>5 DEF CodeInv, DivisionInv
<1>7. /\ Codewords \in Seq(Byte) /\ Len(Codewords) = n + d
      /\ \A i \in 1 .. n + d : Codewords[i] = IF i <= n THEN bytes[i] ELSE rem[i - n]
  BY <1>5, ConcatProperties DEF Codewords
<1>8. \A i \in 1 .. n + d : SoFar(bytes, rem, n, d)[i] = Codewords[i]
  BY <1>7 DEF SoFar
<1>9. ASSUME NEW j \in 0 .. d - 1
      PROVE  ValueAt(Codewords, j)' = {}
  <2>1. ValueOf(gfExp, SoFar(bytes, rem, n, d), n + d, j) = {}
    BY <1>6 DEF Roots
  <2>2. ValueOf(gfExp, Codewords, n + d, j) = {}
    BY <1>8, <2>1, ValueAgrees
  <2>3. SumAt(gfExp, Codewords, j) = {}
    BY <1>7, <2>2, SumAtIs
  <2>4. ValueAt(Codewords, j)' = SumAt(gfExp', Codewords', j)
    BY DEF ValueAt, SumAt
  <2>5. Codewords' = Codewords
    BY <1>2 DEF Codewords
  <2> QED
    BY <1>2, <2>3, <2>4, <2>5
<1>10. (\A j \in 0 .. EcCodewords[version] - 1 : ValueAt(Codewords, j) = {})'
  BY <1>1, <1>2, <1>9
<1> QED
  BY <1>2, <1>10 DEF CodeInv, Correctable

\* Every step keeps the invariant.
LEMMA CodeStep ==
  ASSUME TypeInv, TablesInv, CodeInv, [Next]_vars
  PROVE  CodeInv'
<1>1. CASE FillTable \/ PlaceData \/ TryMask \/ Weigh \/ ApplyBest \/ Return
  <2>1. stage' \notin {"generator", "divide", "place"} /\ (stage' = "idle" => step' = 0)
    BY <1>1 DEF FillTable, PlaceData, TryMask, Weigh, ApplyBest, Return
  <2> QED
    BY <2>1 DEF CodeInv, Correctable
<1>2. CASE Encode /\ UNCHANGED tables
  <2>1. ASSUME NEW t \in Text, Begin(t)
        PROVE  CodeInv'
    BY <2>1, BeginKeepsCode
  <2> QED
    BY <1>1, <1>2, <2>1, GenerateKeepsCode, GeneratedKeepsCode, DivideKeepsCode,
       DrawKeepsCode DEF Encode
<1>3. CASE UNCHANGED vars
  <2>1. UNCHANGED <<gfExp, gfLog, stage, version, bytes, gen, rem, step>>
    BY <1>3 DEF vars, tables, codeVars
  <2>2. ASSUME NEW j
        PROVE  ValueAt(Codewords, j)' = ValueAt(Codewords, j)
    <3>1. /\ ValueAt(Codewords, j) = SumAt(gfExp, Codewords, j)
          /\ ValueAt(Codewords, j)' = SumAt(gfExp', Codewords', j)
      BY DEF ValueAt, SumAt
    <3> QED
      BY <2>1, <3>1 DEF Codewords
  <2>3. Correctable'
    BY <2>1, <2>2 DEF CodeInv, Correctable
  <2>4. DivisionInv(EcCodewords[version])' <=> DivisionInv(EcCodewords[version])
    BY <2>1 DEF DivisionInv
  <2> QED
    BY <2>1, <2>3, <2>4 DEF CodeInv
<1> QED
  BY <1>1, <1>2, <1>3 DEF Next

\* The codewords are a Reed-Solomon code word, whatever the text: a scanner that
\* reads some of them wrong can correct them (reedSolomon, rsGenerator, gfMul).
THEOREM CorrectableCorrect == Spec => []Correctable
<1>1. Init => TablesInv /\ CodeInv
  BY DEF Init, TablesInv, CodeInv, Correctable, Filled
<1>2. CodeInv => Correctable
  BY DEF CodeInv
<1>3. TypeInv /\ TablesInv /\ CodeInv /\ [Next]_vars => TablesInv' /\ CodeInv'
  BY TablesStep, CodeStep
<1> QED
  BY <1>1, <1>2, <1>3, TypeInit, TypeStep, PTL DEF Spec

-----------------------------------------------------------------------------
(***************************************************************************)
(* The function patterns.                                                  *)
(***************************************************************************)
\* What no format bit may change, the dark module included.
Fixed(v) == FunctionArea(v) \ FormatArea(v)

\* The symbol d has these as they were drawn.
Kept(d, v) == d \cap Fixed(v) = Patterns(v) \cap Fixed(v)

\* The invariant: from the time the patterns are drawn they are kept.
PatternInv == stage \in Drawn => Kept(dark, version)

\* Data and masks leave the modules that are not for data alone.
LEMMA MaskedAvoids ==
  ASSUME NEW v \in Version, NEW d, NEW m, isFunc = FunctionArea(v), Kept(d, v)
  PROVE  Kept(Masked(d, v, m), v)
<1>1. ASSUME NEW p \in Fixed(v)
      PROVE  p \in Masked(d, v, m) <=> p \in d
  <2>1. p \in isFunc /\ p \in Grid(v)
    BY AreasInGrid DEF Fixed
  <2> QED
    BY <2>1 DEF Masked
<1> QED
  BY <1>1 DEF Kept

\* The format bits cover reserved modules and the dark module, which is restored.
LEMMA FormattedAvoids ==
  ASSUME NEW v \in Version, NEW d, NEW m, Kept(d, v)
  PROVE  Kept(Formatted(d, v, m), v)
<1> DEFINE cells == FormatCells(v, 0 .. 14)
           ones == FormatCells(v, FormatWord(m)) \cup {DarkModule(v)}
<1>1. cells \subseteq FormatArea(v) \cup {DarkModule(v)}
  BY FormatCellsAre
<1>2. DarkModule(v) \in ones
  OBVIOUS
<1>3. \A p : p \in Formatted(d, v, m) <=>
               p \in Grid(v) /\ (IF p \in cells THEN p \in ones ELSE p \in d)
  BY DEF Formatted
<1> HIDE DEF cells, ones
<1>4. ASSUME NEW p \in Fixed(v)
      PROVE  p \in Formatted(d, v, m) <=> p \in Patterns(v)
  <2>1. p \in Grid(v) /\ p \notin FormatArea(v)
    BY AreasInGrid DEF Fixed
  <2>2. p \in d <=> p \in Patterns(v)
    BY DEF Kept
  <2>3. CASE p \in cells
    <3>1. p = DarkModule(v)
      BY <1>1, <2>1, <2>3
    <3>2. p \in Patterns(v)
      BY <3>1, DarkModuleIs
    <3> QED
      BY <1>2, <1>3, <2>1, <2>3, <3>1, <3>2
  <2>4. CASE p \notin cells
    BY <1>3, <2>1, <2>2, <2>4
  <2> QED
    BY <2>3, <2>4
<1> QED
  BY <1>4 DEF Kept

\* Every step keeps the patterns.
LEMMA PatternStep ==
  ASSUME TypeInv, PatternInv, [Next]_vars
  PROVE  PatternInv'
<1>1. version \in Version /\ (stage \in Drawn => isFunc = FunctionArea(version))
  BY DEF TypeInv, TypeOK, Drawing
<1>2. CASE FillTable
  <2>1. stage' \notin Drawn
    BY <1>2 DEF FillTable, Drawn
  <2> QED
    BY <2>1 DEF PatternInv
<1>3. ASSUME NEW t \in Text, Begin(t)
      PROVE  PatternInv'
  BY <1>3 DEF Begin, PatternInv, Drawn
<1>4. CASE Generate \/ Generated \/ Divide \/ Return
  <2>1. stage' \notin Drawn
    BY <1>4 DEF Generate, Generated, Divide, Return, Drawn
  <2> QED
    BY <2>1 DEF PatternInv
<1>5. CASE DrawFunctionPatterns
  <2>1. dark' = Patterns(version) /\ version' = version
    BY <1>5 DEF DrawFunctionPatterns, codeVars
  <2> QED
    BY <2>1 DEF PatternInv, Kept
<1>6. CASE PlaceData
  <2>1. /\ Kept(dark, version) /\ isFunc = FunctionArea(version)
        /\ dark' = dark \cup Placed(version, Codewords) /\ version' = version
    BY <1>1, <1>6 DEF PlaceData, PatternInv, Drawn, codeVars
  <2>2. Placed(version, Codewords) \cap Fixed(version) = {}
    BY <1>1, <2>1, PlacedIsData DEF Fixed
  <2>3. Kept(dark', version)
    BY <2>1, <2>2 DEF Kept
  <2> QED
    BY <2>1, <2>3 DEF PatternInv
<1>7. CASE TryMask
  <2>1. /\ Kept(dark, version) /\ isFunc = FunctionArea(version)
        /\ dark' = Formatted(Masked(dark, version, step), version, step)
        /\ version' = version
    BY <1>1, <1>7 DEF TryMask, PatternInv, Drawn, codeVars
  <2>2. Kept(dark', version)
    BY <1>1, <2>1, MaskedAvoids, FormattedAvoids
  <2> QED
    BY <2>1, <2>2 DEF PatternInv
<1>8. CASE Weigh
  <2>1. /\ Kept(dark, version) /\ isFunc = FunctionArea(version)
        /\ dark' = Masked(dark, version, step) /\ version' = version
    BY <1>1, <1>8 DEF Weigh, Unmasked, PatternInv, Drawn, codeVars
  <2>2. Kept(dark', version)
    BY <1>1, <2>1, MaskedAvoids
  <2> QED
    BY <2>1, <2>2 DEF PatternInv
<1>9. CASE ApplyBest
  <2>1. /\ Kept(dark, version) /\ isFunc = FunctionArea(version)
        /\ dark' = Formatted(Masked(dark, version, best), version, best)
        /\ version' = version
    BY <1>1, <1>9 DEF ApplyBest, PatternInv, Drawn, codeVars
  <2>2. Kept(dark', version)
    BY <1>1, <2>1, MaskedAvoids, FormattedAvoids
  <2> QED
    BY <2>1, <2>2 DEF PatternInv
<1>10. CASE UNCHANGED vars
  BY <1>10 DEF vars, codeVars, PatternInv
<1> QED
  BY <1>2, <1>3, <1>4, <1>5, <1>6, <1>7, <1>8, <1>9, <1>10 DEF Next, Encode

\* Finders, timing, alignment and the dark module are in the finished symbol as
\* they were drawn, whatever the text, the mask and the format bits.
THEOREM PatternsKeptCorrect == Spec => []PatternsKept
<1>1. Init => PatternInv
  BY DEF Init, PatternInv, Drawn
<1>2. PatternInv => PatternsKept
  BY DEF PatternInv, PatternsKept, Kept, Fixed, Drawn
<1>3. TypeInv /\ PatternInv /\ [Next]_vars => PatternInv'
  BY PatternStep
<1> QED
  BY <1>1, <1>2, <1>3, TypeInit, TypeStep, PTL DEF Spec

-----------------------------------------------------------------------------
(***************************************************************************)
(* The masks.                                                              *)
(***************************************************************************)

\* The data modules of d are those of the placed symbol, under mask m.
DataUnder(d, v, m) == d \ isFunc = Masked(placed, v, m) \ isFunc

\* The invariant: while a mask is weighed, the data is that of one mask.
MaskInv ==
  /\ stage = "mask" => dark \ isFunc = placed \ isFunc
  /\ stage = "weigh" => DataUnder(dark, version, step)

\* A mask depends on nothing but the data modules, and changes no others.
LEMMA MaskedOnce ==
  ASSUME NEW v \in Version, NEW d, NEW m, d \ isFunc = placed \ isFunc
  PROVE  DataUnder(Masked(d, v, m), v, m)
BY DEF DataUnder, Masked

\* Taken off, it leaves the data as it was placed.
LEMMA MaskedTwice ==
  ASSUME NEW v \in Version, NEW d, NEW m, DataUnder(d, v, m),
         d \subseteq Grid(v), placed \subseteq Grid(v)
  PROVE  Masked(d, v, m) \ isFunc = placed \ isFunc
<1> DEFINE flips(p) == p \notin isFunc /\ Inverts(m, p[1], p[2])
<1>1. ASSUME NEW p, NEW e, p \in Grid(v)
      PROVE  /\ flips(p) => (p \in Masked(e, v, m) <=> p \notin e)
             /\ ~flips(p) => (p \in Masked(e, v, m) <=> p \in e)
  <2>1. p \in Masked(e, v, m) <=> ((p \in e) # flips(p))
    BY <1>1 DEF Masked
  <2> QED
    BY <2>1
<1>2. Masked(d, v, m) \subseteq Grid(v)
  BY DEF Masked
<1> HIDE DEF flips
<1>3. ASSUME NEW p, p \notin isFunc, p \in Grid(v)
      PROVE  p \in Masked(d, v, m) <=> p \in placed
  <2>1. p \in d <=> p \in Masked(placed, v, m)
    BY <1>3 DEF DataUnder
  <2>2. CASE flips(p)
    BY <1>1, <1>3, <2>1, <2>2
  <2>3. CASE ~flips(p)
    BY <1>1, <1>3, <2>1, <2>3
  <2> QED
    BY <2>2, <2>3
<1> QED
  BY <1>2, <1>3

\* The format bits touch no data module.
LEMMA FormattedIsUnder ==
  ASSUME NEW v \in Version, NEW d, NEW m, isFunc = FunctionArea(v),
         d \subseteq Grid(v), DataUnder(d, v, m)
  PROVE  DataUnder(Formatted(d, v, m), v, m)
<1> DEFINE cells == FormatCells(v, 0 .. 14)
           ones == FormatCells(v, FormatWord(m)) \cup {DarkModule(v)}
<1>1. cells \subseteq isFunc
  BY FormatCellsAre, DarkModuleIs DEF FunctionArea
<1>2. \A p : p \in Formatted(d, v, m) <=>
               p \in Grid(v) /\ (IF p \in cells THEN p \in ones ELSE p \in d)
  BY DEF Formatted
<1> HIDE DEF cells, ones
<1>3. Formatted(d, v, m) \ isFunc = d \ isFunc
  BY <1>1, <1>2
<1> QED
  BY <1>3 DEF DataUnder

\* Every step keeps the data modules those of one mask or of none.
LEMMA MaskStep ==
  ASSUME TypeInv, MaskInv, [Next]_vars
  PROVE  MaskInv'
<1>1. /\ version \in Version /\ dark \subseteq Grid(version)
      /\ placed \subseteq Grid(version)
      /\ stage \in Drawn => isFunc = FunctionArea(version)
  BY DEF TypeInv, TypeOK, Drawing
<1>2. CASE FillTable \/ Return
  BY <1>2 DEF FillTable, Return, MaskInv
<1>3. ASSUME NEW t \in Text, Begin(t)
      PROVE  MaskInv'
  BY <1>3 DEF Begin, MaskInv
<1>4. CASE Generate \/ Generated \/ Divide \/ DrawFunctionPatterns \/ ApplyBest
  BY <1>4 DEF Generate, Generated, Divide, DrawFunctionPatterns, ApplyBest, MaskInv
<1>5. CASE PlaceData
  BY <1>5 DEF PlaceData, MaskInv
<1>6. CASE TryMask
  <2>1. /\ dark \ isFunc = placed \ isFunc /\ isFunc = FunctionArea(version)
        /\ dark' = Formatted(Masked(dark, version, step), version, step)
        /\ stage' = "weigh" /\ UNCHANGED <<version, isFunc, placed, step>>
    BY <1>1, <1>6 DEF TryMask, MaskInv, Drawn, codeVars
  <2>2. PICK d : d = Masked(dark, version, step)
    OBVIOUS
  <2>3. DataUnder(d, version, step) /\ d \subseteq Grid(version)
    BY <1>1, <2>1, <2>2, MaskedOnce DEF Masked
  <2>4. DataUnder(Formatted(d, version, step), version, step)
    BY <1>1, <2>1, <2>3, FormattedIsUnder
  <2>5. DataUnder(dark, version, step)'
    BY <2>1, <2>2, <2>4 DEF DataUnder, Masked
  <2> QED
    BY <2>1, <2>5 DEF MaskInv
<1>7. CASE Weigh
  <2>1. /\ DataUnder(dark, version, step) /\ dark' = Masked(dark, version, step)
        /\ stage' = "mask" /\ UNCHANGED <<isFunc, placed>>
    BY <1>7 DEF Weigh, Unmasked, MaskInv
  <2>2. dark' \ isFunc = placed \ isFunc
    BY <1>1, <2>1, MaskedTwice
  <2> QED
    BY <2>1, <2>2 DEF MaskInv
<1>8. CASE UNCHANGED vars
  BY <1>8 DEF vars, codeVars, MaskInv, DataUnder, Masked
<1> QED
  BY <1>2, <1>3, <1>4, <1>5, <1>6, <1>7, <1>8 DEF Next, Encode

\* Masks do not pile up: between two masks the data modules are as placed.
THEOREM UnmaskedBetweenCorrect == Spec => []UnmaskedBetween
<1>1. Init => MaskInv
  BY DEF Init, MaskInv
<1>2. MaskInv => UnmaskedBetween
  BY DEF MaskInv, UnmaskedBetween
<1>3. TypeInv /\ MaskInv /\ [Next]_vars => MaskInv'
  BY MaskStep
<1> QED
  BY <1>1, <1>2, <1>3, TypeInit, TypeStep, PTL DEF Spec

-----------------------------------------------------------------------------
(***************************************************************************)
(* The choice of the mask.  UnmaskedBetween says nothing of the modules    *)
(* that are not data; the format bits of one mask would count in the       *)
(* penalty of the next, did the next not overwrite them all.               *)
(***************************************************************************)
\* What setFormatBits writes.
Overwritten(v) == FormatCells(v, 0 .. 14)

\* After n masks, the best of them is known, with its penalty.
Chosen(n) ==
  /\ n = 0 => best = None /\ least = None
  /\ n > 0 => best \in Mask /\ least = Penalty(Under(best), version)
  /\ \A m \in Mask : m < n => least <= Penalty(Under(m), version)

\* The invariant: between two masks the symbol is the placed one but for the
\* format bits, under a mask it is what that mask alone would make it.
BestInv ==
  /\ stage \notin {"mask", "weigh", "done"} => best = None /\ least = None
  /\ stage = "mask" =>
       dark \ Overwritten(version) = placed \ Overwritten(version)
  /\ stage = "weigh" => dark = Under(step)
  /\ stage \in {"mask", "weigh"} => Chosen(step)
  /\ BestMask

\* A mask and its format bits leave nothing of earlier format bits.
LEMMA FormattedAnew ==
  ASSUME NEW v, NEW d, NEW e, NEW m, d \ Overwritten(v) = e \ Overwritten(v)
  PROVE  Formatted(Masked(d, v, m), v, m) = Formatted(Masked(e, v, m), v, m)
<1> DEFINE ones == FormatCells(v, FormatWord(m)) \cup {DarkModule(v)}
<1>1. \A x, p : p \in Formatted(x, v, m) <=>
                  p \in Grid(v) /\ (IF p \in Overwritten(v) THEN p \in ones ELSE p \in x)
  BY DEF Formatted, Overwritten
<1>2. \A p : p \notin Overwritten(v) =>
               (p \in Masked(d, v, m) <=> p \in Masked(e, v, m))
  <2>1. ASSUME NEW p, p \notin Overwritten(v)
        PROVE  p \in Masked(d, v, m) <=> p \in Masked(e, v, m)
    <3>1. p \in d <=> p \in e
      BY <2>1
    <3> QED
      BY <3>1 DEF Masked
  <2> QED
    BY <2>1
<1> HIDE DEF ones
<1>3. \A p : p \in Formatted(Masked(d, v, m), v, m)
               <=> p \in Formatted(Masked(e, v, m), v, m)
  BY <1>1, <1>2
<1> QED
  BY <1>3

\* A mask taken off leaves the placed symbol but for the format bits.
LEMMA UnmaskedAnew ==
  ASSUME NEW v \in Version, NEW m, placed \subseteq Grid(v), v = version
  PROVE  Masked(Under(m), v, m) \ Overwritten(v) = placed \ Overwritten(v)
<1> DEFINE flips(p) == p \notin isFunc /\ Inverts(m, p[1], p[2])
<1>1. ASSUME NEW p, NEW e, p \in Grid(v)
      PROVE  /\ flips(p) => (p \in Masked(e, v, m) <=> p \notin e)
             /\ ~flips(p) => (p \in Masked(e, v, m) <=> p \in e)
  <2>1. p \in Masked(e, v, m) <=> ((p \in e) # flips(p))
    BY <1>1 DEF Masked
  <2> QED
    BY <2>1
<1>2. Masked(Under(m), v, m) \subseteq Grid(v)
  BY DEF Masked
<1>3. ASSUME NEW p, p \notin Overwritten(v), p \in Grid(v)
      PROVE  p \in Under(m) <=> p \in Masked(placed, v, m)
  BY <1>3 DEF Under, Formatted, Overwritten
<1> HIDE DEF flips
<1>4. ASSUME NEW p, p \notin Overwritten(v), p \in Grid(v)
      PROVE  p \in Masked(Under(m), v, m) <=> p \in placed
  <2>1. CASE flips(p)
    BY <1>1, <1>3, <1>4, <2>1
  <2>2. CASE ~flips(p)
    BY <1>1, <1>3, <1>4, <2>2
  <2> QED
    BY <2>1, <2>2
<1> QED
  BY <1>2, <1>4

\* What each mask makes of the placed symbol depends on nothing that the masks
\* change.
LEMMA UnderIsFixed ==
  ASSUME UNCHANGED <<version, isFunc, placed>>
  PROVE  \A m : Under(m)' = Under(m)
BY DEF Under, Masked

\* The symbol is weighed as one mask alone would make it.
LEMMA TryMaskKeepsBest ==
  ASSUME TypeInv, BestInv, TryMask
  PROVE  BestInv'
<1>1. /\ stage = "mask" /\ stage' = "weigh"
      /\ dark' = Formatted(Masked(dark, version, step), version, step)
      /\ UNCHANGED <<version, isFunc, placed, step, best, least>>
  BY DEF TryMask, codeVars
<1>2. dark \ Overwritten(version) = placed \ Overwritten(version) /\ Chosen(step)
  BY <1>1 DEF BestInv
<1>3. dark' = Under(step)
  BY <1>1, <1>2, FormattedAnew DEF Under
<1>4. \A m : Under(m)' = Under(m)
  BY <1>1, UnderIsFixed
<1>5. dark' = Under(step)'
  BY <1>1, <1>3, <1>4
<1>6. Chosen(step)'
  BY <1>1, <1>2, <1>4 DEF Chosen
<1> QED
  BY <1>1, <1>5, <1>6 DEF BestInv, BestMask

\* The comparison keeps the lesser of two penalties.
LEMMA WeighKeepsBest ==
  ASSUME TypeInv, BestInv, Weigh
  PROVE  BestInv'
<1>1. /\ stage = "weigh" /\ stage' = "mask" /\ step' = step + 1
      /\ dark' = Masked(dark, version, step)
      /\ UNCHANGED <<version, isFunc, placed>>
  BY DEF Weigh, Unmasked, codeVars
<1>2. dark = Under(step) /\ Chosen(step)
  BY <1>1 DEF BestInv
<1>3. /\ step \in Mask /\ version \in Version /\ dark \subseteq Grid(version)
      /\ placed \subseteq Grid(version) /\ least \in Nat \cup {None}
  BY <1>1 DEF TypeInv, TypeOK, Rounds
<1>4. dark' \ Overwritten(version') = placed' \ Overwritten(version')
  BY <1>1, <1>2, <1>3, UnmaskedAnew
<1>5. PICK p : p = Penalty(dark, version)
  OBVIOUS
<1>6. p \in Nat /\ p = Penalty(Under(step), version)
  BY <1>2, <1>3, <1>5, PenaltyIsNat
<1>7. \/ (least = None \/ p < least) /\ best' = step /\ least' = p
      \/ ~(least = None \/ p < least) /\ best' = best /\ least' = least
  BY <1>5 DEF Weigh, Better
<1>8. \A m : Under(m)' = Under(m)
  BY <1>1, UnderIsFixed
<1>9. /\ step = 0 => least = None
      /\ step > 0 => best \in Mask /\ least = Penalty(Under(best), version)
      /\ \A m \in Mask : m < step => least <= Penalty(Under(m), version)
  BY <1>2 DEF Chosen
<1>10. best' \in Mask /\ least' = Penalty(Under(best'), version)
  <2>1. step = 0 \/ step > 0
    BY <1>3 DEF Mask
  <2> QED
    BY <1>3, <1>6, <1>7, <1>9, <2>1
<1>11. ASSUME NEW m \in Mask, m < step + 1
       PROVE  least' <= Penalty(Under(m), version)
  <2>1. CASE m = step
    BY <1>3, <1>6, <1>7, <2>1
  <2>2. CASE m # step
    <3>1. m < step /\ step > 0
      BY <1>3, <1>11, <2>2 DEF Mask
    <3>2. PICK q : q = Penalty(Under(m), version)
      OBVIOUS
    <3>3. Under(m) \subseteq Grid(version)
      BY DEF Under, Formatted
    <3>4. q \in Nat
      BY <1>3, <3>2, <3>3, PenaltyIsNat
    <3>5. Under(best) \subseteq Grid(version)
      BY DEF Under, Formatted
    <3>6. least \in Nat /\ least <= q
      BY <1>3, <1>9, <3>1, <3>2, <3>5, PenaltyIsNat
    <3>7. least # None
      BY <3>6, NoneAssumption
    <3>8. least' <= q
      BY <1>6, <1>7, <3>4, <3>6, <3>7
    <3> QED
      BY <3>2, <3>8
  <2> QED
    BY <2>1, <2>2
<1>12. Chosen(step)'
  <2>1. step' > 0 /\ step' # 0
    BY <1>1, <1>3 DEF Mask
  <2>2. \A m \in Mask : m < step' => least' <= Penalty(Under(m), version)'
    BY <1>1, <1>8, <1>11
  <2>3. best' \in Mask /\ least' = Penalty(Under(best), version)'
    BY <1>1, <1>8, <1>10
  <2> QED
    BY <2>1, <2>2, <2>3 DEF Chosen
<1> QED
  BY <1>1, <1>4, <1>12 DEF BestInv, BestMask

\* After eight masks, the best is the best of all.
LEMMA ApplyKeepsBest ==
  ASSUME TypeInv, BestInv, ApplyBest
  PROVE  BestInv'
<1>1. /\ stage = "mask" /\ step \notin Mask /\ stage' = "done"
      /\ dark' = Formatted(Masked(dark, version, best), version, best)
      /\ UNCHANGED <<version, isFunc, placed, step, best, least>>
  BY DEF ApplyBest, codeVars
<1>2. /\ dark \ Overwritten(version) = placed \ Overwritten(version)
      /\ Chosen(step)
  BY <1>1 DEF BestInv
<1>3. step \in 0 .. 8
  BY <1>1 DEF TypeInv, Rounds
<1>4. step > 0 /\ \A m \in Mask : m < step
  BY <1>1, <1>3 DEF Mask
<1>5. best \in Mask /\ \A m \in Mask : Penalty(Under(best), version)
                                         <= Penalty(Under(m), version)
  BY <1>2, <1>4 DEF Chosen
<1>6. dark' = Under(best)
  BY <1>1, <1>2, FormattedAnew DEF Under
<1>7. \A m : Under(m)' = Under(m)
  BY <1>1, UnderIsFixed
<1>8. BestMask'
  BY <1>1, <1>5, <1>6, <1>7 DEF BestMask
<1> QED
  BY <1>1, <1>8 DEF BestInv

\* Every step keeps the choice.
LEMMA BestStep ==
  ASSUME TypeInv, BestInv, [Next]_vars
  PROVE  BestInv'
<1>1. CASE FillTable
  BY <1>1 DEF FillTable, BestInv, BestMask
<1>2. ASSUME NEW t \in Text, Begin(t)
      PROVE  BestInv'
  BY <1>2 DEF Begin, BestInv, BestMask
<1>3. CASE Generate \/ Generated \/ Divide \/ DrawFunctionPatterns
  BY <1>3 DEF Generate, Generated, Divide, DrawFunctionPatterns, BestInv, BestMask
<1>4. CASE Return
  BY <1>4 DEF Return, BestInv, BestMask
<1>5. CASE PlaceData
  <2>1. /\ stage = "place" /\ stage' = "mask" /\ placed' = dark' /\ step' = 0
        /\ best' = None /\ least' = None
    BY <1>5 DEF PlaceData, BestInv, TypeInv, Rounds
  <2>2. \A m \in Mask : ~(m < 0)
    BY DEF Mask
  <2>3. Chosen(step)'
    BY <2>1, <2>2 DEF Chosen
  <2> QED
    BY <2>1, <2>3 DEF BestInv, BestMask
<1>6. CASE TryMask
  BY <1>6, TryMaskKeepsBest
<1>7. CASE Weigh
  BY <1>7, WeighKeepsBest
<1>8. CASE ApplyBest
  BY <1>8, ApplyKeepsBest
<1>9. CASE UNCHANGED vars
  <2>1. UNCHANGED <<stage, version, step, dark, isFunc, placed, best, least>>
    BY <1>9 DEF vars, codeVars
  <2>2. \A m : Under(m)' = Under(m)
    BY <2>1, UnderIsFixed
  <2>3. Chosen(step)' <=> Chosen(step)
    BY <2>1, <2>2 DEF Chosen
  <2>4. BestMask' <=> BestMask
    BY <2>1, <2>2 DEF BestMask
  <2> QED
    BY <2>1, <2>2, <2>3, <2>4 DEF BestInv
<1> QED
  BY <1>1, <1>2, <1>3, <1>4, <1>5, <1>6, <1>7, <1>8, <1>9 DEF Next, Encode

\* The finished symbol is the placed one under the mask with the least penalty
\* and no other, whatever the eight trials drew on the way.
THEOREM BestMaskCorrect == Spec => []BestMask
<1>1. Init => BestInv
  BY DEF Init, BestInv, BestMask
<1>2. BestInv => BestMask
  BY DEF BestInv
<1>3. TypeInv /\ BestInv /\ [Next]_vars => BestInv'
  BY BestStep
<1> QED
  BY <1>1, <1>2, <1>3, TypeInit, TypeStep, PTL DEF Spec

-----------------------------------------------------------------------------
(***************************************************************************)
(* The format bits. What setFormatBits divides is a word of the code; the  *)
(* second copy is transposed, and then it is none.                         *)
(***************************************************************************)
\* How the reader and the code count bits.
Odd(S) == Cardinality(S) % 2 = 1

\* Whether a set is odd changes with each of its elements.
LEMMA OddWithout ==
  ASSUME NEW S, IsFiniteSet(S), NEW x
  PROVE  /\ IsFiniteSet(S \ {x})
         /\ Odd(S) <=> ((x \in S) # Odd(S \ {x}))
<1>1. IsFiniteSet(S \ {x})
  BY FS_RemoveElement
<1>2. Cardinality(S) \in Nat /\ Cardinality(S \ {x}) \in Nat
  BY <1>1, FS_CardinalityType
<1>3. CASE x \in S
  <2>1. Cardinality(S \ {x}) = Cardinality(S) - 1
    BY <1>3, FS_RemoveElement
  <2> QED
    BY <1>1, <1>2, <1>3, <2>1 DEF Odd
<1>4. CASE x \notin S
  <2>1. S \ {x} = S
    BY <1>4
  <2> QED
    BY <1>1, <1>4, <2>1 DEF Odd
<1> QED
  BY <1>3, <1>4

\* Up to five elements.
LEMMA OddOfFive ==
  ASSUME NEW S, S \subseteq 0 .. 4
  PROVE  Odd(S) <=>
           ((0 \in S) # ((1 \in S) # ((2 \in S) # ((3 \in S) # (4 \in S)))))
<1>1. PICK A, B, C, D, E :
        A = S \ {0} /\ B = A \ {1} /\ C = B \ {2} /\ D = C \ {3} /\ E = D \ {4}
  OBVIOUS
<1>2. IsFiniteSet(S)
  <2>1. PICK n \in Int : n = 4
    OBVIOUS
  <2>2. IsFiniteSet(0 .. n)
    BY FS_Interval
  <2> QED
    BY <2>1, <2>2, FS_Subset
<1>3. IsFiniteSet(A) /\ (Odd(S) <=> ((0 \in S) # Odd(A)))
  BY <1>1, <1>2, OddWithout
<1>4. IsFiniteSet(B) /\ (Odd(A) <=> ((1 \in A) # Odd(B)))
  BY <1>1, <1>3, OddWithout
<1>5. IsFiniteSet(C) /\ (Odd(B) <=> ((2 \in B) # Odd(C)))
  BY <1>1, <1>4, OddWithout
<1>6. IsFiniteSet(D) /\ (Odd(C) <=> ((3 \in C) # Odd(D)))
  BY <1>1, <1>5, OddWithout
<1>7. IsFiniteSet(E) /\ (Odd(D) <=> ((4 \in D) # Odd(E)))
  BY <1>1, <1>6, OddWithout
<1>8. ~ Odd(E)
  <2>1. E = {}
    BY <1>1
  <2>2. Cardinality({}) = 0
    BY FS_EmptySet
  <2> QED
    BY <2>1, <2>2 DEF Odd
<1>9. /\ 1 \in A <=> 1 \in S
      /\ 2 \in B <=> 2 \in S
      /\ 3 \in C <=> 3 \in S
      /\ 4 \in D <=> 4 \in S
  BY <1>1
<1> HIDE <1>1
<1> QED
  BY <1>3, <1>4, <1>5, <1>6, <1>7, <1>8, <1>9 DEF Odd

\* w is q times the format polynomial, bit by bit.
IsMultiple(w, q) ==
  /\ (0 \in w) <=> 0 \in q
  /\ (1 \in w) <=> ((0 \in q) # (1 \in q))
  /\ (2 \in w) <=> ((0 \in q) # ((1 \in q) # (2 \in q)))
  /\ (3 \in w) <=> ((1 \in q) # ((2 \in q) # (3 \in q)))
  /\ (4 \in w) <=> ((0 \in q) # ((2 \in q) # ((3 \in q) # (4 \in q))))
  /\ (5 \in w) <=> ((0 \in q) # ((1 \in q) # ((3 \in q) # (4 \in q))))
  /\ (6 \in w) <=> ((1 \in q) # ((2 \in q) # (4 \in q)))
  /\ (7 \in w) <=> ((2 \in q) # (3 \in q))
  /\ (8 \in w) <=> ((0 \in q) # ((3 \in q) # (4 \in q)))
  /\ (9 \in w) <=> ((1 \in q) # (4 \in q))
  /\ (10 \in w) <=> ((0 \in q) # (2 \in q))
  /\ (11 \in w) <=> ((1 \in q) # (3 \in q))
  /\ (12 \in w) <=> ((2 \in q) # (4 \in q))
  /\ (13 \in w) <=> 3 \in q
  /\ (14 \in w) <=> 4 \in q

\* FormatCode consists of these multiples.
LEMMA FormatCodeIs ==
  ASSUME NEW q, q \subseteq 0 .. 4, NEW w
  PROVE  (w \subseteq 0 .. 14 /\ IsMultiple(w, q)) <=>
           w = {j \in 0 .. 14 : Cardinality({i \in q : j - i \in FormatPoly}) % 2 = 1}
<1> DEFINE terms(j) == {i \in q : j - i \in FormatPoly}
           W == {j \in 0 .. 14 : Odd(terms(j))}
<1>1. ASSUME NEW j \in 0 .. 14
      PROVE  /\ terms(j) \subseteq 0 .. 4
             /\ \A i \in 0 .. 4 : i \in terms(j) <=> i \in q /\ j - i \in FormatPoly
  OBVIOUS
<1>2. ASSUME NEW j \in 0 .. 14
      PROVE  j \in W <=>
               ((0 \in q /\ j \in FormatPoly) # ((1 \in q /\ j - 1 \in FormatPoly) #
                 ((2 \in q /\ j - 2 \in FormatPoly) # ((3 \in q /\ j - 3 \in FormatPoly) #
                   (4 \in q /\ j - 4 \in FormatPoly)))))
  <2>1. Odd(terms(j)) <=>
          ((0 \in terms(j)) # ((1 \in terms(j)) # ((2 \in terms(j)) #
            ((3 \in terms(j)) # (4 \in terms(j))))))
    BY <1>1, OddOfFive
  <2>2. j \in W <=> Odd(terms(j))
    OBVIOUS
  <2>3. /\ 0 \in terms(j) <=> 0 \in q /\ j \in FormatPoly
        /\ 1 \in terms(j) <=> 1 \in q /\ j - 1 \in FormatPoly
        /\ 2 \in terms(j) <=> 2 \in q /\ j - 2 \in FormatPoly
        /\ 3 \in terms(j) <=> 3 \in q /\ j - 3 \in FormatPoly
        /\ 4 \in terms(j) <=> 4 \in q /\ j - 4 \in FormatPoly
    BY <1>1
  <2> HIDE DEF terms, W
  <2> QED
    BY <2>1, <2>2, <2>3 DEF Odd
<1> HIDE DEF terms, W
<1>3. (0 \in W) <=> 0 \in q
  BY <1>2 DEF FormatPoly
<1>4. (1 \in W) <=> ((0 \in q) # (1 \in q))
  BY <1>2 DEF FormatPoly
<1>5. (2 \in W) <=> ((0 \in q) # ((1 \in q) # (2 \in q)))
  BY <1>2 DEF FormatPoly
<1>6. (3 \in W) <=> ((1 \in q) # ((2 \in q) # (3 \in q)))
  BY <1>2 DEF FormatPoly
<1>7. (4 \in W) <=> ((0 \in q) # ((2 \in q) # ((3 \in q) # (4 \in q))))
  BY <1>2 DEF FormatPoly
<1>8. (5 \in W) <=> ((0 \in q) # ((1 \in q) # ((3 \in q) # (4 \in q))))
  BY <1>2 DEF FormatPoly
<1>9. (6 \in W) <=> ((1 \in q) # ((2 \in q) # (4 \in q)))
  BY <1>2 DEF FormatPoly
<1>10. (7 \in W) <=> ((2 \in q) # (3 \in q))
  BY <1>2 DEF FormatPoly
<1>11. (8 \in W) <=> ((0 \in q) # ((3 \in q) # (4 \in q)))
  BY <1>2 DEF FormatPoly
<1>12. (9 \in W) <=> ((1 \in q) # (4 \in q))
  BY <1>2 DEF FormatPoly
<1>13. (10 \in W) <=> ((0 \in q) # (2 \in q))
  BY <1>2 DEF FormatPoly
<1>14. (11 \in W) <=> ((1 \in q) # (3 \in q))
  BY <1>2 DEF FormatPoly
<1>15. (12 \in W) <=> ((2 \in q) # (4 \in q))
  BY <1>2 DEF FormatPoly
<1>16. (13 \in W) <=> 3 \in q
  BY <1>2 DEF FormatPoly
<1>17. (14 \in W) <=> 4 \in q
  BY <1>2 DEF FormatPoly
<1>18. W \subseteq 0 .. 14 /\ IsMultiple(W, q)
  <2>1. W \subseteq 0 .. 14
    BY DEF W
  <2> QED
    BY <2>1, <1>3, <1>4, <1>5, <1>6, <1>7, <1>8, <1>9, <1>10, <1>11, <1>12,
       <1>13, <1>14, <1>15, <1>16, <1>17 DEF IsMultiple
<1>19. (w \subseteq 0 .. 14 /\ IsMultiple(w, q)) => w = W
  <2>1. ASSUME w \subseteq 0 .. 14, IsMultiple(w, q), NEW j \in 0 .. 14
        PROVE  j \in w <=> j \in W
    <3>1. j \in {0, 1, 2, 3, 4, 5, 6, 7, 8, 9, 10, 11, 12, 13, 14}
      OBVIOUS
    <3> QED
      BY <1>18, <2>1, <3>1 DEF IsMultiple
  <2> QED
    BY <1>18, <2>1
<1>20. W = {j \in 0 .. 14 : Cardinality({i \in q : j - i \in FormatPoly}) % 2 = 1}
  BY DEF Odd, terms, W
<1> QED
  BY <1>18, <1>19, <1>20

\* s comes of r in a round of the division by the format polynomial.
Advances(r, s) ==
  /\ s \subseteq 0 .. 9
  /\ 0 \in s <=> 9 \in r
  /\ (1 \in s) <=> ((0 \in r) # (9 \in r))
  /\ (2 \in s) <=> ((1 \in r) # (9 \in r))
  /\ 3 \in s <=> 2 \in r
  /\ (4 \in s) <=> ((3 \in r) # (9 \in r))
  /\ (5 \in s) <=> ((4 \in r) # (9 \in r))
  /\ 6 \in s <=> 5 \in r
  /\ 7 \in s <=> 6 \in r
  /\ (8 \in s) <=> ((7 \in r) # (9 \in r))
  /\ 9 \in s <=> 8 \in r

\* A round of setFormatBits advances.
LEMMA FormatStepIs ==
  ASSUME NEW r, r \subseteq 0 .. 9
  PROVE  Advances(r, FormatStep[r])
<1>1. FormatStep[r] = IF 9 \in r THEN Xor(Shifted(r), FormatPoly) ELSE Shifted(r)
  BY DEF FormatStep
<1>2. \A t : t \in FormatStep[r] <=>
               ~ ((\E k \in r : t = k + 1) <=> (9 \in r /\ t \in FormatPoly))
  BY <1>1 DEF Xor, Shifted
<1>3. \A t \in Int : (t \in FormatStep[r]) <=>
                       ((t - 1 \in r) # (9 \in r /\ t \in FormatPoly))
  <2>1. ASSUME NEW t \in Int
        PROVE  (\E k \in r : t = k + 1) <=> t - 1 \in r
    OBVIOUS
  <2>2. ASSUME NEW t \in Int
        PROVE  (t \in FormatStep[r]) <=>
                 ((t - 1 \in r) # (9 \in r /\ t \in FormatPoly))
    BY <1>2, <2>1
  <2> QED
    BY <2>2
<1>4. FormatStep[r] \subseteq Int
  <2>1. FormatPoly \subseteq Int
    BY DEF FormatPoly
  <2>2. \A k \in r : k + 1 \in Int
    OBVIOUS
  <2>3. ASSUME NEW t \in FormatStep[r]
        PROVE  t \in Int
    <3>1. (\E k \in r : t = k + 1) \/ t \in FormatPoly
      BY <1>2
    <3> QED
      BY <2>1, <2>2, <3>1
  <2> QED
    BY <2>3
<1>5. FormatStep[r] \subseteq 0 .. 9
  <2>1. \A t \in Int \ (0 .. 9) : (t - 1 \in r) <=> (9 \in r /\ t \in FormatPoly)
    BY DEF FormatPoly
  <2> QED
    BY <1>3, <1>4, <2>1
<1> HIDE <1>1
<1>6. /\ 0 \in FormatStep[r] <=> 9 \in r
      /\ (1 \in FormatStep[r]) <=> ((0 \in r) # (9 \in r))
      /\ (2 \in FormatStep[r]) <=> ((1 \in r) # (9 \in r))
      /\ 3 \in FormatStep[r] <=> 2 \in r
      /\ (4 \in FormatStep[r]) <=> ((3 \in r) # (9 \in r))
  BY <1>3 DEF FormatPoly
<1>7. /\ (5 \in FormatStep[r]) <=> ((4 \in r) # (9 \in r))
      /\ 6 \in FormatStep[r] <=> 5 \in r
      /\ 7 \in FormatStep[r] <=> 6 \in r
      /\ (8 \in FormatStep[r]) <=> ((7 \in r) # (9 \in r))
      /\ 9 \in FormatStep[r] <=> 8 \in r
  BY <1>3 DEF FormatPoly
<1> QED
  BY <1>5, <1>6, <1>7 DEF Advances

\* What FormatRem's rounds leave, one after the other.
Rounds10(data) ==
  CHOOSE f : f = [i \in 0 .. 10 |-> IF i = 0 THEN data ELSE FormatStep[f[i - 1]]]

\* There are such values, since there are ten of them.
LEMMA FormatRounds ==
  ASSUME NEW data
  PROVE  /\ Rounds10(data)[0] = data
         /\ \A i \in 1 .. 10 :
              Rounds10(data)[i] = FormatStep[Rounds10(data)[i - 1]]
<1> DEFINE Good(f) ==
      f = [i \in 0 .. 10 |-> IF i = 0 THEN data ELSE FormatStep[f[i - 1]]]
<1>1. PICK s1, s2, s3, s4, s5, s6, s7, s8, s9, s10 :
        /\ s1 = FormatStep[data] /\ s2 = FormatStep[s1] /\ s3 = FormatStep[s2]
        /\ s4 = FormatStep[s3] /\ s5 = FormatStep[s4] /\ s6 = FormatStep[s5]
        /\ s7 = FormatStep[s6] /\ s8 = FormatStep[s7] /\ s9 = FormatStep[s8]
        /\ s10 = FormatStep[s9]
  OBVIOUS
<1>2. \E f : Good(f)
  <2>1. PICK s : s = <<data, s1, s2, s3, s4, s5, s6, s7, s8, s9, s10>>
    OBVIOUS
  <2>2. PICK g : g = [i \in 0 .. 10 |-> s[i + 1]]
    OBVIOUS
  <2>3. /\ g[0] = data /\ g[1] = s1 /\ g[2] = s2 /\ g[3] = s3 /\ g[4] = s4 /\ g[5] = s5
        /\ g[6] = s6 /\ g[7] = s7 /\ g[8] = s8 /\ g[9] = s9 /\ g[10] = s10
    BY <2>1, <2>2
  <2> HIDE <2>1, <2>2
  <2>4. /\ g[1] = FormatStep[g[0]] /\ g[2] = FormatStep[g[1]] /\ g[3] = FormatStep[g[2]]
        /\ g[4] = FormatStep[g[3]] /\ g[5] = FormatStep[g[4]] /\ g[6] = FormatStep[g[5]]
        /\ g[7] = FormatStep[g[6]] /\ g[8] = FormatStep[g[7]] /\ g[9] = FormatStep[g[8]]
        /\ g[10] = FormatStep[g[9]]
    BY <1>1, <2>3
  <2>5. ASSUME NEW i \in 1 .. 10
        PROVE  g[i] = FormatStep[g[i - 1]]
    <3> HIDE <2>3
    <3>1. PICK k \in 0 .. 9 : k = i - 1 /\ i = k + 1
      OBVIOUS
    <3>2. \/ (k = 0 /\ i = 1) \/ (k = 1 /\ i = 2) \/ (k = 2 /\ i = 3)
          \/ (k = 3 /\ i = 4) \/ (k = 4 /\ i = 5) \/ (k = 5 /\ i = 6)
          \/ (k = 6 /\ i = 7) \/ (k = 7 /\ i = 8) \/ (k = 8 /\ i = 9)
          \/ (k = 9 /\ i = 10)
      BY <3>1
    <3>3. g[i] = FormatStep[g[k]]
      BY <2>4, <3>2, Zenon
    <3> QED
      BY <3>1, <3>3
  <2>6. ASSUME NEW i \in 0 .. 10
        PROVE  g[i] = IF i = 0 THEN data ELSE FormatStep[g[i - 1]]
    BY <2>3, <2>5
  <2>7. Good(g)
    BY <2>2, <2>6
  <2> QED
    BY <2>7
<1>3. Good(Rounds10(data))
  BY <1>2, Zenon DEF Rounds10
<1> QED
  BY <1>3

\* The rounds of FormatRem are these.
LEMMA FormatRemIs ==
  ASSUME NEW data
  PROVE  FormatRem(data) = Rounds10(data)[10]
BY Zenon DEF FormatRem, Rounds10

\* The remainder of the format data of level L, in the bits of the mask.
LEMMA FormatRemBits ==
  ASSUME NEW D, D \subseteq 0 .. 4, 3 \in D, 4 \notin D
  PROVE  LET R == FormatRem(D)
         IN  /\ R \subseteq 0 .. 9
             /\ (0 \in R) <=> ((0 \in D) # (2 \in D))
             /\ (1 \in R) <=> ~ ((0 \in D) # ((1 \in D) # (2 \in D)))
             /\ (2 \in R) <=> ~ ((0 \in D) # (1 \in D))
             /\ (3 \in R) <=> ((1 \in D) # (2 \in D))
             /\ 4 \in R <=> 0 \notin D
             /\ (5 \in R) <=> ((0 \in D) # ((1 \in D) # (2 \in D)))
             /\ (6 \in R) <=> ~ ((1 \in D) # (2 \in D))
             /\ 7 \in R <=> 2 \notin D
             /\ (8 \in R) <=> ~ ((0 \in D) # (2 \in D))
             /\ 9 \in R <=> 1 \notin D
<1>1. PICK s : s = Rounds10(D)
  OBVIOUS
<1>2. s[0] = D /\ \A i \in 1 .. 10 : s[i] = FormatStep[s[i - 1]]
  BY <1>1, FormatRounds
<1>3. s[0] \subseteq 0 .. 9
  BY <1>2
<1>4. \A i \in 1 .. 10 : s[i - 1] \subseteq 0 .. 9 => Advances(s[i - 1], s[i])
  BY <1>2, FormatStepIs
<1>5. Advances(s[0], s[1]) /\ s[1] \subseteq 0 .. 9
  BY <1>3, <1>4 DEF Advances
<1>6. Advances(s[1], s[2]) /\ s[2] \subseteq 0 .. 9
  BY <1>5, <1>4 DEF Advances
<1>7. Advances(s[2], s[3]) /\ s[3] \subseteq 0 .. 9
  BY <1>6, <1>4 DEF Advances
<1>8. Advances(s[3], s[4]) /\ s[4] \subseteq 0 .. 9
  BY <1>7, <1>4 DEF Advances
<1>9. Advances(s[4], s[5]) /\ s[5] \subseteq 0 .. 9
  BY <1>8, <1>4 DEF Advances
<1>10. Advances(s[5], s[6]) /\ s[6] \subseteq 0 .. 9
  BY <1>9, <1>4 DEF Advances
<1>11. Advances(s[6], s[7]) /\ s[7] \subseteq 0 .. 9
  BY <1>10, <1>4 DEF Advances
<1>12. Advances(s[7], s[8]) /\ s[8] \subseteq 0 .. 9
  BY <1>11, <1>4 DEF Advances
<1>13. Advances(s[8], s[9]) /\ s[9] \subseteq 0 .. 9
  BY <1>12, <1>4 DEF Advances
<1>14. Advances(s[9], s[10]) /\ s[10] \subseteq 0 .. 9
  BY <1>13, <1>4 DEF Advances
<1>15. /\ 5 \notin D /\ 6 \notin D /\ 7 \notin D /\ 8 \notin D /\ 9 \notin D
  OBVIOUS
<1>16. /\ \A i \in 0 .. 5 : i \notin s[6]
       /\ 6 \in s[6] <=> 0 \in D
       /\ 7 \in s[6] <=> 1 \in D
       /\ 8 \in s[6] <=> 2 \in D
       /\ 9 \in s[6]
  BY <1>2, <1>5, <1>6, <1>7, <1>8, <1>9, <1>10, <1>15 DEF Advances
<1>17. FormatRem(D) = s[10]
  BY <1>1, FormatRemIs
<1> HIDE <1>1, <1>2, <1>3, <1>4
<1> QED
  BY <1>11, <1>12, <1>13, <1>14, <1>16, <1>17 DEF Advances

\* The code word of mask m: the format data and their remainder.
CodeWord(m) == {i + 10 : i \in FormatData(m)} \cup FormatRem(FormatData(m))

\* The numbers of the masks, bit by bit.
LEMMA MaskBits ==
  ASSUME NEW m \in Mask
  PROVE  /\ (0 \in CountByte(m)) <=> m \in {1, 3, 5, 7}
         /\ (1 \in CountByte(m)) <=> m \in {2, 3, 6, 7}
         /\ (2 \in CountByte(m)) <=> m \in {4, 5, 6, 7}
         /\ CountByte(m) \subseteq 0 .. 2
<1>1. m \in {0, 1, 2, 3, 4, 5, 6, 7}
  BY DEF Mask
<1>2. /\ 2 ^ 0 = 1 /\ 2 ^ 1 = 2 /\ 2 ^ 2 = 4 /\ 2 ^ 3 = 8
      /\ 2 ^ 4 = 16 /\ 2 ^ 5 = 32 /\ 2 ^ 6 = 64 /\ 2 ^ 7 = 128
  OBVIOUS
<1>3. ASSUME NEW b \in Bit
      PROVE  b \in CountByte(m) <=> (m \div 2 ^ b) % 2 = 1
  BY DEF CountByte
<1>4. (0 \in CountByte(m)) <=> m \in {1, 3, 5, 7}
  BY <1>1, <1>2, <1>3 DEF Bit
<1>5. (1 \in CountByte(m)) <=> m \in {2, 3, 6, 7}
  BY <1>1, <1>2, <1>3 DEF Bit
<1>6. (2 \in CountByte(m)) <=> m \in {4, 5, 6, 7}
  BY <1>1, <1>2, <1>3 DEF Bit
<1>7. 3 \notin CountByte(m) /\ 4 \notin CountByte(m) /\ 5 \notin CountByte(m)
  BY <1>1, <1>2, <1>3 DEF Bit
<1>8. 6 \notin CountByte(m) /\ 7 \notin CountByte(m)
  BY <1>1, <1>2, <1>3 DEF Bit
<1>9. CountByte(m) \subseteq Bit
  BY DEF CountByte
<1> QED
  BY <1>4, <1>5, <1>6, <1>7, <1>8, <1>9 DEF Bit

\* No two masks have the same number.
LEMMA MasksDiffer ==
  ASSUME NEW m \in Mask, NEW n \in Mask, CountByte(m) = CountByte(n)
  PROVE  m = n
<1>1. /\ m \in {1, 3, 5, 7} <=> n \in {1, 3, 5, 7}
      /\ m \in {2, 3, 6, 7} <=> n \in {2, 3, 6, 7}
      /\ m \in {4, 5, 6, 7} <=> n \in {4, 5, 6, 7}
  BY MaskBits
<1>2. m \in {0, 1, 2, 3, 4, 5, 6, 7} /\ n \in {0, 1, 2, 3, 4, 5, 6, 7}
  BY DEF Mask
<1> QED
  BY <1>1, <1>2

\* The format data are the mask's number, and the level above it.
LEMMA FormatDataIs ==
  ASSUME NEW m \in Mask
  PROVE  /\ FormatData(m) \subseteq 0 .. 4 /\ 3 \in FormatData(m) /\ 4 \notin FormatData(m)
         /\ \A i \in 0 .. 2 : i \in FormatData(m) <=> i \in CountByte(m)
BY DEF FormatData, CountByte, Bit

\* The code word, bit by bit.
LEMMA CodeWordBits ==
  ASSUME NEW m \in Mask
  PROVE  /\ CodeWord(m) \subseteq 0 .. 14
         /\ \A i \in 0 .. 9 : i \in CodeWord(m) <=> i \in FormatRem(FormatData(m))
         /\ \A i \in 0 .. 4 : i + 10 \in CodeWord(m) <=> i \in FormatData(m)
<1>1. FormatRem(FormatData(m)) \subseteq 0 .. 9
  BY FormatDataIs, FormatRemBits
<1>2. FormatData(m) \subseteq 0 .. 4
  BY FormatDataIs
<1>3. ASSUME NEW i \in 0 .. 9
      PROVE  i \in CodeWord(m) <=> i \in FormatRem(FormatData(m))
  BY <1>2 DEF CodeWord
<1>4. ASSUME NEW i \in 0 .. 4
      PROVE  i + 10 \in CodeWord(m) <=> i \in FormatData(m)
  BY <1>1, <1>2 DEF CodeWord
<1>5. CodeWord(m) \subseteq 0 .. 14
  BY <1>1, <1>2 DEF CodeWord
<1> QED
  BY <1>3, <1>4, <1>5

\* What setFormatBits computes is a word of the code.
LEMMA CodeWordInCode ==
  ASSUME NEW m \in Mask
  PROVE  CodeWord(m) \in FormatCode
<1>1. PICK D, R, w : D = FormatData(m) /\ R = FormatRem(D) /\ w = CodeWord(m)
  OBVIOUS
<1>2. D \subseteq 0 .. 4 /\ 3 \in D /\ 4 \notin D
  BY <1>1, FormatDataIs
<1>3. /\ (0 \in R) <=> ((0 \in D) # (2 \in D))
      /\ (1 \in R) <=> ~ ((0 \in D) # ((1 \in D) # (2 \in D)))
      /\ (2 \in R) <=> ~ ((0 \in D) # (1 \in D))
      /\ (3 \in R) <=> ((1 \in D) # (2 \in D))
      /\ 4 \in R <=> 0 \notin D
      /\ (5 \in R) <=> ((0 \in D) # ((1 \in D) # (2 \in D)))
      /\ (6 \in R) <=> ~ ((1 \in D) # (2 \in D))
      /\ 7 \in R <=> 2 \notin D
      /\ (8 \in R) <=> ~ ((0 \in D) # (2 \in D))
      /\ 9 \in R <=> 1 \notin D
  BY <1>1, <1>2, FormatRemBits
<1>4. /\ 0 \in w <=> 0 \in R
      /\ 1 \in w <=> 1 \in R
      /\ 2 \in w <=> 2 \in R
      /\ 3 \in w <=> 3 \in R
      /\ 4 \in w <=> 4 \in R
      /\ 5 \in w <=> 5 \in R
      /\ 6 \in w <=> 6 \in R
      /\ 7 \in w <=> 7 \in R
      /\ 8 \in w <=> 8 \in R
      /\ 9 \in w <=> 9 \in R
  BY <1>1, CodeWordBits
<1>5. /\ 10 \in w <=> 0 \in D
      /\ 11 \in w <=> 1 \in D
      /\ 12 \in w <=> 2 \in D
      /\ 13 \in w <=> 3 \in D
      /\ 14 \in w <=> 4 \in D
  <2>1. \A i \in 0 .. 4 : i + 10 \in w <=> i \in D
    BY <1>1, CodeWordBits
  <2> QED
    BY <2>1
<1>6. PICK q : q = {i \in 0 .. 3 : \/ (i = 0 /\ ((0 \in D) # (2 \in D)))
                                   \/ (i = 1 /\ 1 \notin D)
                                   \/ (i = 2 /\ 2 \in D)
                                   \/ i = 3}
  OBVIOUS
<1>7. /\ q \subseteq 0 .. 4
      /\ (0 \in q) <=> ((0 \in D) # (2 \in D))
      /\ 1 \in q <=> 1 \notin D
      /\ 2 \in q <=> 2 \in D
      /\ 3 \in q
      /\ 4 \notin q
  BY <1>6
<1>8. IsMultiple(w, q)
  <2> HIDE <1>1, <1>6
  <2> QED
    BY <1>2, <1>3, <1>4, <1>5, <1>7 DEF IsMultiple
<1>9. w = {j \in 0 .. 14 : Cardinality({i \in q : j - i \in FormatPoly}) % 2 = 1}
  BY <1>1, <1>7, <1>8, CodeWordBits, FormatCodeIs
<1> QED
  BY <1>1, <1>7, <1>9 DEF FormatCode

\* Bits 1, 2, 3 and 11 of a code word add up to nothing.
LEMMA FormatCodeCheck ==
  ASSUME NEW w \in FormatCode
  PROVE  ~ ((1 \in w) # ((2 \in w) # ((3 \in w) # (11 \in w))))
<1>1. PICK q \in SUBSET (0 .. 4) :
        w = {j \in 0 .. 14 : Cardinality({i \in q : j - i \in FormatPoly}) % 2 = 1}
  BY DEF FormatCode
<1>2. IsMultiple(w, q)
  BY <1>1, FormatCodeIs
<1> QED
  BY <1>2 DEF IsMultiple

\* The second copy of setFormatBits is transposed: where the standard has bit i, the
\* encoder puts bit 14 - i.  Read from there, the bits 1, 2, 3 and 11 do not add up.
LEMMA TransposedIsNoWord ==
  ASSUME NEW m \in Mask, NEW B,
         1 \in B <=> 13 \in FormatWord(m), 2 \in B <=> 12 \in FormatWord(m),
         3 \in B <=> 11 \in FormatWord(m), 11 \in B <=> 3 \in FormatWord(m)
  PROVE  Xor(B, FormatXor) \notin FormatCode
<1>1. PICK D, R, w, u :
        /\ D = FormatData(m) /\ R = FormatRem(D) /\ w = FormatWord(m)
        /\ u = Xor(B, FormatXor)
  OBVIOUS
<1>2. \A i : i \in w <=> ~ (i \in CodeWord(m) <=> i \in FormatXor)
  BY <1>1 DEF FormatWord, CodeWord, Xor
<1>3. /\ 3 \notin FormatXor /\ 11 \notin FormatXor /\ 13 \notin FormatXor /\ 2 \notin FormatXor
      /\ 12 \in FormatXor /\ 1 \in FormatXor
  BY DEF FormatXor
<1>4. 3 \in D /\ ((3 \in R) <=> ((1 \in D) # (2 \in D)))
  BY <1>1, FormatDataIs, FormatRemBits
<1>5. /\ 3 \in CodeWord(m) <=> 3 \in R
      /\ 1 + 10 \in CodeWord(m) <=> 1 \in D
      /\ 2 + 10 \in CodeWord(m) <=> 2 \in D
      /\ 3 + 10 \in CodeWord(m) <=> 3 \in D
  BY <1>1, CodeWordBits
<1>6. /\ 3 \in w <=> 3 \in R
      /\ 11 \in w <=> 1 \in D
      /\ 12 \in w <=> 2 \notin D
      /\ 13 \in w
  BY <1>2, <1>3, <1>4, <1>5
<1>7. \A i : i \in u <=> ~ (i \in B <=> i \in FormatXor)
  BY <1>1 DEF Xor
<1>8. /\ 1 \notin u /\ (2 \in u <=> 2 \notin D) /\ (3 \in u <=> 1 \in D)
      /\ ((11 \in u) <=> ((1 \in D) # (2 \in D)))
  BY <1>1, <1>3, <1>4, <1>6, <1>7
<1>9. (1 \in u) # ((2 \in u) # ((3 \in u) # (11 \in u)))
  BY <1>8
<1> QED
  BY <1>1, <1>9, FormatCodeCheck

\* The format word has 15 bits, and under its xor it is a code word.
LEMMA FormatWordIs ==
  ASSUME NEW m \in Mask
  PROVE  FormatWord(m) \subseteq 0 .. 14 /\ Xor(FormatWord(m), FormatXor) = CodeWord(m)
<1>1. CodeWord(m) \subseteq 0 .. 14
  BY CodeWordBits
<1>2. FormatXor \subseteq 0 .. 14
  BY DEF FormatXor
<1>3. FormatWord(m) = Xor(CodeWord(m), FormatXor)
  BY DEF FormatWord, CodeWord
<1> QED
  BY <1>1, <1>2, <1>3 DEF Xor

\* Where the copies of the format bits are.
LEMMA FirstCopyIs ==
  ASSUME NEW i \in 0 .. 14
  PROVE  FirstCopy(i) = <<IF i <= 7 THEN 8 ELSE IF i = 8 THEN 7 ELSE 14 - i,
                          IF i <= 5 THEN i ELSE IF i <= 7 THEN i + 1 ELSE 8>>
<1>1. CASE i <= 5
  BY <1>1 DEF FirstCopy
<1>2. CASE i = 6
  BY <1>2 DEF FirstCopy
<1>3. CASE i = 7
  BY <1>3 DEF FirstCopy
<1>4. CASE i = 8
  BY <1>4 DEF FirstCopy
<1>5. CASE i >= 9
  BY <1>5 DEF FirstCopy
<1> QED
  BY <1>1, <1>2, <1>3, <1>4, <1>5

\* The first copy lies in the first nine rows and columns, the second does not, nor
\* does the dark module; no module has two bits of a copy.
LEMMA CopiesApart ==
  ASSUME NEW v \in Version
  PROVE  /\ \A i, j \in 0 .. 14 : FirstCopy(i) = FirstCopy(j) => i = j
         /\ \A i, j \in 0 .. 14 : SecondCopy(v, i) = SecondCopy(v, j) => i = j
         /\ \A i, j \in 0 .. 14 : FirstCopy(i) # SecondCopy(v, j)
         /\ \A i \in 0 .. 14 : FirstCopy(i) # DarkModule(v)
         /\ \A i \in 0 .. 14 : SecondCopy(v, i) = DarkModule(v) => i = 7
<1>1. PICK z \in Int : z = Size(v) /\ z >= 21
  BY Sizes
<1>2. ASSUME NEW i \in 0 .. 14, NEW j \in 0 .. 14, FirstCopy(i) = FirstCopy(j)
      PROVE  i = j
  BY <1>2, FirstCopyIs
<1>3. ASSUME NEW i \in 0 .. 14
      PROVE  SecondCopy(v, i) = IF i <= 7 THEN <<8, z - 1 - i>> ELSE <<z - 15 + i, 8>>
  BY <1>1 DEF SecondCopy
<1>4. ASSUME NEW i \in 0 .. 14, NEW j \in 0 .. 14, SecondCopy(v, i) = SecondCopy(v, j)
      PROVE  i = j
  BY <1>1, <1>3, <1>4
<1>5. ASSUME NEW i \in 0 .. 14, NEW j \in 0 .. 14
      PROVE  FirstCopy(i) # SecondCopy(v, j)
  BY <1>1, <1>3, FirstCopyIs
<1>6. DarkModule(v) = <<8, z - 8>>
  BY <1>1 DEF DarkModule
<1>7. ASSUME NEW i \in 0 .. 14
      PROVE  FirstCopy(i) # DarkModule(v)
  BY <1>1, <1>6, FirstCopyIs
<1>8. ASSUME NEW i \in 0 .. 14, SecondCopy(v, i) = DarkModule(v)
      PROVE  i = 7
  BY <1>1, <1>3, <1>6, <1>8
<1> QED
  BY <1>2, <1>4, <1>5, <1>7, <1>8

\* setFormatBits leaves the format word in both copies, all but bit 7 in the second.
LEMMA CopiesShow ==
  ASSUME NEW v \in Version, NEW m \in Mask, NEW d, NEW i \in 0 .. 14
  PROVE  /\ FirstCopy(i) \in Formatted(d, v, m) <=> i \in FormatWord(m)
         /\ i # 7 => (SecondCopy(v, i) \in Formatted(d, v, m) <=> i \in FormatWord(m))
<1>1. PICK W : W = FormatWord(m) /\ W \subseteq 0 .. 14
  BY FormatWordIs
<1>2. FormatCells(v, 0 .. 14) \subseteq Grid(v)
  <2>1. FormatCells(v, 0 .. 14) \subseteq FormatArea(v) \cup {DarkModule(v)}
    BY FormatCellsAre
  <2> QED
    BY <2>1, AreasInGrid DEF FunctionArea
<1>3. ASSUME NEW p, p \in FormatCells(v, 0 .. 14)
      PROVE  p \in Formatted(d, v, m) <=> p \in FormatCells(v, W) \cup {DarkModule(v)}
  BY <1>1, <1>2, <1>3 DEF Formatted
<1>4. FirstCopy(i) \in FormatCells(v, 0 .. 14) /\ SecondCopy(v, i) \in FormatCells(v, 0 .. 14)
  BY DEF FormatCells
<1>5. FirstCopy(i) \in FormatCells(v, W) <=> i \in W
  BY <1>1, CopiesApart DEF FormatCells
<1>6. SecondCopy(v, i) \in FormatCells(v, W) <=> i \in W
  BY <1>1, CopiesApart DEF FormatCells
<1>7. FirstCopy(i) # DarkModule(v) /\ (i # 7 => SecondCopy(v, i) # DarkModule(v))
  BY CopiesApart
<1> QED
  BY <1>1, <1>3, <1>4, <1>5, <1>6, <1>7

\* A reader gets the code word from the first copy, and from the second, which is
\* transposed, no code word.
LEMMA FormatRead ==
  ASSUME NEW v \in Version, NEW m \in Mask, NEW d, NEW e, e = Formatted(d, v, m)
  PROVE  \E u : /\ u \subseteq 0 .. 14 /\ u \notin FormatCode
                /\ ReadFormat(e, v) = {CodeWord(m), u}
<1>1. PICK z \in Int : z = Size(v) /\ z >= 21
  BY Sizes
<1>2. PICK W : W = FormatWord(m) /\ W \subseteq 0 .. 14
  BY FormatWordIs
<1>3. PICK A : A = {i \in 0 .. 5 : <<8, i>> \in e} \cup {i \in 6 .. 7 : <<8, i + 1>> \in e}
                     \cup {i \in {8} : <<7, 8>> \in e}
                     \cup {i \in 9 .. 14 : <<14 - i, 8>> \in e}
  OBVIOUS
<1>4. PICK B : B = {i \in 0 .. 7 : <<z - 1 - i, 8>> \in e}
                     \cup {i \in 8 .. 14 : <<8, z - 15 + i>> \in e}
  OBVIOUS
<1>5. ReadFormat(e, v) = {Xor(A, FormatXor), Xor(B, FormatXor)}
  <2>1. A = ({i \in 0 .. 5 : <<8, i>> \in e} \cup {i \in 6 .. 7 : <<8, i + 1>> \in e})
              \cup ({i \in {8} : <<7, 8>> \in e}
                      \cup {i \in 9 .. 14 : <<14 - i, 8>> \in e})
    BY <1>3
  <2> QED
    BY <1>1, <1>4, <2>1 DEF ReadFormat
<1>6. ASSUME NEW i \in 0 .. 14
      PROVE  i \in A <=> FirstCopy(i) \in e
  <2>1. CASE i <= 5
    BY <1>3, <2>1 DEF FirstCopy
  <2>2. CASE i = 6
    BY <1>3, <2>2 DEF FirstCopy
  <2>3. CASE i = 7
    BY <1>3, <2>3 DEF FirstCopy
  <2>4. CASE i = 8
    BY <1>3, <2>4 DEF FirstCopy
  <2>5. CASE i >= 9
    BY <1>3, <2>5 DEF FirstCopy
  <2> QED
    BY <2>1, <2>2, <2>3, <2>4, <2>5
<1>7. A = W
  <2>1. \A i \in 0 .. 14 : i \in A <=> i \in W
    BY <1>2, <1>6, CopiesShow
  <2>2. A \subseteq 0 .. 14
    BY <1>3
  <2> QED
    BY <1>2, <2>1, <2>2
<1>8. /\ 1 \in B <=> 13 \in W
      /\ 2 \in B <=> 12 \in W
      /\ 3 \in B <=> 11 \in W
      /\ 11 \in B <=> 3 \in W
  <2>1. /\ 1 \in B <=> <<z - 2, 8>> \in e
        /\ 2 \in B <=> <<z - 3, 8>> \in e
        /\ 3 \in B <=> <<z - 4, 8>> \in e
        /\ 11 \in B <=> <<8, z - 4>> \in e
    BY <1>1, <1>4
  <2>2. /\ SecondCopy(v, 13) = <<z - 2, 8>>
        /\ SecondCopy(v, 12) = <<z - 3, 8>>
        /\ SecondCopy(v, 11) = <<z - 4, 8>>
        /\ SecondCopy(v, 3) = <<8, z - 4>>
    BY <1>1 DEF SecondCopy
  <2>3. \A i \in 0 .. 14 : i # 7 => (SecondCopy(v, i) \in e <=> i \in W)
    BY <1>2, CopiesShow
  <2>4. /\ SecondCopy(v, 13) \in e <=> 13 \in W
        /\ SecondCopy(v, 12) \in e <=> 12 \in W
        /\ SecondCopy(v, 11) \in e <=> 11 \in W
        /\ SecondCopy(v, 3) \in e <=> 3 \in W
    BY <2>3
  <2> QED
    BY <2>1, <2>2, <2>4
<1>9. Xor(B, FormatXor) \notin FormatCode
  BY <1>2, <1>8, TransposedIsNoWord
<1>10. Xor(B, FormatXor) \subseteq 0 .. 14
  <2>1. B \subseteq 0 .. 14
    BY <1>4
  <2> QED
    BY <2>1 DEF Xor, FormatXor
<1>11. Xor(A, FormatXor) = CodeWord(m)
  BY <1>2, <1>7, FormatWordIs
<1> QED
  BY <1>5, <1>9, <1>10, <1>11

\* So the nearest format word is the first copy's, and names level and mask.
LEMMA NearestRead ==
  ASSUME NEW v \in Version, NEW m \in Mask, NEW d, NEW e, e = Formatted(d, v, m),
         NEW f \in NearestFormats(e, v)
  PROVE  f.level = {13} /\ f.mask = m
<1>1. PICK u : /\ u \subseteq 0 .. 14 /\ u \notin FormatCode
               /\ ReadFormat(e, v) = {CodeWord(m), u}
  BY FormatRead
<1>2. PICK w \in FormatCode :
        /\ \E n \in {Cardinality(Xor(w, c)) : c \in ReadFormat(e, v)} :
             \A x \in FormatCode :
               \A k \in {Cardinality(Xor(x, c)) : c \in ReadFormat(e, v)} : n <= k
        /\ f = [level |-> w \cap {13, 14},
                mask  |-> CHOOSE l \in Mask :
                            CountByte(l) = {i - 10 : i \in w \cap 10 .. 12}]
  BY DEF NearestFormats
<1>3. PICK c \in {CodeWord(m), u} :
        \A x \in FormatCode :
          \A k \in {Cardinality(Xor(x, y)) : y \in {CodeWord(m), u}} :
            Cardinality(Xor(w, c)) <= k
  BY <1>1, <1>2
<1>4. Cardinality(Xor(w, c)) <= 0
  <2>1. Cardinality(Xor(CodeWord(m), CodeWord(m))) = 0
    <3>1. Xor(CodeWord(m), CodeWord(m)) = {}
      BY DEF Xor
    <3> QED
      BY <3>1, FS_EmptySet
  <2> QED
    BY <1>3, <2>1, CodeWordInCode
<1>5. Xor(w, c) = {}
  <2>1. w \subseteq 0 .. 14
    BY DEF FormatCode
  <2>2. c \subseteq 0 .. 14
    BY <1>1, CodeWordBits
  <2>3. IsFiniteSet(Xor(w, c))
    <3>1. PICK n \in Int : n = 14
      OBVIOUS
    <3>2. IsFiniteSet(0 .. n)
      BY FS_Interval
    <3>3. Xor(w, c) \subseteq 0 .. n
      BY <2>1, <2>2, <3>1 DEF Xor
    <3> QED
      BY <3>2, <3>3, FS_Subset
  <2>4. Cardinality(Xor(w, c)) = 0
    BY <1>4, <2>3, FS_CardinalityType
  <2> QED
    BY <2>3, <2>4, FS_EmptySet
<1>6. w = c
  BY <1>5 DEF Xor
<1>7. w = CodeWord(m)
  BY <1>1, <1>6
<1>8. \A i \in 0 .. 4 : i + 10 \in w <=> i \in FormatData(m)
  BY <1>7, CodeWordBits
<1>9. w \cap {13, 14} = {13}
  BY <1>8, FormatDataIs
<1>10. {i - 10 : i \in w \cap 10 .. 12} = CountByte(m)
  <2>1. \A i \in 0 .. 2 : i + 10 \in w <=> i \in CountByte(m)
    BY <1>8, FormatDataIs
  <2>2. CountByte(m) \subseteq 0 .. 2
    BY MaskBits
  <2>3. ASSUME NEW j \in CountByte(m)
        PROVE  \E i \in w \cap 10 .. 12 : j = i - 10
    BY <2>1, <2>2
  <2>4. ASSUME NEW i \in w \cap 10 .. 12
        PROVE  i - 10 \in CountByte(m)
    <3>1. i - 10 \in 0 .. 2 /\ (i - 10) + 10 = i
      OBVIOUS
    <3> QED
      BY <2>1, <3>1
  <2> QED
    BY <2>3, <2>4
<1>11. (CHOOSE l \in Mask : CountByte(l) = CountByte(m)) = m
  BY MasksDiffer
<1> QED
  BY <1>2, <1>9, <1>10, <1>11

-----------------------------------------------------------------------------
(***************************************************************************)
(* The way of the reader. Its columns and rows are the encoder's, and the  *)
(* modules it numbers are the visits to data modules.                      *)
(***************************************************************************)
\* What is left for data: two strips between the finders, and the square below and
\* to the right of them, without the alignment pattern.
Strip == (0 .. 5) \cup (7 .. 8)
Between(v) == 9 .. Size(v) - 9
Beyond(v) == 9 .. Size(v) - 1

\* What is not for data: the timing, the corners with their format bits, the alignment.
LEMMA FunctionAreaIs ==
  ASSUME NEW v \in Version, NEW x \in 0 .. Size(v) - 1, NEW y \in 0 .. Size(v) - 1
  PROVE  <<x, y>> \in FunctionArea(v) <=>
           \/ x = 6 \/ y = 6
           \/ (x <= 8 /\ y <= 8)
           \/ (x <= 8 /\ y >= Size(v) - 8)
           \/ (x >= Size(v) - 8 /\ y <= 8)
           \/ <<x, y>> \in AlignArea(v)
<1>1. PICK n : n = Size(v)
  OBVIOUS
<1>2. n \in 21 .. 37 /\ x \in 0 .. n - 1 /\ y \in 0 .. n - 1 /\ <<x, y>> \in Grid(v)
  BY <1>1, Sizes DEF Grid
<1>3. <<x, y>> \in Timing(v) <=> x = 6 \/ y = 6
  BY <1>2 DEF Timing
<1>4. <<x, y>> \in FinderArea(v) <=>
        \/ (x <= 7 /\ y <= 7) \/ (x <= 7 /\ y >= n - 8) \/ (x >= n - 8 /\ y <= 7)
  <2>1. ASSUME NEW a \in Int, NEW b \in Int
        PROVE  Distance(<<x, y>>, <<a, b>>) <= 4 <=>
                 a - 4 <= x /\ x <= a + 4 /\ b - 4 <= y /\ y <= b + 4
    BY <1>2 DEF Distance, Larger, Abs
  <2>2. <<x, y>> \in FinderArea(v) <=>
          \/ Distance(<<x, y>>, <<3, 3>>) <= 4
          \/ Distance(<<x, y>>, <<n - 4, 3>>) <= 4
          \/ Distance(<<x, y>>, <<3, n - 4>>) <= 4
    BY <1>1, <1>2 DEF FinderArea, Finders
  <2>3. 3 \in Int /\ n - 4 \in Int
    BY <1>2
  <2>4. /\ Distance(<<x, y>>, <<3, 3>>) <= 4 <=> x <= 7 /\ y <= 7
        /\ Distance(<<x, y>>, <<n - 4, 3>>) <= 4 <=> x >= n - 8 /\ y <= 7
        /\ Distance(<<x, y>>, <<3, n - 4>>) <= 4 <=> x <= 7 /\ y >= n - 8
    BY <1>2, <2>1, <2>3
  <2> QED
    BY <2>2, <2>4
<1>5. <<x, y>> \in FormatArea(v) <=>
        \/ (x = 8 /\ ((y <= 8 /\ y # 6) \/ y >= n - 7))
        \/ (y = 8 /\ ((x <= 7 /\ x # 6) \/ x >= n - 8))
  BY <1>1, <1>2 DEF FormatArea
<1>6. <<x, y>> = DarkModule(v) <=> x = 8 /\ y = n - 8
  BY <1>1 DEF DarkModule
<1>7. <<x, y>> \in FunctionArea(v) <=>
        \/ <<x, y>> \in Timing(v) \/ <<x, y>> \in FinderArea(v) \/ <<x, y>> \in AlignArea(v)
        \/ <<x, y>> = DarkModule(v) \/ <<x, y>> \in FormatArea(v)
  BY DEF FunctionArea
<1> QED
  BY <1>1, <1>2, <1>3, <1>4, <1>5, <1>6, <1>7

\* The alignment pattern lies in the square.
LEMMA AlignAreaIs ==
  ASSUME NEW v \in Version
  PROVE  AlignArea(v) = IF v = 1 THEN {}
                        ELSE (Size(v) - 9 .. Size(v) - 5) \X (Size(v) - 9 .. Size(v) - 5)
<1>1. CASE v = 1
  BY <1>1 DEF AlignArea, Aligned
<1>2. CASE v # 1
  <2>1. PICK n, c : n = Size(v) /\ c = AlignCenter[v]
    OBVIOUS
  <2>2. n \in 25 .. 37 /\ c = n - 7
    <3>1. v \in {2, 3, 4, 5}
      BY <1>2 DEF Version
    <3>2. /\ AlignCenter[2] = 18 /\ AlignCenter[3] = 22 /\ AlignCenter[4] = 26
          /\ AlignCenter[5] = 30
      BY DEF AlignCenter
    <3> QED
      BY <2>1, <3>1, <3>2 DEF Size
  <2>3. AlignArea(v) = {p \in Grid(v) : Distance(p, <<c, c>>) <= 2}
    BY <1>2, <2>1 DEF AlignArea, Aligned
  <2>4. ASSUME NEW x \in 0 .. n - 1, NEW y \in 0 .. n - 1
        PROVE  Distance(<<x, y>>, <<c, c>>) <= 2 <=>
                 x \in n - 9 .. n - 5 /\ y \in n - 9 .. n - 5
    BY <2>2 DEF Distance, Larger, Abs
  <2>5. n - 9 .. n - 5 \subseteq 0 .. n - 1
    BY <2>2
  <2>6. Grid(v) = (0 .. n - 1) \X (0 .. n - 1)
    BY <2>1 DEF Grid
  <2>7. {p \in Grid(v) : Distance(p, <<c, c>>) <= 2} = (n - 9 .. n - 5) \X (n - 9 .. n - 5)
    BY <2>4, <2>5, <2>6
  <2> QED
    BY <1>2, <2>1, <2>3, <2>7
<1> QED
  BY <1>1, <1>2

\* What is left is what is not in the way.
LEMMA DataAreaIs ==
  ASSUME NEW v \in Version
  PROVE  Grid(v) \ FunctionArea(v) =
           ((Between(v) \X Strip) \cup (Strip \X Between(v)))
             \cup ((Beyond(v) \X Beyond(v)) \ AlignArea(v))
<1>1. PICK n : n = Size(v) /\ n \in 21 .. 37
  BY Sizes
<1>2. ASSUME NEW x \in 0 .. n - 1, NEW y \in 0 .. n - 1
      PROVE  <<x, y>> \notin FunctionArea(v) <=>
               \/ (x \in Between(v) /\ y \in Strip)
               \/ (x \in Strip /\ y \in Between(v))
               \/ (x \in Beyond(v) /\ y \in Beyond(v) /\ <<x, y>> \notin AlignArea(v))
  <2>1. <<x, y>> \in FunctionArea(v) <=>
           \/ x = 6 \/ y = 6
           \/ (x <= 8 /\ y <= 8)
           \/ (x <= 8 /\ y >= n - 8)
           \/ (x >= n - 8 /\ y <= 8)
           \/ <<x, y>> \in AlignArea(v)
    BY <1>1, FunctionAreaIs
  <2>2. <<x, y>> \in AlignArea(v) => x >= 9 /\ y >= 9
    BY <1>1, AlignAreaIs
  <2>3. /\ x \in Between(v) <=> 9 <= x /\ x <= n - 9
        /\ y \in Between(v) <=> 9 <= y /\ y <= n - 9
        /\ x \in Beyond(v) <=> 9 <= x
        /\ y \in Beyond(v) <=> 9 <= y
        /\ x \in Strip <=> x <= 8 /\ x # 6
        /\ y \in Strip <=> y <= 8 /\ y # 6
    BY <1>1 DEF Between, Beyond, Strip
  <2> QED
    BY <1>1, <2>1, <2>2, <2>3
<1>3. /\ Between(v) \subseteq 0 .. n - 1 /\ Beyond(v) \subseteq 0 .. n - 1
      /\ Strip \subseteq 0 .. n - 1
  BY <1>1 DEF Between, Beyond, Strip
<1>4. Grid(v) = (0 .. n - 1) \X (0 .. n - 1)
  BY <1>1 DEF Grid
<1>5. PICK B, R, T : B = Between(v) /\ R = Beyond(v) /\ T = Strip
  OBVIOUS
<1>6. ASSUME NEW p
      PROVE  p \in Grid(v) \ FunctionArea(v) <=>
               p \in ((B \X T) \cup (T \X B)) \cup ((R \X R) \ AlignArea(v))
  <2>1. CASE p \in Grid(v)
    <3>1. PICK x \in 0 .. n - 1, y \in 0 .. n - 1 : p = <<x, y>>
      BY <1>4, <2>1
    <3> QED
      BY <1>2, <1>5, <2>1, <3>1
  <2>2. CASE p \notin Grid(v)
    BY <1>3, <1>4, <1>5, <2>2
  <2> QED
    BY <2>1, <2>2
<1> QED
  BY <1>5, <1>6

\* The size of two sets without a common element.
LEMMA Together ==
  ASSUME NEW S, IsFiniteSet(S), NEW T, IsFiniteSet(T), S \cap T = {}
  PROVE  IsFiniteSet(S \cup T) /\ Cardinality(S \cup T) = Cardinality(S) + Cardinality(T)
<1>1. Cardinality(S \cap T) = 0
  BY FS_EmptySet
<1>2. Cardinality(S) \in Nat /\ Cardinality(T) \in Nat
  BY FS_CardinalityType
<1>3. /\ IsFiniteSet(S \cup T)
      /\ Cardinality(S \cup T) = Cardinality(S) + Cardinality(T) - Cardinality(S \cap T)
  BY FS_Union
<1> QED
  BY <1>1, <1>2, <1>3

\* The size of an interval that may be empty.
LEMMA IntervalIs ==
  ASSUME NEW a \in Int, NEW b \in Int, a <= b + 1
  PROVE  IsFiniteSet(a .. b) /\ Cardinality(a .. b) = b - a + 1
<1>1. /\ IsFiniteSet(a .. b)
      /\ Cardinality(a .. b) = IF a > b THEN 0 ELSE b - a + 1
  BY FS_Interval
<1> QED
  BY <1>1

\* All codewords fit, and less than a byte is left over.
LEMMA RoomForCodewords ==
  ASSUME NEW v \in Version
  PROVE  /\ IsFiniteSet(Grid(v) \ FunctionArea(v))
         /\ Cardinality(Grid(v) \ FunctionArea(v)) \div 8 = DataCodewords[v] + EcCodewords[v]
         /\ Cardinality(Grid(v) \ FunctionArea(v)) \in Nat
<1>1. PICK n : n = Size(v) /\ n \in 21 .. 37
  BY Sizes
<1>2. IsFiniteSet(Strip) /\ Cardinality(Strip) = 8
  <2>1. PICK a \in Int, b \in Int, c \in Int, d \in Int : a = 0 /\ b = 5 /\ c = 7 /\ d = 8
    OBVIOUS
  <2>2. /\ IsFiniteSet(a .. b) /\ Cardinality(a .. b) = b - a + 1
        /\ IsFiniteSet(c .. d) /\ Cardinality(c .. d) = d - c + 1
    <3>1. a <= b + 1 /\ c <= d + 1
      BY <2>1
    <3> HIDE <2>1
    <3> QED
      BY <3>1, IntervalIs
  <2>3. b - a + 1 = 6 /\ d - c + 1 = 2
    BY <2>1
  <2>4. PICK A, B : A = a .. b /\ B = c .. d
    OBVIOUS
  <2>5. Strip = A \cup B /\ A \cap B = {}
    BY <2>1, <2>4 DEF Strip
  <2>6. IsFiniteSet(A) /\ Cardinality(A) = 6 /\ IsFiniteSet(B) /\ Cardinality(B) = 2
    BY <2>2, <2>3, <2>4
  <2>7. IsFiniteSet(A \cup B) /\ Cardinality(A \cup B) = Cardinality(A) + Cardinality(B)
    BY <2>5, <2>6, Together
  <2> QED
    BY <2>5, <2>6, <2>7
<1>3. IsFiniteSet(Between(v)) /\ Cardinality(Between(v)) = n - 17
  <2>1. PICK a \in Int, b \in Int : a = 9 /\ b = n - 9
    BY <1>1
  <2>2. a <= b + 1
    BY <1>1, <2>1
  <2>3. IsFiniteSet(a .. b) /\ Cardinality(a .. b) = b - a + 1
    BY <2>2, IntervalIs
  <2> QED
    BY <1>1, <2>1, <2>3 DEF Between
<1>4. IsFiniteSet(Beyond(v)) /\ Cardinality(Beyond(v)) = n - 9
  <2>1. PICK a \in Int, b \in Int : a = 9 /\ b = n - 1
    BY <1>1
  <2>2. a <= b + 1
    BY <1>1, <2>1
  <2>3. IsFiniteSet(a .. b) /\ Cardinality(a .. b) = b - a + 1
    BY <2>2, IntervalIs
  <2> QED
    BY <1>1, <2>1, <2>3 DEF Beyond
<1>5. PICK A, B, C, D : /\ A = Between(v) \X Strip /\ B = Strip \X Between(v)
                        /\ C = Beyond(v) \X Beyond(v) /\ D = C \ AlignArea(v)
  OBVIOUS
<1>6. /\ IsFiniteSet(A) /\ Cardinality(A) = (n - 17) * 8
      /\ IsFiniteSet(B) /\ Cardinality(B) = 8 * (n - 17)
      /\ IsFiniteSet(C) /\ Cardinality(C) = (n - 9) * (n - 9)
  BY <1>2, <1>3, <1>4, <1>5, FS_Product
<1>7. C \cap AlignArea(v) = AlignArea(v) /\ Cardinality(AlignArea(v)) = IF v = 1 THEN 0 ELSE 25
  <2>1. CASE v = 1
    BY <2>1, AlignAreaIs, FS_EmptySet
  <2>2. CASE v # 1
    <3>1. PICK a \in Int, b \in Int : a = n - 9 /\ b = n - 5
      BY <1>1
    <3>2. IsFiniteSet(a .. b) /\ Cardinality(a .. b) = 5
      BY <1>1, <3>1, IntervalIs
    <3>3. Cardinality((a .. b) \X (a .. b)) = 5 * 5
      BY <3>2, FS_Product
    <3>4. AlignArea(v) = (a .. b) \X (a .. b)
      BY <1>1, <2>2, <3>1, AlignAreaIs
    <3>5. a .. b \subseteq Beyond(v)
      <4>1. n >= 25
        BY <1>1, <2>2 DEF Version, Size
      <4> QED
        BY <1>1, <3>1, <4>1 DEF Beyond
    <3> QED
      BY <1>5, <2>2, <3>3, <3>4, <3>5
  <2> QED
    BY <2>1, <2>2
<1>8. IsFiniteSet(D) /\ Cardinality(D) = (n - 9) * (n - 9) - (IF v = 1 THEN 0 ELSE 25)
  <2>1. IsFiniteSet(D) /\ Cardinality(D) = Cardinality(C) - Cardinality(C \cap AlignArea(v))
    BY <1>5, <1>6, FS_Difference
  <2> QED
    BY <1>6, <1>7, <2>1
<1>9. /\ IsFiniteSet((A \cup B) \cup D)
      /\ Cardinality((A \cup B) \cup D) =
           16 * (n - 17) + ((n - 9) * (n - 9) - (IF v = 1 THEN 0 ELSE 25))
  <2>1. A \cap B = {} /\ (A \cup B) \cap D = {}
    <3>1. Strip \cap Between(v) = {} /\ Strip \cap Beyond(v) = {}
      BY <1>1 DEF Strip, Between, Beyond
    <3> QED
      BY <1>5, <3>1
  <2>2. IsFiniteSet(A \cup B) /\ Cardinality(A \cup B) = 16 * (n - 17)
    BY <1>1, <1>6, <2>1, Together
  <2> QED
    BY <1>8, <2>1, <2>2, Together
<1>10. Grid(v) \ FunctionArea(v) = (A \cup B) \cup D
  BY <1>5, DataAreaIs
<1>11. 16 * (n - 17) + ((n - 9) * (n - 9) - (IF v = 1 THEN 0 ELSE 25))
         = IF v = 1 THEN 208 ELSE IF v = 2 THEN 359 ELSE IF v = 3 THEN 567
           ELSE IF v = 4 THEN 807 ELSE 1079
  <2>1. v \in {1, 2, 3, 4, 5} /\ n = 17 + 4 * v
    BY <1>1 DEF Version, Size
  <2> QED
    BY <2>1
<1>12. DataCodewords[v] + EcCodewords[v] =
         IF v = 1 THEN 26 ELSE IF v = 2 THEN 44 ELSE IF v = 3 THEN 70
         ELSE IF v = 4 THEN 100 ELSE 134
  BY DEF Version, DataCodewords, EcCodewords
<1>13. PICK c : c = Cardinality(Grid(v) \ FunctionArea(v))
  OBVIOUS
<1>14. c = IF v = 1 THEN 208 ELSE IF v = 2 THEN 359 ELSE IF v = 3 THEN 567
           ELSE IF v = 4 THEN 807 ELSE 1079
  BY <1>9, <1>10, <1>11, <1>13
<1>15. c \in Nat /\ c \div 8 = DataCodewords[v] + EcCodewords[v]
  BY <1>12, <1>14
<1> QED
  BY <1>9, <1>10, <1>13, <1>15

\* The numbers up to k.
Until(D, k) == {j \in D : j <= k}

\* Numbered in ascending order, the elements of a set of n numbers are 1 to n.
LEMMA Numbering ==
  ASSUME NEW D, IsFiniteSet(D), D \subseteq Int
  PROVE  /\ \A k \in D : Cardinality(Until(D, k)) \in 1 .. Cardinality(D)
         /\ \A n \in 1 .. Cardinality(D) : \E k \in D : Cardinality(Until(D, k)) = n
<1>1. PICK N \in Nat : N = Cardinality(D)
  BY FS_CardinalityType
<1>2. ASSUME NEW k \in D
      PROVE  /\ IsFiniteSet(Until(D, k)) /\ Cardinality(Until(D, k)) \in 1 .. N
             /\ k \in Until(D, k)
  <2>1. k \in Until(D, k) /\ Until(D, k) \subseteq D
    BY DEF Until
  <2>2. IsFiniteSet(Until(D, k)) /\ Cardinality(Until(D, k)) <= N
    BY <1>1, <2>1, FS_Subset
  <2>3. Cardinality(Until(D, k)) \in Nat
    BY <2>2, FS_CardinalityType
  <2>4. Cardinality(Until(D, k)) # 0
    BY <2>1, <2>2, FS_EmptySet
  <2> QED
    BY <1>1, <2>1, <2>2, <2>3, <2>4
<1>3. ASSUME NEW k \in D, NEW l \in D, k < l
      PROVE  Cardinality(Until(D, k)) # Cardinality(Until(D, l))
  <2>1. k \in Int /\ l \in Int
    OBVIOUS
  <2>2. ASSUME NEW j \in Until(D, k)
        PROVE  j \in Until(D, l)
    <3>1. j \in D /\ j \in Int /\ j <= k
      BY DEF Until
    <3>2. j <= l
      BY <1>3, <2>1, <3>1
    <3> QED
      BY <3>1, <3>2 DEF Until
  <2>3. l \notin Until(D, k)
    BY <1>3, <2>1 DEF Until
  <2>4. Until(D, k) \subseteq Until(D, l) /\ Until(D, k) # Until(D, l)
    BY <1>2, <2>2, <2>3
  <2> QED
    BY <1>2, <2>4, FS_Subset
<1>4. PICK f : f = [k \in D |-> Cardinality(Until(D, k))]
  OBVIOUS
<1>5. f \in Injection(D, 1 .. N)
  <2>1. f \in [D -> 1 .. N]
    BY <1>2, <1>4
  <2>2. \A k, l \in D : f[k] = f[l] => k = l
    <3>1. ASSUME NEW k \in D, NEW l \in D, f[k] = f[l]
          PROVE  k = l
      <4>1. ~ (k < l) /\ ~ (l < k)
        BY <1>3, <1>4, <3>1
      <4> QED
        BY <4>1
    <3> QED
      BY <3>1
  <2> QED
    BY <2>1, <2>2, Fun_IsInj
<1>6. IsFiniteSet(1 .. N) /\ Cardinality(1 .. N) = N
  <2>1. IsFiniteSet(1 .. N) /\ Cardinality(1 .. N) = N - 1 + 1
    BY <1>1, IntervalIs
  <2> QED
    BY <2>1
<1>7. f \in Surjection(D, 1 .. N)
  BY <1>1, <1>5, <1>6, FS_Injection
<1>8. \A n \in 1 .. N : \E k \in D : f[k] = n
  BY <1>7 DEF Surjection
<1> QED
  BY <1>1, <1>2, <1>4, <1>8

\* Where the reader's k-th visit is.
CellRead(v, k) ==
  LET pair == k \div (2 * Size(v))
      col  == Size(v) - 2 - 2 * pair - (k % 2)
      row  == (k % (2 * Size(v))) \div 2
  IN  <<IF col < 6 THEN col ELSE col + 1,
        IF pair % 2 = 0 THEN Size(v) - 1 - row ELSE row>>

\* The reader's visits to data modules, and its numbers for them.
DataRead(v) ==
  {k \in 0 .. Size(v) * (Size(v) - 1) - 1 : CellRead(v, k) \notin FunctionArea(v)}
Numbered(v) ==
  {<<Cardinality({j \in DataRead(v) : j <= k}), CellRead(v, k)>> : k \in DataRead(v)}

\* The reading order, in these terms.
LEMMA ReadInOrder ==
  ASSUME NEW v
  PROVE  ReadingOrder(v) = [n \in 1 .. Cardinality(DataRead(v)) |->
                              (CHOOSE q \in Numbered(v) : q[1] = n)[2]]
BY DEF ReadingOrder, Numbered, DataRead, CellRead

\* The standard's columns and directions are those of the placing loops.
LEMMA CellIsVisited ==
  ASSUME NEW v \in Version, NEW k \in 0 .. Size(v) * (Size(v) - 1) - 1
  PROVE  CellRead(v, k) = Visited(v, k)
<1>1. PICK n, pair, side, row, r :
        /\ n = Size(v) /\ pair = k \div (2 * n) /\ side = k % 2
        /\ row = (k % (2 * n)) \div 2 /\ r = Right(v, pair)
  OBVIOUS
<1>2. v \in {1, 2, 3, 4, 5} /\ n = 17 + 4 * v /\ k \in Nat
  BY <1>1 DEF Version, Size
<1>3. pair \in Nat /\ side \in 0 .. 1
  BY <1>1, <1>2
<1>4. r = IF n - 1 - 2 * pair <= 6 THEN n - 1 - 2 * pair - 1 ELSE n - 1 - 2 * pair
  BY <1>1 DEF Right
<1> HIDE <1>1
<1>5. r - side = IF n - 2 - 2 * pair - side < 6 THEN n - 2 - 2 * pair - side
                 ELSE n - 2 - 2 * pair - side + 1
  BY <1>2, <1>3, <1>4
<1>6. Upward(r) <=> pair % 2 = 0
  <2>1. (r + 1) \div 2 = 8 + 2 * v - pair
    BY <1>2, <1>3, <1>4
  <2>2. ((r + 1) \div 2) % 2 = pair % 2
    BY <1>2, <1>3, <2>1
  <2> QED
    BY <2>2 DEF Upward
<1>7. Visited(v, k) = <<r - side, IF Upward(r) THEN n - 1 - row ELSE row>>
  BY <1>1 DEF Visited
<1>8. CellRead(v, k) = <<IF n - 2 - 2 * pair - side < 6 THEN n - 2 - 2 * pair - side
                         ELSE n - 2 - 2 * pair - side + 1,
                         IF pair % 2 = 0 THEN n - 1 - row ELSE row>>
  BY <1>1 DEF CellRead
<1> QED
  BY <1>5, <1>6, <1>7, <1>8

\* What the reader reads n-th is where the encoder put bit n - 1.
LEMMA ReadingOrderIs ==
  ASSUME NEW v \in Version, isFunc = FunctionArea(v)
  PROVE  LET order == ReadingOrder(v)
             last  == Cardinality(DataVisits(v))
         IN  /\ order = [n \in 1 .. last |-> order[n]]
             /\ IsFiniteSet(DataVisits(v))
             /\ last \div 8 = DataCodewords[v] + EcCodewords[v]
             /\ \A n \in 1 .. last : \E k \in DataVisits(v) :
                  /\ order[n] = Visited(v, k)
                  /\ Cardinality({j \in DataVisits(v) : j < k}) = n - 1
<1>1. PICK D : D = DataVisits(v)
  OBVIOUS
<1>2. PICK All : All = 0 .. Size(v) * (Size(v) - 1) - 1
  OBVIOUS
<1>3. D = {k \in All : CellRead(v, k) \notin FunctionArea(v)}
  BY <1>1, <1>2, CellIsVisited DEF DataVisits
<1>4. PICK numbered : numbered = Numbered(v)
  OBVIOUS
<1>5. ReadingOrder(v) =
        [n \in 1 .. Cardinality(D) |-> (CHOOSE q \in numbered : q[1] = n)[2]]
  <2>1. D = DataRead(v)
    BY <1>2, <1>3 DEF DataRead
  <2> QED
    BY <1>4, <2>1, ReadInOrder
<1>6. numbered = {<<Cardinality(Until(D, k)), CellRead(v, k)>> : k \in D}
  <2>1. D = DataRead(v)
    BY <1>2, <1>3 DEF DataRead
  <2> QED
    BY <1>4, <2>1 DEF Numbered, Until
<1>7. IsFiniteSet(D) /\ Cardinality(D) = Cardinality(Grid(v) \ FunctionArea(v))
  <2>1. PICK f : f = [k \in D |-> Visited(v, k)]
    OBVIOUS
  <2>2. \A k \in D : k \in All /\ f[k] \in Grid(v) \ FunctionArea(v)
    BY <1>1, <1>2, <2>1, VisitedInGrid DEF DataVisits
  <2>3. f \in Injection(D, Grid(v) \ FunctionArea(v))
    <3>1. f \in [D -> Grid(v) \ FunctionArea(v)]
      BY <2>1, <2>2
    <3>2. \A k, l \in D : f[k] = f[l] => k = l
      BY <1>2, <2>1, <2>2, EachModuleOnce
    <3> QED
      BY <3>1, <3>2, Fun_IsInj
  <2>4. f \in Surjection(D, Grid(v) \ FunctionArea(v))
    <3>1. ASSUME NEW p \in Grid(v) \ FunctionArea(v)
          PROVE  \E k \in D : f[k] = p
      <4>1. p[1] # 6
        BY DEF FunctionArea, Timing
      <4>2. PICK k \in All : Visited(v, k) = p
        BY <1>2, <4>1, EachModuleOnce
      <4>3. k \in D
        BY <1>1, <1>2, <4>2 DEF DataVisits
      <4> QED
        BY <2>1, <4>2, <4>3
    <3>2. f \in [D -> Grid(v) \ FunctionArea(v)]
      BY <2>3 DEF Injection
    <3> QED
      BY <3>1, <3>2, Fun_IsSurj
  <2> QED
    BY <2>3, <2>4, RoomForCodewords, FS_Injection
<1>8. D \subseteq Int
  BY <1>2, <1>3, Sizes
<1>9. Cardinality(D) \div 8 = DataCodewords[v] + EcCodewords[v] /\ Cardinality(D) \in Nat
  BY <1>7, RoomForCodewords
<1>10. ASSUME NEW n \in 1 .. Cardinality(D)
      PROVE  \E k \in D : /\ ReadingOrder(v)[n] = Visited(v, k)
                          /\ Cardinality({j \in D : j < k}) = n - 1
  <2>1. PICK l \in D : Cardinality(Until(D, l)) = n
    BY <1>7, <1>8, Numbering
  <2>2. <<n, CellRead(v, l)>> \in numbered
    BY <1>6, <2>1
  <2>3. \E q \in numbered : q[1] = n
    BY <2>2
  <2>4. PICK q \in numbered : q = (CHOOSE r \in numbered : r[1] = n) /\ q[1] = n
    BY <2>3
  <2>5. PICK k \in D : q = <<Cardinality(Until(D, k)), CellRead(v, k)>>
    BY <1>6
  <2>6. Cardinality(Until(D, k)) = n /\ ReadingOrder(v)[n] = CellRead(v, k)
    BY <1>5, <2>4, <2>5
  <2>7. CellRead(v, k) = Visited(v, k)
    BY <1>2, <1>3, CellIsVisited
  <2>8. PICK U : U = Until(D, k)
    OBVIOUS
  <2>9. IsFiniteSet(U) /\ k \in U
    <3>1. U \subseteq D /\ k \in U
      BY <1>8, <2>8 DEF Until
    <3> QED
      BY <1>7, <3>1, FS_Subset
  <2>10. U \ {k} = {j \in D : j < k}
    <3>1. k \in Int
      BY <1>8
    <3>2. ASSUME NEW j \in D
          PROVE  (j <= k /\ j # k) <=> j < k
      <4>1. j \in Int
        BY <1>8
      <4> QED
        BY <3>1, <4>1
    <3> QED
      BY <2>8, <3>2 DEF Until
  <2>11. Cardinality(U \ {k}) = Cardinality(U) - 1
    BY <2>9, FS_RemoveElement
  <2> QED
    BY <2>6, <2>7, <2>8, <2>10, <2>11
<1>11. ReadingOrder(v) = [n \in 1 .. Cardinality(D) |-> ReadingOrder(v)[n]]
  BY <1>5
<1> QED
  BY <1>1, <1>7, <1>9, <1>10, <1>11

-----------------------------------------------------------------------------
(***************************************************************************)
(* The bits of the reader: a module, a byte, all codewords, the text.      *)
(***************************************************************************)
\* The standard's masks are the encoder's.
LEMMA MasksAgree ==
  ASSUME NEW m \in Mask, NEW x \in Nat, NEW y \in Nat
  PROVE  StandardMask(m, y, x) <=> Inverts(m, x, y)
<1>1. PICK z \in Nat : z = x * y /\ z = y * x
  OBVIOUS
<1>2. PICK s \in Nat : s = x + y /\ s = y + x
  OBVIOUS
<1>3. /\ (z % 2) + (z % 3) = 0 <=> z % 6 = 0
      /\ ((z % 2) + (z % 3)) % 2 = 0 <=> z % 6 < 3
      /\ ((s % 2) + (z % 3)) % 2 = 0 <=> (s + (z % 3)) % 2 = 0
  OBVIOUS
<1>4. m \in {0, 1, 2, 3, 4, 5, 6, 7}
  BY DEF Mask
<1>5. CASE m \in {0, 1, 2, 3}
  BY <1>2, <1>5 DEF StandardMask, Inverts
<1>6. CASE m = 4
  BY <1>6 DEF StandardMask, Inverts
<1>7. CASE m = 5
  BY <1>1, <1>3, <1>7 DEF StandardMask, Inverts
<1>8. CASE m = 6
  BY <1>1, <1>3, <1>8 DEF StandardMask, Inverts
<1>9. CASE m = 7
  BY <1>1, <1>2, <1>3, <1>9 DEF StandardMask, Inverts
<1> QED
  BY <1>4, <1>5, <1>6, <1>7, <1>8, <1>9

\* A mask inverts a module or does not.
LEMMA MaskIsBoolean ==
  ASSUME NEW m \in Mask, NEW i, NEW j
  PROVE  StandardMask(m, i, j) \in BOOLEAN
<1>1. m \in {0, 1, 2, 3, 4, 5, 6, 7}
  BY DEF Mask
<1>2. CASE m = 0
  BY <1>2 DEF StandardMask
<1>3. CASE m = 1
  BY <1>3 DEF StandardMask
<1>4. CASE m = 2
  BY <1>4 DEF StandardMask
<1>5. CASE m = 3
  BY <1>5 DEF StandardMask
<1>6. CASE m = 4
  BY <1>6 DEF StandardMask
<1>7. CASE m = 5
  BY <1>7 DEF StandardMask
<1>8. CASE m = 6
  BY <1>8 DEF StandardMask
<1>9. CASE m = 7
  BY <1>9 DEF StandardMask
<1> QED
  BY <1>1, <1>2, <1>3, <1>4, <1>5, <1>6, <1>7, <1>8, <1>9

\* Bit i of a row of codewords, most significant bit first.
BitAt(c, i) == i < 8 * Len(c) /\ 7 - (i % 8) \in c[i \div 8 + 1]

\* The symbol with the codewords c under mask m and its format bits.
Symbol(v, c, m) ==
  Formatted(Masked(Patterns(v) \cup Placed(v, c), v, m), v, m)

\* A data module shows the bit it was given, once the mask is off.
LEMMA ModuleRead ==
  ASSUME NEW v \in Version, isFunc = FunctionArea(v), NEW c, NEW m \in Mask,
         NEW k \in DataVisits(v),
         NEW i, i = Cardinality({j \in DataVisits(v) : j < k}),
         NEW p, p = Visited(v, k)
  PROVE  ((p \in Symbol(v, c, m)) # StandardMask(m, p[2], p[1])) <=> BitAt(c, i)
<1>1. k \in 0 .. Size(v) * (Size(v) - 1) - 1 /\ p \notin FunctionArea(v)
  BY DEF DataVisits
<1>2. p \in Grid(v)
  BY <1>1, VisitedInGrid
<1>3. p[1] \in Nat /\ p[2] \in Nat
  BY <1>2, Sizes DEF Grid
<1>4. p \notin FormatCells(v, 0 .. 14)
  <2>1. FormatCells(v, 0 .. 14) \subseteq FormatArea(v) \cup {DarkModule(v)}
    BY FormatCellsAre
  <2> QED
    BY <1>1, <2>1 DEF FunctionArea
<1>5. PICK s : s = Patterns(v) \cup Placed(v, c)
  OBVIOUS
<1>6. p \in Symbol(v, c, m) <=> p \in Masked(s, v, m)
  BY <1>2, <1>4, <1>5 DEF Symbol, Formatted
<1>7. p \in Masked(s, v, m) <=> ~ (p \in s <=> Inverts(m, p[1], p[2]))
  BY <1>1, <1>2 DEF Masked
<1>8. p \in s <=> p \in Placed(v, c)
  <2>1. Patterns(v) \subseteq FunctionArea(v)
    BY DEF Patterns, FunctionArea
  <2> QED
    BY <1>1, <1>5, <2>1
<1>9. p \in Placed(v, c) <=> BitAt(c, i)
  <2>1. p \in Placed(v, c) <=>
          \E l \in DataVisits(v) :
            /\ p = Visited(v, l)
            /\ BitAt(c, Cardinality({j \in DataVisits(v) : j < l}))
    BY DEF Placed, BitAt
  <2>2. \A l \in DataVisits(v) : p = Visited(v, l) => l = k
    BY <1>1, EachModuleOnce DEF DataVisits
  <2> QED
    BY <2>1, <2>2
<1>10. StandardMask(m, p[2], p[1]) <=> Inverts(m, p[1], p[2])
  BY <1>3, MasksAgree
<1>11. StandardMask(m, p[2], p[1]) \in BOOLEAN
  BY MaskIsBoolean
<1> QED
  BY <1>6, <1>7, <1>8, <1>9, <1>10, <1>11

\* Eight modules in reading order are eight bits.
LEMMA ByteRead ==
  ASSUME NEW v \in Version, isFunc = FunctionArea(v), NEW c, NEW m \in Mask,
         NEW i \in Nat, i + 8 <= Cardinality(DataVisits(v))
  PROVE  ReadByte(Symbol(v, c, m), ReadingOrder(v), m, i) =
           {b \in Bit : BitAt(c, i + 7 - b)}
<1>1. PICK d, order, last :
        d = Symbol(v, c, m) /\ order = ReadingOrder(v) /\ last = Cardinality(DataVisits(v))
  OBVIOUS
<1>2. last \in Nat
  BY <1>1, ReadingOrderIs, FS_CardinalityType
<1>3. ASSUME NEW b \in Bit
      PROVE  ((order[i + 8 - b] \in d)
                # StandardMask(m, order[i + 8 - b][2], order[i + 8 - b][1]))
               <=> BitAt(c, i + 7 - b)
  <2>1. PICK n : n = i + 8 - b
    OBVIOUS
  <2>2. n \in 1 .. last /\ n - 1 = i + 7 - b
    BY <1>1, <1>2, <2>1 DEF Bit
  <2>3. PICK k \in DataVisits(v) :
          /\ order[n] = Visited(v, k)
          /\ Cardinality({j \in DataVisits(v) : j < k}) = n - 1
    BY <1>1, <2>2, ReadingOrderIs
  <2>4. ((order[n] \in d) # StandardMask(m, order[n][2], order[n][1])) <=> BitAt(c, n - 1)
    BY <1>1, <2>3, ModuleRead
  <2> QED
    BY <2>1, <2>2, <2>4
<1>4. ReadByte(d, order, m, i) =
        {b \in Bit : ((order[i + 8 - b] \in d)
                        # StandardMask(m, order[i + 8 - b][2], order[i + 8 - b][1]))}
  BY DEF ReadByte
<1> QED
  BY <1>1, <1>3, <1>4

\* All codewords, as they were placed.
LEMMA CodewordsRead ==
  ASSUME NEW v \in Version, isFunc = FunctionArea(v), NEW m \in Mask,
         NEW c \in Seq(Byte), Len(c) = DataCodewords[v] + EcCodewords[v]
  PROVE  ReadBytes(Symbol(v, c, m), ReadingOrder(v), m) = c
<1>1. PICK d, order, last, n :
        /\ d = Symbol(v, c, m) /\ order = ReadingOrder(v)
        /\ last = Cardinality(DataVisits(v)) /\ n = Len(c)
  OBVIOUS
<1>2. n \in Nat /\ last \in Nat /\ last \div 8 = n
  BY <1>1, ReadingOrderIs, FS_CardinalityType
<1>3. Len(order) = last
  <2>1. order = [j \in 1 .. last |-> order[j]]
    BY <1>1, ReadingOrderIs
  <2>2. DOMAIN order = 1 .. last
    BY <2>1
  <2> QED
    BY <1>2, <2>2
<1>4. ASSUME NEW k \in 1 .. n
      PROVE  ReadByte(d, order, m, 8 * (k - 1)) = c[k]
  <2>1. PICK i \in Nat : i = 8 * (k - 1)
    BY <1>2
  <2>2. i + 8 <= last
    BY <1>2, <2>1
  <2>3. ReadByte(d, order, m, i) = {b \in Bit : BitAt(c, i + 7 - b)}
    BY <1>1, <2>2, ByteRead
  <2>4. c[k] \subseteq Bit
    BY <1>1 DEF Byte
  <2>5. ASSUME NEW b \in Bit
        PROVE  BitAt(c, i + 7 - b) <=> b \in c[k]
    <3>1. PICK a : a = i + 7 - b
      OBVIOUS
    <3>2. a < 8 * n /\ a \div 8 + 1 = k /\ 7 - (a % 8) = b
      BY <1>2, <2>1, <3>1 DEF Bit
    <3> QED
      BY <1>1, <3>1, <3>2 DEF BitAt
  <2> QED
    BY <2>1, <2>3, <2>4, <2>5
<1>5. ReadBytes(d, order, m) = [k \in 1 .. n |-> c[k]]
  BY <1>2, <1>3, <1>4 DEF ReadBytes
<1>6. c = [k \in 1 .. n |-> c[k]]
  BY <1>1
<1> QED
  BY <1>1, <1>5, <1>6

\* A count has one encoding in a byte.
LEMMA CountsDiffer ==
  ASSUME NEW a \in 0 .. 255, NEW b \in 0 .. 255, CountByte(a) = CountByte(b)
  PROVE  a = b
<1>1. /\ 2 ^ 0 = 1 /\ 2 ^ 1 = 2 /\ 2 ^ 2 = 4 /\ 2 ^ 3 = 8
      /\ 2 ^ 4 = 16 /\ 2 ^ 5 = 32 /\ 2 ^ 6 = 64 /\ 2 ^ 7 = 128
  OBVIOUS
<1>2. ASSUME NEW i \in Bit
      PROVE  (a \div 2 ^ i) % 2 = 1 <=> (b \div 2 ^ i) % 2 = 1
  BY DEF CountByte
<1>3. /\ (a \div 1) % 2 = (b \div 1) % 2 /\ (a \div 2) % 2 = (b \div 2) % 2
      /\ (a \div 4) % 2 = (b \div 4) % 2 /\ (a \div 8) % 2 = (b \div 8) % 2
  BY <1>1, <1>2 DEF Bit
<1>4. /\ (a \div 16) % 2 = (b \div 16) % 2 /\ (a \div 32) % 2 = (b \div 32) % 2
      /\ (a \div 64) % 2 = (b \div 64) % 2 /\ (a \div 128) % 2 = (b \div 128) % 2
  BY <1>1, <1>2 DEF Bit
<1>5. ASSUME NEW n \in 0 .. 255
      PROVE  n = ((n \div 1) % 2) + 2 * ((n \div 2) % 2) + 4 * ((n \div 4) % 2)
                   + 8 * ((n \div 8) % 2) + 16 * ((n \div 16) % 2)
                   + 32 * ((n \div 32) % 2) + 64 * ((n \div 64) % 2)
                   + 128 * ((n \div 128) % 2)
  <2>1. n \div 1 = 2 * (n \div 2) + ((n \div 1) % 2) /\ n \div 1 = n
    OBVIOUS
  <2>2. n \div 2 = 2 * (n \div 4) + ((n \div 2) % 2)
    OBVIOUS
  <2>3. n \div 4 = 2 * (n \div 8) + ((n \div 4) % 2)
    OBVIOUS
  <2>4. n \div 8 = 2 * (n \div 16) + ((n \div 8) % 2)
    OBVIOUS
  <2>5. n \div 16 = 2 * (n \div 32) + ((n \div 16) % 2)
    OBVIOUS
  <2>6. n \div 32 = 2 * (n \div 64) + ((n \div 32) % 2)
    OBVIOUS
  <2>7. n \div 64 = 2 * (n \div 128) + ((n \div 64) % 2)
    OBVIOUS
  <2>8. n \div 128 = ((n \div 128) % 2)
    OBVIOUS
  <2>9. PICK a0, a1, a2, a3, a4, a5, a6, a7 :
          /\ a0 = n \div 1 /\ a1 = n \div 2 /\ a2 = n \div 4 /\ a3 = n \div 8
          /\ a4 = n \div 16 /\ a5 = n \div 32 /\ a6 = n \div 64 /\ a7 = n \div 128
    OBVIOUS
  <2>10. /\ a0 \in Int /\ a1 \in Int /\ a2 \in Int /\ a3 \in Int /\ a4 \in Int /\ a5 \in Int
         /\ a6 \in Int /\ a7 \in Int
    BY <2>9
  <2>11. PICK b0 \in Int, b1 \in Int, b2 \in Int, b3 \in Int, b4 \in Int, b5 \in Int,
              b6 \in Int, b7 \in Int :
           /\ b0 = (n \div 1) % 2 /\ b1 = (n \div 2) % 2 /\ b2 = (n \div 4) % 2
           /\ b3 = (n \div 8) % 2 /\ b4 = (n \div 16) % 2 /\ b5 = (n \div 32) % 2
           /\ b6 = (n \div 64) % 2 /\ b7 = (n \div 128) % 2
    OBVIOUS
  <2>12. /\ n = 2 * a1 + b0 /\ a1 = 2 * a2 + b1 /\ a2 = 2 * a3 + b2 /\ a3 = 2 * a4 + b3
         /\ a4 = 2 * a5 + b4 /\ a5 = 2 * a6 + b5 /\ a6 = 2 * a7 + b6 /\ a7 = b7
    BY <2>1, <2>2, <2>3, <2>4, <2>5, <2>6, <2>7, <2>8, <2>9, <2>11
  <2>13. n = b0 + 2 * b1 + 4 * b2 + 8 * b3 + 16 * b4 + 32 * b5 + 64 * b6 + 128 * b7
    <3> HIDE <2>1, <2>2, <2>3, <2>4, <2>5, <2>6, <2>7, <2>8, <2>9, <2>11
    <3> QED
      BY <2>10, <2>12
  <2> QED
    BY <2>11, <2>13
<1> QED
  BY <1>3, <1>4, <1>5

\* So a reader finds the count again.
LEMMA NumberOfCount ==
  ASSUME NEW n \in 0 .. 255
  PROVE  Number(CountByte(n)) = n
<1>1. \E i \in 0 .. 255 : CountByte(i) = CountByte(n)
  OBVIOUS
<1>2. PICK i \in 0 .. 255 : i = Number(CountByte(n)) /\ CountByte(i) = CountByte(n)
  BY <1>1 DEF Number
<1> QED
  BY <1>2, CountsDiffer

\* Half a byte of count and text at the end of one codeword, half at the start of the
\* next: the bits from the fifth on are theirs, in order.
LEMMA TextBits ==
  ASSUME NEW v \in Version, NEW t \in Seq(Byte), Fits(Len(t), v),
         NEW c \in Seq(Byte), NEW all, all = <<CountByte(Len(t))>> \o t,
         DataCodewords[v] <= Len(c),
         \A k \in 1 .. DataCodewords[v] : c[k] = DataBytes(t, v)[k],
         NEW k \in 1 .. Len(t) + 1, NEW b \in Bit
  PROVE  BitAt(c, 4 + 8 * (k - 1) + 7 - b) <=> b \in all[k]
<1>1. PICK n, d, i : n = Len(t) /\ d = DataCodewords[v] /\ i = 4 + 8 * (k - 1) + 7 - b
  OBVIOUS
<1>2. n \in Nat /\ d \in 19 .. 108 /\ n + 2 <= d
  <2>1. n \in Nat /\ d \in 19 .. 108
    BY <1>1, Sizes
  <2>2. 4 + 8 + 8 * n <= 8 * d
    BY <1>1 DEF Fits
  <2>3. PICK x \in Int : x = d - n
    BY <2>1
  <2>4. 12 <= 8 * x
    BY <2>1, <2>2, <2>3
  <2>5. 2 <= x
    BY <2>4
  <2> QED
    BY <2>1, <2>3, <2>5
<1>3. Len(all) = n + 1 /\ k \in 1 .. n + 1 /\ b \in 0 .. 7
  BY <1>1 DEF Bit
<1>4. ASSUME NEW j \in 1 .. n + 2
      PROVE  c[j] = (IF j = 1 THEN {6} ELSE LowHalf(all[j - 1]))
                      \cup (IF j <= n + 1 THEN HighHalf(all[j]) ELSE {})
  <2>1. c[j] = DataBytes(t, v)[j]
    BY <1>1, <1>2
  <2>2. DataBytes(t, v)[j] =
          (IF j = 1 THEN {6} ELSE LowHalf(all[j - 1]))
            \cup (IF j <= Len(all) THEN HighHalf(all[j]) ELSE {})
    <3>1. j \in 1 .. Larger(d, Len(all) + 1) /\ j <= Len(all) + 1
      BY <1>2, <1>3 DEF Larger
    <3> QED
      BY <1>1, <3>1 DEF DataBytes
  <2> QED
    BY <1>3, <2>1, <2>2
<1>5. all[k] \subseteq Bit
  <2>1. CountByte(Len(t)) \in Byte
    BY DEF CountByte, Byte
  <2>2. all \in Seq(Byte)
    BY <2>1
  <2> QED
    BY <1>3, <2>2 DEF Byte
<1>6. /\ \A S : \A x \in LowHalf(S) : x \in 4 .. 7
      /\ \A S : \A x \in HighHalf(S) : x \in 0 .. 3
  BY DEF LowHalf, HighHalf
<1>7. PICK x \in Nat, y \in Nat, z \in Nat, l \in Nat :
        x = k /\ y = b /\ z = i /\ l = Len(c)
  <2>1. k \in Nat /\ b \in Nat /\ k >= 1 /\ b <= 7
    BY <1>2, <1>3
  <2>2. i \in Nat
    BY <1>1, <2>1
  <2>3. Len(c) \in Nat
    OBVIOUS
  <2> QED
    BY <2>1, <2>2, <2>3
<1>8. CASE b \in 4 .. 7
  <2>1. i < 8 * Len(c) /\ (i \div 8) + 1 = k /\ 7 - (i % 8) = b - 4
    <3>1. z = 8 * (x - 1) + (11 - y) /\ x <= n + 1 /\ n + 2 <= l /\ x >= 1 /\ y \in 4 .. 7
      BY <1>1, <1>2, <1>3, <1>7, <1>8
    <3>2. PICK r \in 4 .. 7 : r = 11 - y
      BY <3>1
    <3>3. z = 8 * (x - 1) + r /\ z \div 8 = x - 1 /\ z % 8 = r
      <4>1. PICK q \in Nat : q = x - 1
        BY <3>1
      <4>2. z = 8 * q + r
        BY <3>1, <3>2, <4>1
      <4>3. z \div 8 = q /\ z % 8 = r
        BY <4>2
      <4> QED
        BY <4>1, <4>2, <4>3
    <3>4. z < 8 * l /\ (z \div 8) + 1 = x /\ 7 - (z % 8) = y - 4
      BY <1>2, <3>1, <3>2, <3>3
    <3> QED
      BY <1>7, <3>4
  <2>2. BitAt(c, i) <=> b - 4 \in c[k]
    BY <2>1 DEF BitAt
  <2>3. b - 4 \in HighHalf(all[k]) <=> b \in all[k]
    <3>1. b - 4 \in HighHalf(all[k]) <=> \E j \in all[k] \cap 4 .. 7 : b - 4 = j - 4
      BY DEF HighHalf
    <3>2. \A j \in 4 .. 7 : b - 4 = j - 4 <=> j = b
      BY <1>8
    <3> QED
      BY <1>8, <3>1, <3>2
  <2>4. b - 4 \in 0 .. 3 /\ b - 4 # 6
    BY <1>8
  <2>5. b - 4 \notin (IF k = 1 THEN {6} ELSE LowHalf(all[k - 1]))
    <3>1. \A w \in 4 .. 7 : w # b - 4
      BY <1>8
    <3> QED
      BY <1>6, <2>4, <3>1
  <2>6. c[k] = (IF k = 1 THEN {6} ELSE LowHalf(all[k - 1])) \cup HighHalf(all[k])
    <3>1. k \in 1 .. n + 2 /\ k <= n + 1
      BY <1>2, <1>3
    <3> QED
      BY <1>4, <3>1
  <2> QED
    BY <1>1, <2>2, <2>3, <2>5, <2>6
<1>9. CASE b \in 0 .. 3
  <2>1. i < 8 * Len(c) /\ (i \div 8) + 1 = k + 1 /\ 7 - (i % 8) = b + 4
    <3>1. z = 8 * x + (3 - y) /\ x <= n + 1 /\ n + 2 <= l /\ x >= 1 /\ y \in 0 .. 3
      BY <1>1, <1>2, <1>3, <1>7, <1>9
    <3>2. z < 8 * l /\ (z \div 8) + 1 = x + 1 /\ 7 - (z % 8) = y + 4
      BY <3>1, <1>2
    <3> QED
      BY <1>7, <3>2
  <2>2. BitAt(c, i) <=> b + 4 \in c[k + 1]
    BY <2>1 DEF BitAt
  <2>3. b + 4 \in LowHalf(all[k]) <=> b \in all[k]
    <3>1. b + 4 \in LowHalf(all[k]) <=> \E j \in all[k] \cap 0 .. 3 : b + 4 = j + 4
      BY DEF LowHalf
    <3>2. \A j \in 0 .. 3 : b + 4 = j + 4 <=> j = b
      BY <1>9
    <3> QED
      BY <1>9, <3>1, <3>2
  <2>4. b + 4 \notin (IF k + 1 <= n + 1 THEN HighHalf(all[k + 1]) ELSE {})
    <3>1. \A w \in 0 .. 3 : w # b + 4
      BY <1>9
    <3> QED
      BY <1>6, <3>1
  <2>5. c[k + 1] = LowHalf(all[k]) \cup (IF k + 1 <= n + 1 THEN HighHalf(all[k + 1]) ELSE {})
    <3>1. k + 1 \in 1 .. n + 2 /\ k + 1 # 1 /\ (k + 1) - 1 = k
      BY <1>2, <1>3
    <3> QED
      BY <1>4, <3>1
  <2> QED
    BY <1>1, <2>2, <2>3, <2>4, <2>5
<1> QED
  BY <1>3, <1>8, <1>9

\* The text, as it was given.
LEMMA TextRead ==
  ASSUME NEW v \in Version, isFunc = FunctionArea(v), NEW m \in Mask,
         NEW t \in Seq(Byte), Fits(Len(t), v), NEW c \in Seq(Byte),
         Len(c) = DataCodewords[v] + EcCodewords[v],
         \A k \in 1 .. DataCodewords[v] : c[k] = DataBytes(t, v)[k]
  PROVE  ReadText(Symbol(v, c, m), ReadingOrder(v), m) = t
<1>1. PICK d, order, all, n, e, last :
        /\ d = Symbol(v, c, m) /\ order = ReadingOrder(v) /\ all = <<CountByte(Len(t))>> \o t
        /\ n = Len(t) /\ e = DataCodewords[v] /\ last = Cardinality(DataVisits(v))
  OBVIOUS
<1>2. n \in Nat /\ e \in 19 .. 108 /\ n + 2 <= e
  <2>1. n \in Nat /\ e \in 19 .. 108
    BY <1>1, Sizes
  <2>2. 4 + 8 + 8 * n <= 8 * e
    BY <1>1 DEF Fits
  <2>3. PICK x \in Int : x = e - n
    BY <2>1
  <2>4. 12 <= 8 * x
    BY <2>1, <2>2, <2>3
  <2>5. 2 <= x
    BY <2>4
  <2> QED
    BY <2>1, <2>3, <2>5
<1>3. Len(c) \in Nat /\ e <= Len(c) /\ last \in Nat /\ last \div 8 = Len(c)
  <2>1. EcCodewords[v] \in 7 .. 26
    BY Sizes
  <2>2. last \in Nat /\ last \div 8 = e + EcCodewords[v]
    BY <1>1, ReadingOrderIs, FS_CardinalityType
  <2>3. Len(c) = e + EcCodewords[v]
    BY <1>1
  <2>4. PICK x \in Nat, y \in Nat : x = Len(c) /\ y = EcCodewords[v]
    BY <2>1
  <2>5. x = e + y /\ last \div 8 = e + y
    BY <2>2, <2>3, <2>4
  <2> QED
    BY <1>2, <2>2, <2>4, <2>5
<1>4. all \in Seq(Byte) /\ Len(all) = n + 1 /\ all[1] = CountByte(n)
      /\ \A k \in 1 .. n : all[k + 1] = t[k]
  <2>1. CountByte(n) \in Byte
    BY DEF CountByte, Byte
  <2>2. PICK x \in Byte : x = CountByte(n)
    BY <2>1
  <2>3. all = <<x>> \o t /\ <<x>> \in Seq(Byte) /\ Len(<<x>>) = 1
    BY <1>1, <2>2
  <2>4. all \in Seq(Byte) /\ Len(all) = 1 + n
    BY <1>1, <2>3
  <2>5. \A k \in 1 .. n + 1 : all[k] = IF k <= 1 THEN <<x>>[k] ELSE t[k - 1]
    BY <1>1, <1>2, <2>3
  <2>6. all[1] = x
    BY <1>2, <2>5
  <2>7. \A k \in 1 .. n : all[k + 1] = t[k]
    <3>1. \A k \in 1 .. n : k + 1 \in 1 .. n + 1 /\ ~ (k + 1 <= 1) /\ (k + 1) - 1 = k
      BY <1>2
    <3> QED
      BY <2>5, <3>1
  <2> QED
    BY <1>2, <2>2, <2>4, <2>6, <2>7
<1>5. ASSUME NEW k \in 1 .. n + 1
      PROVE  ReadByte(d, order, m, 4 + 8 * (k - 1)) = all[k]
  <2>1. PICK i \in Nat : i = 4 + 8 * (k - 1)
    BY <1>2
  <2>2. i + 8 <= last
    <3>1. PICK x \in Nat, l \in Nat : x = k /\ l = Len(c)
      <4>1. k \in Nat /\ Len(c) \in Nat
        BY <1>2, <1>3
      <4> QED
        BY <4>1
    <3>2. i = 4 + 8 * (x - 1) /\ x <= n + 1 /\ n + 2 <= l /\ last \div 8 = l
      BY <1>2, <1>3, <2>1, <3>1
    <3>3. 8 * l <= last
      BY <1>3, <3>1, <3>2
    <3> QED
      BY <1>2, <1>3, <2>1, <3>1, <3>2, <3>3
  <2>3. ReadByte(d, order, m, i) = {b \in Bit : BitAt(c, i + 7 - b)}
    BY <1>1, <2>2, ByteRead
  <2>4. \A b \in Bit : BitAt(c, i + 7 - b) <=> b \in all[k]
    BY <1>1, <1>3, <2>1, TextBits
  <2>5. all[k] \subseteq Bit
    BY <1>4 DEF Byte
  <2> QED
    BY <2>1, <2>3, <2>4, <2>5
<1>6. Number(ReadByte(d, order, m, 4)) = n
  <2>1. ReadByte(d, order, m, 4) = CountByte(n)
    <3>1. 1 \in 1 .. n + 1 /\ 4 + 8 * (1 - 1) = 4
      BY <1>2
    <3> QED
      BY <1>4, <1>5, <3>1
  <2>2. n \in 0 .. 255
    BY <1>2
  <2> QED
    BY <2>1, <2>2, NumberOfCount
<1>7. ASSUME NEW k \in 1 .. n
      PROVE  ReadByte(d, order, m, 4 + 8 * k) = t[k]
  <2>1. k + 1 \in 1 .. n + 1 /\ 4 + 8 * ((k + 1) - 1) = 4 + 8 * k
    BY <1>2
  <2> QED
    BY <1>4, <1>5, <2>1
<1>8. ReadText(d, order, m) = [k \in 1 .. n |-> t[k]]
  BY <1>6, <1>7 DEF ReadText
<1>9. t = [k \in 1 .. n |-> t[k]]
  BY <1>1
<1> QED
  BY <1>1, <1>8, <1>9

-----------------------------------------------------------------------------
(***************************************************************************)
(* What the reader finds in the finished symbol.                           *)
(***************************************************************************)
\* The inductive invariant, from the text to the placed symbol: the data codewords
\* are the text's, and the symbol consists of the patterns and the codewords.
ReadInv ==
  /\ stage \in Working =>
       text \in Seq(Byte) /\ Fits(Len(text), version) /\ bytes = DataBytes(text, version)
  /\ stage = "place" => dark = Patterns(version)
  /\ stage \in Drawn => Len(rem) = EcCodewords[version]
  /\ stage \in {"mask", "weigh", "done"} =>
       placed = Patterns(version) \cup Placed(version, Codewords)

\* What is placed depends on the codewords and the reserved modules.
LEMMA PlacedIsFixed ==
  ASSUME UNCHANGED <<version, bytes, rem, isFunc>>
  PROVE  Placed(version, Codewords)' = Placed(version, Codewords)
BY DEF Placed, DataVisits, Codewords

\* Every step keeps text, codewords and symbol together.
LEMMA ReadStep ==
  ASSUME TypeInv, ReadInv, [Next]_vars
  PROVE  ReadInv'
<1>1. CASE FillTable \/ Return
  <2>1. stage' \notin Working
    BY <1>1 DEF FillTable, Return, Working
  <2> QED
    BY <2>1 DEF ReadInv, Working, Drawn
<1>2. ASSUME NEW t \in Text, Begin(t)
      PROVE  ReadInv'
  <2>1. /\ Fits(Len(t), version') /\ bytes' = DataBytes(t, version')
        /\ text' = t /\ stage' = "generator"
    BY <1>2 DEF Begin
  <2>2. t \in Seq(Byte)
    BY TextAssumption
  <2> QED
    BY <2>1, <2>2 DEF ReadInv, Drawn
<1>3. CASE Generate \/ Generated \/ Divide
  <2>1. /\ stage \in Working /\ stage' \in Working \ Drawn
        /\ UNCHANGED <<text, version, bytes>>
    BY <1>3 DEF Generate, Generated, Divide, Working, Drawn
  <2> QED
    BY <2>1 DEF ReadInv, Drawn
<1>4. CASE DrawFunctionPatterns
  <2>1. /\ stage = "divide" /\ stage' = "place" /\ dark' = Patterns(version)
        /\ UNCHANGED <<text, version, bytes, rem>>
    BY <1>4 DEF DrawFunctionPatterns, codeVars
  <2>2. Len(rem) = EcCodewords[version]
    <3>1. rem \in Poly(EcCodewords[version]) /\ version \in Version
      BY <2>1 DEF TypeInv, Polynomials, TypeOK
    <3>2. EcCodewords[version] \in Nat
      BY <3>1, Sizes
    <3> QED
      BY <3>1, <3>2, PolyIs
  <2> QED
    BY <2>1, <2>2 DEF ReadInv, Working
<1>5. CASE PlaceData
  <2>1. /\ stage = "place" /\ stage' = "mask"
        /\ placed' = dark \cup Placed(version, Codewords)
        /\ UNCHANGED <<text, version, bytes, rem, isFunc>>
    BY <1>5 DEF PlaceData, codeVars
  <2>2. dark = Patterns(version)
    BY <2>1 DEF ReadInv
  <2>3. placed' = Patterns(version') \cup Placed(version, Codewords)'
    BY <2>1, <2>2, PlacedIsFixed
  <2> QED
    BY <2>1, <2>3 DEF ReadInv, Working, Drawn
<1>6. CASE TryMask \/ Weigh \/ ApplyBest
  <2>1. /\ stage \in {"mask", "weigh", "done"} /\ stage' \in {"mask", "weigh", "done"}
        /\ UNCHANGED <<text, version, bytes, rem, isFunc, placed>>
    BY <1>6 DEF TryMask, Weigh, ApplyBest, codeVars
  <2>2. Placed(version, Codewords)' = Placed(version, Codewords)
    BY <2>1, PlacedIsFixed
  <2> QED
    BY <2>1, <2>2 DEF ReadInv, Working, Drawn
<1>7. CASE UNCHANGED vars
  <2>1. UNCHANGED <<stage, text, version, bytes, rem, dark, isFunc, placed>>
    BY <1>7 DEF vars, codeVars
  <2>2. Placed(version, Codewords)' = Placed(version, Codewords)
    BY <2>1, PlacedIsFixed
  <2> QED
    BY <2>1, <2>2 DEF ReadInv
<1> QED
  BY <1>1, <1>2, <1>3, <1>4, <1>5, <1>6, <1>7 DEF Next, Encode

\* So the reader gets the text and all codewords out of the symbol.
LEMMA SymbolRead ==
  ASSUME TypeInv, BestInv, ReadInv
  PROVE  ReadsBack
<1> SUFFICES ASSUME stage = "done", NEW f \in NearestFormats(dark, version)
             PROVE  /\ f.level = {13}
                    /\ ReadText(dark, ReadingOrder(version), f.mask) = text
                    /\ ReadBytes(dark, ReadingOrder(version), f.mask) = Codewords
  BY DEF ReadsBack
<1>1. best \in Mask /\ dark = Under(best)
  BY DEF BestInv, BestMask
<1>2. /\ version \in Version /\ bytes \in Seq(Byte) /\ rem \in Seq(Byte)
      /\ Len(bytes) = DataCodewords[version]
  BY DEF TypeInv, TypeOK
<1>3. isFunc = FunctionArea(version)
  BY DEF TypeInv, Drawing, Drawn
<1>4. /\ text \in Seq(Byte) /\ Fits(Len(text), version) /\ bytes = DataBytes(text, version)
      /\ Len(rem) = EcCodewords[version]
      /\ placed = Patterns(version) \cup Placed(version, Codewords)
  BY DEF ReadInv, Working, Drawn
<1>5. dark = Symbol(version, Codewords, best)
  BY <1>1, <1>4 DEF Under, Symbol
<1>6. /\ Codewords \in Seq(Byte)
      /\ Len(Codewords) = DataCodewords[version] + EcCodewords[version]
  BY <1>2, <1>4 DEF Codewords
<1>7. \A k \in 1 .. DataCodewords[version] : Codewords[k] = DataBytes(text, version)[k]
  <2>1. \A k \in 1 .. Len(bytes) : (bytes \o rem)[k] = bytes[k]
    BY <1>2
  <2> QED
    BY <1>2, <1>4, <2>1 DEF Codewords
<1>8. f.level = {13} /\ f.mask = best
  BY <1>1, <1>2, NearestRead DEF Under
<1>9. ReadText(dark, ReadingOrder(version), best) = text
  BY <1>1, <1>2, <1>3, <1>4, <1>5, <1>6, <1>7, TextRead
<1>10. ReadBytes(dark, ReadingOrder(version), best) = Codewords
  BY <1>1, <1>2, <1>3, <1>5, <1>6, CodewordsRead
<1> QED
  BY <1>8, <1>9, <1>10

\* "A scannable code", for every text that fits a version: a reader that follows the
\* standard finds the first copy of the format bits, in it the mask, and under the
\* mask, along the zigzag, every codeword and the text (Encode, setFormatBits,
\* placeData, applyMask).
THEOREM ReadsBackCorrect == Spec => []ReadsBack
<1>1. Init => BestInv /\ ReadInv
  BY DEF Init, BestInv, BestMask, ReadInv, Working, Drawn
<1>2. TypeInv /\ BestInv /\ [Next]_vars => BestInv'
  BY BestStep
<1>3. TypeInv /\ ReadInv /\ [Next]_vars => ReadInv'
  BY ReadStep
<1>4. TypeInv /\ BestInv /\ ReadInv => ReadsBack
  BY SymbolRead
<1> QED
  BY <1>1, <1>2, <1>3, <1>4, TypeInit, TypeStep, PTL DEF Spec
=============================================================================
