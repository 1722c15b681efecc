-------------------------- MODULE GaloisFieldProofs ---------------------------
(***************************************************************************)
(* Proofs about GaloisField: the tables that init fills are those of a     *)
(* field, multiplication distributes over exclusive or, the generator      *)
(* vanishes at the first powers of x, and a polynomial and its remainder,  *)
(* one after the other, vanish where the generator does.                   *)
(***************************************************************************)
EXTENDS GaloisField, FiniteSetTheorems, FunctionTheorems, WellFoundedInduction, TLAPS
-----------------------------------------------------------------------------
(***************************************************************************)
(* Bytes.                                                                  *)
(***************************************************************************)
\* A byte is its bits.
LEMMA SameBits ==
  ASSUME NEW a \in Byte, NEW b \in Byte, \A k \in Bit : k \in a <=> k \in b
  PROVE  a = b
BY DEF Byte

\* Bytes are closed under what the tables and the polynomials do with them.
LEMMA XorIsByte ==
  ASSUME NEW a \in Byte, NEW b \in Byte
  PROVE  Xor(a, b) \in Byte
BY DEF Xor, Byte

\* A shift that leaves the byte is reduced.
LEMMA DoubledIsByte ==
  ASSUME NEW a \in Byte
  PROVE  Doubled(a) \in Byte
<1>1. Shifted(a) \subseteq 0 .. 8
  BY DEF Shifted, Byte, Bit
<1>2. CASE 8 \in Shifted(a)
  <2>1. Doubled(a) = (Shifted(a) \ Primitive) \cup (Primitive \ Shifted(a))
    BY <1>2 DEF Doubled, Xor
  <2>2. \A k \in Doubled(a) : k \in 0 .. 8 /\ k # 8
    BY <1>1, <1>2, <2>1 DEF Primitive
  <2> QED
    BY <2>2 DEF Byte, Bit
<1>3. CASE 8 \notin Shifted(a)
  <2>1. Doubled(a) = Shifted(a)
    BY <1>3 DEF Doubled
  <2>2. \A k \in Doubled(a) : k \in 0 .. 8 /\ k # 8
    BY <1>1, <1>3, <2>1
  <2> QED
    BY <2>2 DEF Byte, Bit
<1> QED
  BY <1>2, <1>3

\* Each bit of x times a is a bit of a, or two that are added.
LEMMA DoubledBits ==
  ASSUME NEW a \in Byte
  PROVE  /\ Doubled(a) \in Byte
         /\ 0 \in Doubled(a) <=> 7 \in a
         /\ 1 \in Doubled(a) <=> 0 \in a
         /\ 2 \in Doubled(a) <=> ~(1 \in a <=> 7 \in a)
         /\ 3 \in Doubled(a) <=> ~(2 \in a <=> 7 \in a)
         /\ 4 \in Doubled(a) <=> ~(3 \in a <=> 7 \in a)
         /\ 5 \in Doubled(a) <=> 4 \in a
         /\ 6 \in Doubled(a) <=> 5 \in a
         /\ 7 \in Doubled(a) <=> 6 \in a
<1>1. \A k \in 0 .. 8 : k \in Shifted(a) <=> k - 1 \in a
  BY DEF Shifted, Byte, Bit
<1> QED
  BY <1>1, DoubledIsByte DEF Doubled, Xor, Primitive, Byte, Bit

\* x squared times a.
By2(a) == Doubled(Doubled(a))

\* Its bits.
LEMMA By2Bits ==
  ASSUME NEW a \in Byte
  PROVE  /\ By2(a) \in Byte
         /\ 0 \in By2(a) <=> 6 \in a
         /\ 1 \in By2(a) <=> 7 \in a
         /\ 2 \in By2(a) <=> ~(0 \in a <=> 6 \in a)
         /\ 3 \in By2(a) <=> ((1 \in a <=> 6 \in a) <=> 7 \in a)
         /\ 4 \in By2(a) <=> ((2 \in a <=> 6 \in a) <=> 7 \in a)
         /\ 5 \in By2(a) <=> ~(3 \in a <=> 7 \in a)
         /\ 6 \in By2(a) <=> 4 \in a
         /\ 7 \in By2(a) <=> 5 \in a
BY DoubledBits DEF By2

\* x to the 4 times a.
By4(a) == By2(By2(a))

\* Its bits.
LEMMA By4Bits ==
  ASSUME NEW a \in Byte
  PROVE  /\ By4(a) \in Byte
         /\ 0 \in By4(a) <=> 4 \in a
         /\ 1 \in By4(a) <=> 5 \in a
         /\ 2 \in By4(a) <=> ~(4 \in a <=> 6 \in a)
         /\ 3 \in By4(a) <=> ((4 \in a <=> 5 \in a) <=> 7 \in a)
         /\ 4 \in By4(a) <=> ~(((0 \in a <=> 4 \in a) <=> 5 \in a) <=> 6 \in a)
         /\ 5 \in By4(a) <=> ~(((1 \in a <=> 5 \in a) <=> 6 \in a) <=> 7 \in a)
         /\ 6 \in By4(a) <=> ((2 \in a <=> 6 \in a) <=> 7 \in a)
         /\ 7 \in By4(a) <=> ~(3 \in a <=> 7 \in a)
BY By2Bits DEF By4

\* x to the 8 times a.
By8(a) == By4(By4(a))

\* Its bits.
LEMMA By8Bits ==
  ASSUME NEW a \in Byte
  PROVE  /\ By8(a) \in Byte
         /\ 0 \in By8(a) <=> ~(((0 \in a <=> 4 \in a) <=> 5 \in a) <=> 6 \in a)
         /\ 1 \in By8(a) <=> ~(((1 \in a <=> 5 \in a) <=> 6 \in a) <=> 7 \in a)
         /\ 2 \in By8(a) <=> ((((0 \in a <=> 2 \in a) <=> 4 \in a) <=> 5 \in a) <=> 7 \in a)
         /\ 3 \in By8(a) <=> ~(((0 \in a <=> 1 \in a) <=> 3 \in a) <=> 4 \in a)
         /\ 4 \in By8(a) <=> ~(((0 \in a <=> 1 \in a) <=> 2 \in a) <=> 6 \in a)
         /\ 5 \in By8(a) <=> ~(((1 \in a <=> 2 \in a) <=> 3 \in a) <=> 7 \in a)
         /\ 6 \in By8(a) <=> ((2 \in a <=> 3 \in a) <=> 4 \in a)
         /\ 7 \in By8(a) <=> ((3 \in a <=> 4 \in a) <=> 5 \in a)
BY By4Bits DEF By8

\* x to the 16 times a.
By16(a) == By8(By8(a))

\* Its bits.
LEMMA By16Bits ==
  ASSUME NEW a \in Byte
  PROVE  /\ By16(a) \in Byte
         /\ 0 \in By16(a) <=> ((2 \in a <=> 5 \in a) <=> 7 \in a)
         /\ 1 \in By16(a) <=> ~(3 \in a <=> 6 \in a)
         /\ 2 \in By16(a) <=> ~(((0 \in a <=> 2 \in a) <=> 4 \in a) <=> 5 \in a)
         /\ 3 \in By16(a) <=> ~(((((0 \in a <=> 1 \in a) <=> 2 \in a) <=> 3 \in a)
                                   <=> 6 \in a) <=> 7 \in a)
         /\ 4 \in By16(a) <=> ~(((1 \in a <=> 3 \in a) <=> 4 \in a) <=> 5 \in a)
         /\ 5 \in By16(a) <=> ~(((2 \in a <=> 4 \in a) <=> 5 \in a) <=> 6 \in a)
         /\ 6 \in By16(a) <=> ((((0 \in a <=> 3 \in a) <=> 5 \in a) <=> 6 \in a) <=> 7 \in a)
         /\ 7 \in By16(a) <=> ~(((1 \in a <=> 4 \in a) <=> 6 \in a) <=> 7 \in a)
BY By8Bits DEF By16

\* Doubling is linear.
LEMMA DoubledIsLinear ==
  ASSUME NEW a \in Byte, NEW b \in Byte
  PROVE  Doubled(Xor(a, b)) = Xor(Doubled(a), Doubled(b))
<1>1. \A k, c, d : k \in Xor(c, d) <=> ~(k \in c <=> k \in d)
  BY DEF Xor
<1>2. PICK c : c = Xor(a, b)
  OBVIOUS
<1>3. /\ c \in Byte /\ Doubled(a) \in Byte /\ Doubled(b) \in Byte
      /\ Doubled(c) \in Byte /\ Xor(Doubled(a), Doubled(b)) \in Byte
  BY <1>2, XorIsByte, DoubledIsByte
<1>4. \A k \in Bit : k \in c <=> ~(k \in a <=> k \in b)
  BY <1>1, <1>2
<1>5. ASSUME NEW k \in Bit
      PROVE  k \in Doubled(c) <=> ~(k \in Doubled(a) <=> k \in Doubled(b))
  <2>1. k \in {0, 1, 2, 3, 4, 5, 6, 7} /\ {0, 1, 2, 3, 4, 5, 6, 7} \subseteq Bit
    BY DEF Bit
  <2>2. CASE k \in {0, 1}
    BY <1>3, <1>4, <2>1, <2>2, DoubledBits
  <2>3. CASE k \in {2, 3, 4}
    BY <1>3, <1>4, <2>1, <2>3, DoubledBits
  <2>4. CASE k \in {5, 6, 7}
    BY <1>3, <1>4, <2>1, <2>4, DoubledBits
  <2> QED
    BY <2>1, <2>2, <2>3, <2>4
<1>6. \A k \in Bit : k \in Doubled(c) <=> k \in Xor(Doubled(a), Doubled(b))
  BY <1>1, <1>5
<1> QED
  BY <1>2, <1>3, <1>6, SameBits

\* Doubling can be undone.
LEMMA DoubledIsInjective ==
  ASSUME NEW a \in Byte, NEW b \in Byte, Doubled(a) = Doubled(b)
  PROVE  a = b
<1>1. ASSUME NEW k \in Bit
      PROVE  k \in a <=> k \in b
  <2>1. k \in {0, 1, 2, 3, 4, 5, 6, 7}
    BY DEF Bit
  <2>2. PICK d : d = Doubled(a) /\ d = Doubled(b)
    OBVIOUS
  <2>3. 7 \in a <=> 7 \in b
    BY <2>2, DoubledBits
  <2>4. CASE k \in {0, 4, 5, 6}
    BY <2>2, <2>4, DoubledBits
  <2>5. CASE k \in {1, 2, 3}
    BY <2>2, <2>3, <2>5, DoubledBits
  <2> QED
    BY <2>1, <2>3, <2>4, <2>5
<1> QED
  BY <1>1, SameBits

-----------------------------------------------------------------------------
(***************************************************************************)
(* The powers of x.  It has to be shown that 255 of them are distinct.     *)
(* For that, powers up to the 15th (SmallPower) and x to -16, -32, ...     *)
(* (LargeRoot) are written out: would a power come back to 1, one of the   *)
(* former would be one of the latter.                                      *)
(***************************************************************************)
\* The exponents, under a name lest the provers go through them one by one.
Index == 0 .. 254

\* f has the powers of x up to the n-th.
Powers(f, n) ==
  /\ f \in [Index -> Byte] /\ f[0] = {0}
  /\ \A i \in 1 .. n : f[i] = Doubled(f[i - 1])

\* The powers 1 to 15.
SmallPower ==
  <<{1}, {2}, {3}, {4}, {5}, {6}, {7}, {0, 2, 3, 4},
    {1, 3, 4, 5}, {2, 4, 5, 6}, {3, 5, 6, 7}, {0, 2, 3, 6, 7}, {0, 1, 2, 7},
    {0, 1, 4}, {1, 2, 5}>>

\* x to the -16, the -32, and so on to the -240.
LargeRoot ==
  <<{1, 2, 4}, {0, 3}, {1, 2, 5, 7}, {0, 6}, {0, 1, 2, 3, 4, 5, 6, 7}, {0, 1, 4, 5, 6},
    {2, 4, 6}, {2, 3, 6, 7}, {1, 2, 3, 6, 7}, {1, 5, 6, 7}, {4, 5, 6, 7},
    {0, 5, 7}, {0, 1, 5}, {6, 7}, {1, 2, 5}>>

\* Sixteen steps are one of By16.
LEMMA SixteenSteps ==
  ASSUME NEW n \in Index, NEW f, Powers(f, n)
  PROVE  \A i \in 0 .. n - 16 : f[i + 16] = By16(f[i])
<1>1. \A i \in 0 .. n - 1 : f[i + 1] = Doubled(f[i])
  BY DEF Powers, Index
<1>2. \A i \in 0 .. n - 2 : f[i + 2] = By2(f[i])
  BY <1>1 DEF By2, Index
<1>3. \A i \in 0 .. n - 4 : f[i + 4] = By4(f[i])
  BY <1>2 DEF By4, Index
<1>4. \A i \in 0 .. n - 8 : f[i + 8] = By8(f[i])
  BY <1>3 DEF By8, Index
<1> QED
  BY <1>4 DEF By16, Index

\* x to -16 q is x to the 16th times x to -16 (q + 1).
LEMMA LargeRoots ==
  ASSUME NEW q \in 1 .. 15
  PROVE  /\ LargeRoot[q] \in Byte
         /\ By16(LargeRoot[q]) = IF q = 1 THEN {0} ELSE LargeRoot[q - 1]
<1>1. CASE q = 1
  <2>1. {1, 2, 4} \in Byte /\ By16({1, 2, 4}) = {0}
    BY By16Bits, SameBits DEF Byte, Bit
  <2> QED
    BY <1>1, <2>1 DEF LargeRoot
<1>2. CASE q = 2
  <2>1. {0, 3} \in Byte /\ By16({0, 3}) = {1, 2, 4}
    BY By16Bits, SameBits DEF Byte, Bit
  <2> QED
    BY <1>2, <2>1 DEF LargeRoot
<1>3. CASE q = 3
  <2>1. {1, 2, 5, 7} \in Byte /\ By16({1, 2, 5, 7}) = {0, 3}
    BY By16Bits, SameBits DEF Byte, Bit
  <2> QED
    BY <1>3, <2>1 DEF LargeRoot
<1>4. CASE q = 4
  <2>1. {0, 6} \in Byte /\ By16({0, 6}) = {1, 2, 5, 7}
    BY By16Bits, SameBits DEF Byte, Bit
  <2> QED
    BY <1>4, <2>1 DEF LargeRoot
<1>5. CASE q = 5
  <2>1. {0, 1, 2, 3, 4, 5, 6, 7} \in Byte /\ By16({0, 1, 2, 3, 4, 5, 6, 7}) = {0, 6}
    BY By16Bits, SameBits DEF Byte, Bit
  <2> QED
    BY <1>5, <2>1 DEF LargeRoot
<1>6. CASE q = 6
  <2>1. {0, 1, 4, 5, 6} \in Byte /\ By16({0, 1, 4, 5, 6}) = {0, 1, 2, 3, 4, 5, 6, 7}
    BY By16Bits, SameBits DEF Byte, Bit
  <2> QED
    BY <1>6, <2>1 DEF LargeRoot
<1>7. CASE q = 7
  <2>1. {2, 4, 6} \in Byte /\ By16({2, 4, 6}) = {0, 1, 4, 5, 6}
    BY By16Bits, SameBits DEF Byte, Bit
  <2> QED
    BY <1>7, <2>1 DEF LargeRoot
<1>8. CASE q = 8
  <2>1. {2, 3, 6, 7} \in Byte /\ By16({2, 3, 6, 7}) = {2, 4, 6}
    BY By16Bits, SameBits DEF Byte, Bit
  <2> QED
    BY <1>8, <2>1 DEF LargeRoot
<1>9. CASE q = 9
  <2>1. {1, 2, 3, 6, 7} \in Byte /\ By16({1, 2, 3, 6, 7}) = {2, 3, 6, 7}
    BY By16Bits, SameBits DEF Byte, Bit
  <2> QED
    BY <1>9, <2>1 DEF LargeRoot
<1>10. CASE q = 10
  <2>1. {1, 5, 6, 7} \in Byte /\ By16({1, 5, 6, 7}) = {1, 2, 3, 6, 7}
    BY By16Bits, SameBits DEF Byte, Bit
  <2> QED
    BY <1>10, <2>1 DEF LargeRoot
<1>11. CASE q = 11
  <2>1. {4, 5, 6, 7} \in Byte /\ By16({4, 5, 6, 7}) = {1, 5, 6, 7}
    BY By16Bits, SameBits DEF Byte, Bit
  <2> QED
    BY <1>11, <2>1 DEF LargeRoot
<1>12. CASE q = 12
  <2>1. {0, 5, 7} \in Byte /\ By16({0, 5, 7}) = {4, 5, 6, 7}
    BY By16Bits, SameBits DEF Byte, Bit
  <2> QED
    BY <1>12, <2>1 DEF LargeRoot
<1>13. CASE q = 13
  <2>1. {0, 1, 5} \in Byte /\ By16({0, 1, 5}) = {0, 5, 7}
    BY By16Bits, SameBits DEF Byte, Bit
  <2> QED
    BY <1>13, <2>1 DEF LargeRoot
<1>14. CASE q = 14
  <2>1. {6, 7} \in Byte /\ By16({6, 7}) = {0, 1, 5}
    BY By16Bits, SameBits DEF Byte, Bit
  <2> QED
    BY <1>14, <2>1 DEF LargeRoot
<1>15. CASE q = 15
  <2>1. {1, 2, 5} \in Byte /\ By16({1, 2, 5}) = {6, 7}
    BY By16Bits, SameBits DEF Byte, Bit
  <2> QED
    BY <1>15, <2>1 DEF LargeRoot
<1> QED
  BY <1>1, <1>2, <1>3, <1>4, <1>5, <1>6, <1>7, <1>8, <1>9, <1>10, <1>11, <1>12, <1>13, <1>14, <1>15

\* By16 can be undone, as doubling can.
LEMMA By16IsInjective ==
  ASSUME NEW a \in Byte, NEW b \in Byte, By16(a) = By16(b)
  PROVE  a = b
<1>1. \A c \in Byte : Doubled(c) \in Byte /\ By2(c) \in Byte /\ By4(c) \in Byte /\ By8(c) \in Byte
  BY DoubledBits, By2Bits, By4Bits, By8Bits
<1>2. \A c, d \in Byte : Doubled(c) = Doubled(d) => c = d
  BY DoubledIsInjective
<1>3. \A c, d \in Byte : By2(c) = By2(d) => c = d
  BY <1>1, <1>2 DEF By2
<1>4. \A c, d \in Byte : By4(c) = By4(d) => c = d
  BY <1>1, <1>3 DEF By4
<1>5. \A c, d \in Byte : By8(c) = By8(d) => c = d
  BY <1>1, <1>4 DEF By8
<1> QED
  BY <1>1, <1>5 DEF By16

\* The first powers, each x times the one before.
LEMMA SmallPowers ==
  ASSUME NEW r \in 1 .. 15
  PROVE  SmallPower[r] = IF r = 1 THEN Doubled({0}) ELSE Doubled(SmallPower[r - 1])
<1>1. CASE r = 1
  <2>1. Doubled({0}) = {1}
    BY DoubledBits, SameBits DEF Byte, Bit
  <2> QED
    BY <1>1, <2>1 DEF SmallPower
<1>2. CASE r = 2
  <2>1. Doubled({1}) = {2}
    BY DoubledBits, SameBits DEF Byte, Bit
  <2> QED
    BY <1>2, <2>1 DEF SmallPower
<1>3. CASE r = 3
  <2>1. Doubled({2}) = {3}
    BY DoubledBits, SameBits DEF Byte, Bit
  <2> QED
    BY <1>3, <2>1 DEF SmallPower
<1>4. CASE r = 4
  <2>1. Doubled({3}) = {4}
    BY DoubledBits, SameBits DEF Byte, Bit
  <2> QED
    BY <1>4, <2>1 DEF SmallPower
<1>5. CASE r = 5
  <2>1. Doubled({4}) = {5}
    BY DoubledBits, SameBits DEF Byte, Bit
  <2> QED
    BY <1>5, <2>1 DEF SmallPower
<1>6. CASE r = 6
  <2>1. Doubled({5}) = {6}
    BY DoubledBits, SameBits DEF Byte, Bit
  <2> QED
    BY <1>6, <2>1 DEF SmallPower
<1>7. CASE r = 7
  <2>1. Doubled({6}) = {7}
    BY DoubledBits, SameBits DEF Byte, Bit
  <2> QED
    BY <1>7, <2>1 DEF SmallPower
<1>8. CASE r = 8
  <2>1. Doubled({7}) = {0, 2, 3, 4}
    BY DoubledBits, SameBits DEF Byte, Bit
  <2> QED
    BY <1>8, <2>1 DEF SmallPower
<1>9. CASE r = 9
  <2>1. Doubled({0, 2, 3, 4}) = {1, 3, 4, 5}
    BY DoubledBits, SameBits DEF Byte, Bit
  <2> QED
    BY <1>9, <2>1 DEF SmallPower
<1>10. CASE r = 10
  <2>1. Doubled({1, 3, 4, 5}) = {2, 4, 5, 6}
    BY DoubledBits, SameBits DEF Byte, Bit
  <2> QED
    BY <1>10, <2>1 DEF SmallPower
<1>11. CASE r = 11
  <2>1. Doubled({2, 4, 5, 6}) = {3, 5, 6, 7}
    BY DoubledBits, SameBits DEF Byte, Bit
  <2> QED
    BY <1>11, <2>1 DEF SmallPower
<1>12. CASE r = 12
  <2>1. Doubled({3, 5, 6, 7}) = {0, 2, 3, 6, 7}
    BY DoubledBits, SameBits DEF Byte, Bit
  <2> QED
    BY <1>12, <2>1 DEF SmallPower
<1>13. CASE r = 13
  <2>1. Doubled({0, 2, 3, 6, 7}) = {0, 1, 2, 7}
    BY DoubledBits, SameBits DEF Byte, Bit
  <2> QED
    BY <1>13, <2>1 DEF SmallPower
<1>14. CASE r = 14
  <2>1. Doubled({0, 1, 2, 7}) = {0, 1, 4}
    BY DoubledBits, SameBits DEF Byte, Bit
  <2> QED
    BY <1>14, <2>1 DEF SmallPower
<1>15. CASE r = 15
  <2>1. Doubled({0, 1, 4}) = {1, 2, 5}
    BY DoubledBits, SameBits DEF Byte, Bit
  <2> QED
    BY <1>15, <2>1 DEF SmallPower
<1> QED
  BY <1>1, <1>2, <1>3, <1>4, <1>5, <1>6, <1>7, <1>8, <1>9, <1>10, <1>11, <1>12, <1>13, <1>14, <1>15

\* A set of numbers that is not empty has a least one.
LEMMA LeastNumber ==
  ASSUME NEW T, T \subseteq Nat, T # {}
  PROVE  \E x \in T : \A y \in T : x <= y
<1> DEFINE R == OpToRel(<, Nat)
<1>1. IsWellFoundedOn(R, Nat)
  BY NatLessThanWellFounded
<1>2. \A x, y \in Nat : y < x => <<y, x>> \in R
  BY DEF OpToRel
<1> HIDE DEF R
<1>3. PICK x \in T : \A y \in T : ~(<<y, x>> \in R)
  BY <1>1, WFMin
<1>4. x \in Nat /\ \A y \in T : y \in Nat /\ ~(y < x)
  BY <1>2, <1>3
<1> QED
  BY <1>4

\* f begins with them.
LEMMA BeginsSmall ==
  ASSUME NEW n \in Index, NEW f, Powers(f, n), NEW r \in 1 .. 15, r <= n
  PROVE  f[r] = SmallPower[r]
<1> DEFINE T == {i \in 1 .. 15 : i <= n /\ f[i] # SmallPower[i]}
<1>1. SUFFICES ASSUME T # {}
               PROVE  FALSE
  OBVIOUS
<1>2. T \subseteq Nat
  OBVIOUS
<1>3. PICK x \in T : \A y \in T : x <= y
  BY <1>1, <1>2, LeastNumber
<1>4. x \in 1 .. 15 /\ x <= n /\ f[x] # SmallPower[x]
  OBVIOUS
<1>5. x > 1 => f[x - 1] = SmallPower[x - 1]
  BY <1>3, <1>4 DEF Index
<1>6. f[0] = {0} /\ f[x] = Doubled(f[x - 1])
  BY <1>4 DEF Powers
<1>7. f[x] = SmallPower[x]
  <2>1. CASE x = 1
    BY <1>6, <2>1, SmallPowers
  <2>2. CASE x > 1
    BY <1>4, <1>5, <1>6, <2>2, SmallPowers
  <2> QED
    BY <1>4, <2>1, <2>2
<1> QED
  BY <1>4, <1>7

\* If a power came back to 1, then so would those 16 q places before come to x
\* to -16 q.
LEMMA ComesFrom ==
  ASSUME NEW n \in Index, NEW f, Powers(f, n), NEW d \in 1 .. n, f[d] = {0},
         NEW q \in 1 .. 15, 16 * q <= d
  PROVE  f[d - 16 * q] = LargeRoot[q]
<1> DEFINE T == {k \in 1 .. 15 : 16 * k <= d /\ f[d - 16 * k] # LargeRoot[k]}
<1>1. SUFFICES ASSUME T # {}
               PROVE  FALSE
  OBVIOUS
<1>2. T \subseteq Nat
  OBVIOUS
<1>3. PICK k \in T : \A y \in T : k <= y
  BY <1>1, <1>2, LeastNumber
<1>4. k \in 1 .. 15 /\ 16 * k <= d /\ f[d - 16 * k] # LargeRoot[k]
  OBVIOUS
<1>5. PICK i : i = d - 16 * k
  OBVIOUS
<1>6. i \in 0 .. n - 16 /\ f[i] # LargeRoot[k]
  BY <1>4, <1>5 DEF Index
<1>7. f[i + 16] = By16(f[i])
  BY <1>6, SixteenSteps
<1>8. f[i + 16] = IF k = 1 THEN {0} ELSE LargeRoot[k - 1]
  <2>1. CASE k = 1
    BY <1>5, <2>1
  <2>2. CASE k > 1
    <3>1. k - 1 \notin T
      BY <1>3, <2>2
    <3>2. k - 1 \in 1 .. 15 /\ 16 * (k - 1) <= d /\ d - 16 * (k - 1) = i + 16
      BY <1>4, <1>5, <2>2
    <3> QED
      BY <2>2, <3>1, <3>2
  <2> QED
    BY <1>4, <2>1, <2>2
<1>9. By16(f[i]) = By16(LargeRoot[k])
  BY <1>4, <1>7, <1>8, LargeRoots
<1>10. f[i] \in Byte /\ LargeRoot[k] \in Byte
  <2>1. i \in Index
    BY <1>6 DEF Index
  <2>2. f[i] \in Byte
    BY <2>1 DEF Powers
  <2> QED
    BY <1>4, <2>2, LargeRoots
<1> QED
  BY <1>6, <1>9, <1>10, By16IsInjective

\* Which of the small powers have a bit.
LEMMA SmallBits ==
  ASSUME NEW r \in 1 .. 15
  PROVE  /\ (0 \in SmallPower[r]) = (r \in {8, 12, 13, 14})
         /\ (1 \in SmallPower[r]) = (r \in {1, 9, 13, 14, 15})
         /\ (2 \in SmallPower[r]) = (r \in {2, 8, 10, 12, 13, 15})
         /\ (3 \in SmallPower[r]) = (r \in {3, 8, 9, 11, 12})
         /\ (4 \in SmallPower[r]) = (r \in {4, 8, 9, 10, 14})
         /\ (5 \in SmallPower[r]) = (r \in {5, 9, 10, 11, 15})
         /\ (6 \in SmallPower[r]) = (r \in {6, 10, 11, 12})
         /\ (7 \in SmallPower[r]) = (r \in {7, 11, 12, 13})
<1>1. CASE r = 1
  <2>1. SmallPower[1] = {1}
    BY DEF SmallPower
  <2> QED
    BY <1>1, <2>1
<1>2. CASE r = 2
  <2>1. SmallPower[2] = {2}
    BY DEF SmallPower
  <2> QED
    BY <1>2, <2>1
<1>3. CASE r = 3
  <2>1. SmallPower[3] = {3}
    BY DEF SmallPower
  <2> QED
    BY <1>3, <2>1
<1>4. CASE r = 4
  <2>1. SmallPower[4] = {4}
    BY DEF SmallPower
  <2> QED
    BY <1>4, <2>1
<1>5. CASE r = 5
  <2>1. SmallPower[5] = {5}
    BY DEF SmallPower
  <2> QED
    BY <1>5, <2>1
<1>6. CASE r = 6
  <2>1. SmallPower[6] = {6}
    BY DEF SmallPower
  <2> QED
    BY <1>6, <2>1
<1>7. CASE r = 7
  <2>1. SmallPower[7] = {7}
    BY DEF SmallPower
  <2> QED
    BY <1>7, <2>1
<1>8. CASE r = 8
  <2>1. SmallPower[8] = {0, 2, 3, 4}
    BY DEF SmallPower
  <2> QED
    BY <1>8, <2>1
<1>9. CASE r = 9
  <2>1. SmallPower[9] = {1, 3, 4, 5}
    BY DEF SmallPower
  <2> QED
    BY <1>9, <2>1
<1>10. CASE r = 10
  <2>1. SmallPower[10] = {2, 4, 5, 6}
    BY DEF SmallPower
  <2> QED
    BY <1>10, <2>1
<1>11. CASE r = 11
  <2>1. SmallPower[11] = {3, 5, 6, 7}
    BY DEF SmallPower
  <2> QED
    BY <1>11, <2>1
<1>12. CASE r = 12
  <2>1. SmallPower[12] = {0, 2, 3, 6, 7}
    BY DEF SmallPower
  <2> QED
    BY <1>12, <2>1
<1>13. CASE r = 13
  <2>1. SmallPower[13] = {0, 1, 2, 7}
    BY DEF SmallPower
  <2> QED
    BY <1>13, <2>1
<1>14. CASE r = 14
  <2>1. SmallPower[14] = {0, 1, 4}
    BY DEF SmallPower
  <2> QED
    BY <1>14, <2>1
<1>15. CASE r = 15
  <2>1. SmallPower[15] = {1, 2, 5}
    BY DEF SmallPower
  <2> QED
    BY <1>15, <2>1
<1> QED
  BY <1>1, <1>2, <1>3, <1>4, <1>5, <1>6, <1>7, <1>8, <1>9, <1>10, <1>11, <1>12, <1>13, <1>14, <1>15

\* Which of the large roots have it.
LEMMA LargeBits ==
  ASSUME NEW r \in 1 .. 15
  PROVE  /\ (0 \in LargeRoot[r]) = (r \in {2, 4, 5, 6, 12, 13})
         /\ (1 \in LargeRoot[r]) = (r \in {1, 3, 5, 6, 9, 10, 13, 15})
         /\ (2 \in LargeRoot[r]) = (r \in {1, 3, 5, 7, 8, 9, 15})
         /\ (3 \in LargeRoot[r]) = (r \in {2, 5, 8, 9})
         /\ (4 \in LargeRoot[r]) = (r \in {1, 5, 6, 7, 11})
         /\ (5 \in LargeRoot[r]) = (r \in {3, 5, 6, 10, 11, 12, 13, 15})
         /\ (6 \in LargeRoot[r]) = (r \in {4, 5, 6, 7, 8, 9, 10, 11, 14})
         /\ (7 \in LargeRoot[r]) = (r \in {3, 5, 8, 9, 10, 11, 12, 14})
<1>1. CASE r = 1
  <2>1. LargeRoot[1] = {1, 2, 4}
    BY DEF LargeRoot
  <2> QED
    BY <1>1, <2>1
<1>2. CASE r = 2
  <2>1. LargeRoot[2] = {0, 3}
    BY DEF LargeRoot
  <2> QED
    BY <1>2, <2>1
<1>3. CASE r = 3
  <2>1. LargeRoot[3] = {1, 2, 5, 7}
    BY DEF LargeRoot
  <2> QED
    BY <1>3, <2>1
<1>4. CASE r = 4
  <2>1. LargeRoot[4] = {0, 6}
    BY DEF LargeRoot
  <2> QED
    BY <1>4, <2>1
<1>5. CASE r = 5
  <2>1. LargeRoot[5] = {0, 1, 2, 3, 4, 5, 6, 7}
    BY DEF LargeRoot
  <2> QED
    BY <1>5, <2>1
<1>6. CASE r = 6
  <2>1. LargeRoot[6] = {0, 1, 4, 5, 6}
    BY DEF LargeRoot
  <2> QED
    BY <1>6, <2>1
<1>7. CASE r = 7
  <2>1. LargeRoot[7] = {2, 4, 6}
    BY DEF LargeRoot
  <2> QED
    BY <1>7, <2>1
<1>8. CASE r = 8
  <2>1. LargeRoot[8] = {2, 3, 6, 7}
    BY DEF LargeRoot
  <2> QED
    BY <1>8, <2>1
<1>9. CASE r = 9
  <2>1. LargeRoot[9] = {1, 2, 3, 6, 7}
    BY DEF LargeRoot
  <2> QED
    BY <1>9, <2>1
<1>10. CASE r = 10
  <2>1. LargeRoot[10] = {1, 5, 6, 7}
    BY DEF LargeRoot
  <2> QED
    BY <1>10, <2>1
<1>11. CASE r = 11
  <2>1. LargeRoot[11] = {4, 5, 6, 7}
    BY DEF LargeRoot
  <2> QED
    BY <1>11, <2>1
<1>12. CASE r = 12
  <2>1. LargeRoot[12] = {0, 5, 7}
    BY DEF LargeRoot
  <2> QED
    BY <1>12, <2>1
<1>13. CASE r = 13
  <2>1. LargeRoot[13] = {0, 1, 5}
    BY DEF LargeRoot
  <2> QED
    BY <1>13, <2>1
<1>14. CASE r = 14
  <2>1. LargeRoot[14] = {6, 7}
    BY DEF LargeRoot
  <2> QED
    BY <1>14, <2>1
<1>15. CASE r = 15
  <2>1. LargeRoot[15] = {1, 2, 5}
    BY DEF LargeRoot
  <2> QED
    BY <1>15, <2>1
<1> QED
  BY <1>1, <1>2, <1>3, <1>4, <1>5, <1>6, <1>7, <1>8, <1>9, <1>10, <1>11, <1>12, <1>13, <1>14, <1>15

\* No power up to the 254th is 1 again.
LEMMA NoReturn ==
  ASSUME NEW n \in Index, NEW f, Powers(f, n), NEW d \in 1 .. n
  PROVE  f[d] # {0}
<1> SUFFICES ASSUME f[d] = {0}
             PROVE  FALSE
  OBVIOUS
<1>1. PICK q, r : q = d \div 16 /\ r = d % 16
  OBVIOUS
<1>2. q \in 0 .. 15 /\ r \in 0 .. 15 /\ d = 16 * q + r /\ r <= n /\ (q = 0 => r # 0)
      /\ (q = 15 => r # 15)
  BY <1>1 DEF Index
<1>3. q # 0 => f[r] = LargeRoot[q]
  BY <1>2, ComesFrom
<1>4. r # 0 => f[r] = SmallPower[r]
  BY <1>2, BeginsSmall
<1>5. f[0] = {0}
  BY DEF Powers
<1>6. r # 0 => SmallPower[r] # {0}
  BY <1>2, SmallBits
<1>7. q # 0 => LargeRoot[q] # {0}
  BY <1>2, LargeBits
<1>8. q # 0 /\ r # 0 => SmallPower[r] # LargeRoot[q]
  <2>1. SUFFICES ASSUME q \in 1 .. 15, r \in 1 .. 15, SmallPower[r] = LargeRoot[q],
                        ~(q = 15 /\ r = 15)
                 PROVE  FALSE
    BY <1>2
  <2> QED
    BY <2>1, SmallBits, LargeBits
<1> QED
  BY <1>2, <1>3, <1>4, <1>5, <1>6, <1>7, <1>8

\* The 255 powers are distinct.
LEMMA PowersDistinct ==
  ASSUME NEW n \in Index, NEW f, Powers(f, n), NEW i \in 0 .. n, NEW j \in 0 .. n,
         f[i] = f[j]
  PROVE  i = j
<1>1. ASSUME NEW d \in 1 .. n
      PROVE  \A k \in 0 .. n - d : f[k] # f[k + d]
  <2> DEFINE T == {k \in 0 .. n - d : f[k] = f[k + d]}
  <2>1. SUFFICES ASSUME T # {}
                 PROVE  FALSE
    OBVIOUS
  <2>2. T \subseteq Nat
    OBVIOUS
  <2>3. PICK k \in T : \A y \in T : k <= y
    BY <2>1, <2>2, LeastNumber
  <2>4. k \in 0 .. n - d /\ f[k] = f[k + d]
    OBVIOUS
  <2>5. CASE k = 0
    <3>1. f[d] = f[0] /\ f[0] = {0}
      BY <2>4, <2>5 DEF Powers
    <3> QED
      BY <3>1, NoReturn
  <2>6. CASE k > 0
    <3>1. PICK l : l = k - 1
      OBVIOUS
    <3>2. l \in 0 .. n - d /\ l + d \in 0 .. n /\ l + d = k + d - 1 /\ ~(k <= l)
          /\ l \in Index /\ l + d \in Index /\ k \in 1 .. n /\ k + d \in 1 .. n
      BY <2>4, <2>6, <3>1 DEF Index
    <3>3. f[k] = Doubled(f[l]) /\ f[k + d] = Doubled(f[l + d])
      BY <3>1, <3>2 DEF Powers
    <3>4. f[l] \in Byte /\ f[l + d] \in Byte
      BY <3>2 DEF Powers
    <3>5. f[l] = f[l + d]
      BY <2>4, <3>3, <3>4, DoubledIsInjective
    <3> QED
      BY <2>3, <3>2, <3>5
  <2> QED
    BY <2>4, <2>5, <2>6
<1>2. CASE i < j
  <2>1. j - i \in 1 .. n /\ i \in 0 .. n - (j - i) /\ i + (j - i) = j
    BY <1>2 DEF Index
  <2> QED
    BY <1>1, <2>1
<1>3. CASE j < i
  <2>1. i - j \in 1 .. n /\ j \in 0 .. n - (i - j) /\ j + (i - j) = i
    BY <1>3 DEF Index
  <2> QED
    BY <1>1, <2>1
<1> QED
  BY <1>2, <1>3

\* Zero doubled is zero, and nothing else is.
LEMMA DoubledZero ==
  ASSUME NEW a \in Byte
  PROVE  Doubled(a) = {} <=> a = {}
<1>1. {} \in Byte
  BY DEF Byte
<1>2. Doubled({}) = {}
  BY <1>1, DoubledBits, SameBits DEF Bit
<1> QED
  BY <1>1, <1>2, DoubledIsInjective

\* No power is zero.
LEMMA PowersNotZero ==
  ASSUME NEW n \in Index, NEW f, Powers(f, n), NEW i \in 0 .. n
  PROVE  f[i] # {}
<1> DEFINE T == {k \in 0 .. n : f[k] = {}}
<1>1. SUFFICES ASSUME T # {}
               PROVE  FALSE
  OBVIOUS
<1>2. T \subseteq Nat
  OBVIOUS
<1>3. PICK k \in T : \A y \in T : k <= y
  BY <1>1, <1>2, LeastNumber
<1>4. f[k] = {} /\ k \in 1 .. n /\ k - 1 \in 0 .. n /\ k - 1 \in Index
  <2>1. k \in 0 .. n /\ f[k] = {}
    OBVIOUS
  <2>2. f[0] = {0}
    BY DEF Powers
  <2>3. k # 0
    BY <2>1, <2>2
  <2> QED
    BY <2>1, <2>3 DEF Index
<1>5. f[k] = Doubled(f[k - 1]) /\ f[k - 1] \in Byte
  BY <1>4 DEF Powers
<1>6. f[k - 1] = {}
  BY <1>4, <1>5, DoubledZero
<1> QED
  BY <1>3, <1>4, <1>6

\* The power after the last is the first.
LEMMA PowersReturn ==
  ASSUME NEW f, Powers(f, 254)
  PROVE  Doubled(f[254]) = {0}
<1>1. f[15] = LargeRoot[15]
  <2>1. SmallPower[15] = {1, 2, 5} /\ LargeRoot[15] = {1, 2, 5}
    BY DEF SmallPower, LargeRoot
  <2>2. f[15] = SmallPower[15]
    <3>1. PICK n \in Index : n = 254
      BY DEF Index
    <3>2. Powers(f, n) /\ 15 <= n
      BY <3>1
    <3> QED
      BY <3>2, BeginsSmall
  <2> QED
    BY <2>1, <2>2
<1> DEFINE T == {k \in 0 .. 14 : f[15 + 16 * k] # LargeRoot[15 - k]}
<1>2. T = {}
  <2>1. SUFFICES ASSUME T # {}
                 PROVE  FALSE
    OBVIOUS
  <2>2. T \subseteq Nat
    OBVIOUS
  <2>3. PICK k \in T : \A y \in T : k <= y
    BY <2>1, <2>2, LeastNumber
  <2>4. k \in 0 .. 14 /\ f[15 + 16 * k] # LargeRoot[15 - k]
    OBVIOUS
  <2>5. k > 0
    BY <1>1, <2>4
  <2>6. PICK l : l = k - 1
    OBVIOUS
  <2>7. l \in 0 .. 14 /\ ~(k <= l) /\ 15 + 16 * l \in 0 .. 254 - 16 /\ 15 - l \in 1 .. 15
        /\ 15 - l # 1 /\ 15 - l - 1 = 15 - k /\ 15 + 16 * l + 16 = 15 + 16 * k
    BY <2>4, <2>5, <2>6
  <2>8. f[15 + 16 * l] = LargeRoot[15 - l]
    BY <2>3, <2>7
  <2>9. f[15 + 16 * l + 16] = By16(f[15 + 16 * l])
    <3>1. 254 \in Index
      BY DEF Index
    <3>2. \A i \in 0 .. 254 - 16 : f[i + 16] = By16(f[i])
      BY <3>1, SixteenSteps
    <3> QED
      BY <2>7, <3>2
  <2>10. By16(LargeRoot[15 - l]) = LargeRoot[15 - l - 1]
    BY <2>7, LargeRoots
  <2> QED
    BY <2>4, <2>7, <2>8, <2>9, <2>10
<1>3. f[239] = LargeRoot[1]
  <2>1. \A k \in 0 .. 14 : f[15 + 16 * k] = LargeRoot[15 - k]
    BY <1>2
  <2>2. f[15 + 16 * 14] = LargeRoot[15 - 14]
    BY <2>1
  <2> QED
    BY <2>2
<1>4. By16(f[239]) = {0}
  BY <1>3, LargeRoots
<1> HIDE DEF T
<1>5. \A i \in 0 .. 253 : f[i + 1] = Doubled(f[i])
  BY DEF Powers
<1>6. f[241] = By2(f[239]) /\ f[243] = By2(f[241]) /\ f[245] = By2(f[243])
      /\ f[247] = By2(f[245]) /\ f[249] = By2(f[247]) /\ f[251] = By2(f[249])
      /\ f[253] = By2(f[251]) /\ Doubled(f[254]) = By2(f[253])
  <2>1. /\ f[239 + 1] = Doubled(f[239]) /\ f[240 + 1] = Doubled(f[240])
        /\ f[241 + 1] = Doubled(f[241]) /\ f[242 + 1] = Doubled(f[242])
        /\ f[243 + 1] = Doubled(f[243]) /\ f[244 + 1] = Doubled(f[244])
        /\ f[245 + 1] = Doubled(f[245]) /\ f[246 + 1] = Doubled(f[246])
    BY <1>5
  <2>2. /\ f[247 + 1] = Doubled(f[247]) /\ f[248 + 1] = Doubled(f[248])
        /\ f[249 + 1] = Doubled(f[249]) /\ f[250 + 1] = Doubled(f[250])
        /\ f[251 + 1] = Doubled(f[251]) /\ f[252 + 1] = Doubled(f[252])
        /\ f[253 + 1] = Doubled(f[253])
    BY <1>5
  <2> QED
    BY <2>1, <2>2 DEF By2
<1>7. Doubled(f[254]) = By8(By8(f[239]))
  BY <1>6 DEF By4, By8
<1> QED
  BY <1>4, <1>7 DEF By16

\* There are n + 1 numbers up to n.
LEMMA UpTo ==
  ASSUME NEW n \in Nat
  PROVE  IsFiniteSet(0 .. n) /\ Cardinality(0 .. n) = n + 1
<1>1. 0 \in Int /\ n \in Int
  OBVIOUS
<1>2. IsFiniteSet(0 .. n) /\ Cardinality(0 .. n) = IF 0 > n THEN 0 ELSE n - 0 + 1
  BY <1>1, FS_Interval
<1> QED
  BY <1>2

\* Every byte but zero is a power of x: there are 255 of either.
LEMMA EveryByte ==
  ASSUME NEW f, Powers(f, 254), NEW a \in Byte, a # {}
  PROVE  \E i \in Index : a = f[i]
<1>0. 254 \in Index
  BY DEF Index
<1>1. IsFiniteSet(Bit) /\ Cardinality(Bit) = 8
  <2>1. 7 \in Nat
    OBVIOUS
  <2>2. IsFiniteSet(0 .. 7) /\ Cardinality(0 .. 7) = 7 + 1
    BY <2>1, UpTo
  <2> QED
    BY <2>2 DEF Bit
<1>2. IsFiniteSet(Byte) /\ Cardinality(Byte) = 256
  <2>1. IsFiniteSet(Byte) /\ Cardinality(Byte) = 2 ^ 8
    BY <1>1, FS_SUBSET DEF Byte
  <2> QED
    BY <2>1
<1>3. PICK S : S = Byte \ {{}}
  OBVIOUS
<1>4. IsFiniteSet(S) /\ Cardinality(S) = 255
  <2>1. {} \in Byte
    BY DEF Byte
  <2>2. IsFiniteSet(S) /\ Cardinality(S) = Cardinality(Byte) - 1
    BY <1>2, <1>3, <2>1, FS_RemoveElement
  <2> QED
    BY <1>2, <2>2
<1>5. Cardinality(Index) = 255
  <2>1. 254 \in Nat
    OBVIOUS
  <2>2. Cardinality(Index) = 254 + 1
    BY <2>1, UpTo DEF Index
  <2> QED
    BY <2>2
<1>6. f \in Injection(Index, S)
  <2>1. PICK n \in Index : n = 254
    BY <1>0
  <2>2. Powers(f, n) /\ \A i \in Index : i \in 0 .. n
    BY <2>1 DEF Index
  <2>3. ASSUME NEW i \in Index
        PROVE  f[i] \in S
    <3>1. f[i] # {}
      BY <2>2, PowersNotZero
    <3>2. f[i] \in Byte
      BY <2>2 DEF Powers
    <3> QED
      BY <1>3, <3>1, <3>2
  <2>4. f \in [Index -> S]
    BY <2>2, <2>3 DEF Powers
  <2>5. \A i, j \in Index : f[i] = f[j] => i = j
    BY <2>2, PowersDistinct
  <2> QED
    BY <2>4, <2>5, Fun_IsInj
<1>7. f \in Surjection(Index, S)
  BY <1>4, <1>5, <1>6, FS_Injection
<1>8. \A y \in S : \E i \in Index : f[i] = y
  BY <1>7 DEF Surjection
<1> QED
  BY <1>3, <1>8

-----------------------------------------------------------------------------
(***************************************************************************)
(* Multiplication, by a table of powers and one of their exponents.        *)
(***************************************************************************)
\* g has the exponents of f, for every byte but zero.
Exponents(f, g) ==
  /\ g \in [Byte -> Index]
  /\ \A i \in Index : g[f[i]] = i
  /\ \A a \in Byte : a # {} => f[g[a]] = a

\* Each entry of f is x times the one before, and the first is x times the last.
Cyclic(f) ==
  /\ \A i \in 0 .. 253 : Doubled(f[i]) = f[i + 1]
  /\ Doubled(f[254]) = f[0]

\* f and g are the powers of x and their exponents.
Field(f, g) ==
  /\ f \in [Index -> Byte] /\ f[0] = {0} /\ \A i \in Index : f[i] # {}
  /\ Exponents(f, g) /\ Cyclic(f)

\* f has the first n powers, and g their exponents.
Filled(f, g, n) ==
  /\ n > 0 => Powers(f, n - 1)
  /\ \A i \in 0 .. n - 1 : g[f[i]] = i

\* A round of init fills in one more.  No power comes twice, so that no exponent is
\* written over.
LEMMA FillOneMore ==
  ASSUME NEW n \in Index, NEW f \in [Index -> Byte], NEW g \in [Byte -> Index],
         Filled(f, g, n), NEW x, x = IF n = 0 THEN {0} ELSE Doubled(f[n - 1])
  PROVE  Filled([f EXCEPT ![n] = x], [g EXCEPT ![x] = n], n + 1)
<1>1. PICK F, G : F = [f EXCEPT ![n] = x] /\ G = [g EXCEPT ![x] = n]
  OBVIOUS
<1>2. n \in Nat /\ n <= 254
  BY DEF Index
<1>3. n > 0 => n - 1 \in Index
  BY DEF Index
<1>4. x \in Byte
  <2>1. CASE n = 0
    BY <2>1 DEF Byte, Bit
  <2>2. CASE n > 0
    <3>1. f[n - 1] \in Byte
      BY <1>3, <2>2
    <3> QED
      BY <2>2, <3>1, DoubledIsByte
  <2> QED
    BY <1>2, <2>1, <2>2
<1>5. /\ F \in [Index -> Byte] /\ F[n] = x
      /\ \A i \in Index : i # n => F[i] = f[i]
  BY <1>1, <1>4
<1>6. \A i \in 0 .. n - 1 : i \in Index /\ i # n
  BY <1>2 DEF Index
<1>7. Powers(F, n)
  <2>1. CASE n = 0
    BY <1>5, <2>1 DEF Powers
  <2>2. CASE n > 0
    <3>1. Powers(f, n - 1)
      BY <2>2 DEF Filled
    <3>2. F[0] = {0}
      <4>1. 0 \in 0 .. n - 1
        BY <1>2, <2>2
      <4> QED
        BY <1>5, <1>6, <3>1, <4>1 DEF Powers
    <3>3. ASSUME NEW i \in 1 .. n
          PROVE  F[i] = Doubled(F[i - 1])
      <4>1. F[i - 1] = f[i - 1]
        <5>1. i - 1 \in 0 .. n - 1
          BY <1>2
        <5> QED
          BY <1>5, <1>6, <5>1
      <4>2. CASE i = n
        BY <1>2, <1>5, <2>2, <4>1, <4>2
      <4>3. CASE i # n
        <5>1. i \in 1 .. n - 1 /\ i \in 0 .. n - 1
          BY <1>2, <4>3
        <5>2. f[i] = Doubled(f[i - 1])
          BY <3>1, <5>1 DEF Powers
        <5> QED
          BY <1>5, <1>6, <4>1, <5>1, <5>2
      <4> QED
        BY <4>2, <4>3
    <3> QED
      BY <1>5, <3>2, <3>3 DEF Powers
  <2> QED
    BY <1>2, <2>1, <2>2
<1>8. ASSUME NEW i \in 0 .. n
      PROVE  G[F[i]] = i
  <2>1. CASE i = n
    BY <1>1, <1>4, <1>5, <2>1
  <2>2. CASE i # n
    <3>1. i \in 0 .. n - 1 /\ i \in Index /\ n \in 0 .. n
      BY <1>2, <1>6, <2>2
    <3>2. F[i] # F[n]
      BY <1>7, <2>2, <3>1, PowersDistinct
    <3>3. F[i] = f[i] /\ f[i] \in Byte
      BY <1>5, <2>2, <3>1
    <3>4. g[f[i]] = i
      BY <3>1 DEF Filled
    <3> QED
      BY <1>1, <1>5, <3>2, <3>3, <3>4
  <2> QED
    BY <2>1, <2>2
<1>9. PICK m : m = n + 1
  OBVIOUS
<1>10. m - 1 = n
  BY <1>2, <1>9
<1>11. Filled(F, G, m)
  BY <1>7, <1>8, <1>10 DEF Filled
<1> QED
  BY <1>1, <1>9, <1>11

\* When init is done the tables are those of a field: all 255 bytes but zero are
\* powers of x, each has its own exponent, and x to the 255 is 1 again.
THEOREM TablesAreField ==
  ASSUME NEW f, NEW g \in [Byte -> Index], Filled(f, g, 255)
  PROVE  Field(f, g)
<1>1. 254 \in Index
  BY DEF Index
<1>2. Powers(f, 254) /\ \A i \in 0 .. 254 : g[f[i]] = i
  <2>1. PICK n \in Int : n = 255
    OBVIOUS
  <2>2. n > 0 /\ n - 1 = 254
    BY <2>1
  <2>3. Filled(f, g, n)
    BY <2>1
  <2>4. Powers(f, n - 1) /\ \A i \in 0 .. n - 1 : g[f[i]] = i
    BY <2>2, <2>3 DEF Filled
  <2> HIDE <2>3
  <2> QED
    BY <2>2, <2>4
<1>3. f[0] = {0} /\ f \in [Index -> Byte]
  BY <1>2 DEF Powers
<1>4. \A i \in Index : f[i] # {}
  <2>1. Powers(f, 254)
    BY <1>2
  <2> HIDE <1>2
  <2> QED
    BY <1>1, <2>1, PowersNotZero DEF Index
<1>5. \A i \in Index : g[f[i]] = i
  BY <1>2 DEF Index
<1>6. ASSUME NEW a \in Byte, a # {}
      PROVE  f[g[a]] = a
  <2>1. PICK i \in Index : a = f[i]
    <3> HIDE <1>5
    <3> QED
      BY <1>2, <1>6, EveryByte
  <2> QED
    BY <1>5, <2>1
<1>7. Exponents(f, g)
  BY <1>5, <1>6 DEF Exponents
<1>8. Cyclic(f)
  <2>1. \A i \in 0 .. 253 : Doubled(f[i]) = f[i + 1]
    <3>1. \A i \in 1 .. 254 : f[i] = Doubled(f[i - 1])
      BY <1>2 DEF Powers
    <3>2. ASSUME NEW i \in 0 .. 253
          PROVE  i + 1 \in 1 .. 254 /\ (i + 1) - 1 = i
      OBVIOUS
    <3> QED
      BY <3>1, <3>2
  <2>2. Doubled(f[254]) = {0}
    BY <1>2, PowersReturn
  <2> QED
    BY <1>3, <2>1, <2>2 DEF Cyclic
<1> QED
  BY <1>3, <1>4, <1>7, <1>8 DEF Field

\* What gfMul computes from them.
Mul(f, g, a, b) == IF a = {} \/ b = {} THEN {} ELSE f[(g[a] + g[b]) % 255]

\* Bytes are closed under multiplication.
LEMMA MulIsByte ==
  ASSUME NEW f, NEW g, Field(f, g), NEW a \in Byte, NEW b \in Byte
  PROVE  Mul(f, g, a, b) \in Byte
<1>1. PICK i \in Int, k \in Int, u \in Int : i = g[a] /\ k = g[b] /\ u = (i + k) % 255
  <2>1. g[a] \in Index /\ g[b] \in Index
    BY DEF Field, Exponents
  <2>2. Index \subseteq Int
    BY DEF Index
  <2>3. PICK i \in Int, k \in Int : i = g[a] /\ k = g[b]
    BY <2>1, <2>2
  <2>4. (i + k) % 255 \in Int
    OBVIOUS
  <2> QED
    BY <2>3, <2>4
<1>3. u \in Index
  BY <1>1 DEF Index
<1>4. {} \in Byte
  BY DEF Byte
<1>5. f[u] \in Byte
  BY <1>3 DEF Field
<1> QED
  BY <1>1, <1>4, <1>5 DEF Mul

\* Zero times anything is zero.
LEMMA MulZero ==
  ASSUME NEW f, NEW g, NEW a
  PROVE  Mul(f, g, a, {}) = {} /\ Mul(f, g, {}, a) = {}
BY DEF Mul

\* A byte that is not zero is a power.
LEMMA IsPower ==
  ASSUME NEW f, NEW g, Field(f, g), NEW a \in Byte, a # {}
  PROVE  \E i \in Index : a = f[i] /\ g[a] = i
<1>1. g[a] \in Index /\ f[g[a]] = a
  BY DEF Field, Exponents
<1> QED
  BY <1>1

\* And the powers are the bytes that are not zero.
LEMMA PowerIs ==
  ASSUME NEW f, NEW g, Field(f, g), NEW i \in Index
  PROVE  f[i] \in Byte /\ f[i] # {} /\ g[f[i]] = i
BY DEF Field, Exponents

\* The same, under the other name.
LEMMA PowerAt ==
  ASSUME NEW f, NEW g, Field(f, g), NEW i \in Index
  PROVE  f[i] \in Byte /\ f[i] # {} /\ g[f[i]] = i
BY PowerIs DEF Index

\* The order of factors does not matter.
LEMMA MulCommutes ==
  ASSUME NEW f, NEW g, Field(f, g), NEW a \in Byte, NEW b \in Byte
  PROVE  Mul(f, g, a, b) = Mul(f, g, b, a)
<1>1. \A c \in Byte : g[c] \in Int
  <2>1. g \in [Byte -> Index]
    BY DEF Field, Exponents
  <2>2. Index \subseteq Int
    BY DEF Index
  <2> QED
    BY <2>1, <2>2
<1>2. g[a] + g[b] = g[b] + g[a]
  BY <1>1
<1> QED
  BY <1>2 DEF Mul

\* Nor that of two multiplications.
LEMMA MulExchanges ==
  ASSUME NEW f, NEW g, Field(f, g), NEW a \in Byte, NEW b \in Byte, NEW c \in Byte
  PROVE  Mul(f, g, Mul(f, g, a, b), c) = Mul(f, g, Mul(f, g, a, c), b)
<1>1. CASE a = {} \/ b = {} \/ c = {}
  BY <1>1, MulZero
<1>2. CASE a # {} /\ b # {} /\ c # {}
  <2>1. PICK i \in Index : a = f[i] /\ g[a] = i
    BY <1>2, IsPower
  <2>2. PICK j \in Index : b = f[j] /\ g[b] = j
    BY <1>2, IsPower
  <2>3. PICK k \in Index : c = f[k] /\ g[c] = k
    BY <1>2, IsPower
  <2>4. PICK u, v : u = (i + j) % 255 /\ v = (i + k) % 255
    OBVIOUS
  <2>5. u \in Index /\ v \in Index /\ (u + k) % 255 = (v + j) % 255
    BY <2>4 DEF Index
  <2>6. Mul(f, g, a, b) = f[u] /\ Mul(f, g, a, c) = f[v]
    BY <1>2, <2>1, <2>2, <2>3, <2>4 DEF Mul
  <2>7. f[u] # {} /\ g[f[u]] = u /\ f[v] # {} /\ g[f[v]] = v
    BY <2>5, PowerIs
  <2>8. Mul(f, g, f[u], c) = f[(u + k) % 255] /\ Mul(f, g, f[v], b) = f[(v + j) % 255]
    BY <1>2, <2>2, <2>3, <2>7 DEF Mul
  <2> QED
    BY <2>5, <2>6, <2>8
<1> QED
  BY <1>1, <1>2

\* One is neutral.
LEMMA MulOne ==
  ASSUME NEW f, NEW g, Field(f, g), NEW a \in Byte
  PROVE  Mul(f, g, a, f[0]) = a
<1>1. CASE a = {}
  BY <1>1, MulZero
<1>2. CASE a # {}
  <2>1. PICK i \in Index : a = f[i] /\ g[a] = i
    BY <1>2, IsPower
  <2>2. PICK z : z = f[0]
    OBVIOUS
  <2>3. 0 \in Index
    BY DEF Index
  <2>4. z # {} /\ g[z] = 0
    BY <2>2, <2>3, PowerIs
  <2>5. (i + 0) % 255 = i
    BY DEF Index
  <2>6. Mul(f, g, a, z) = f[(i + 0) % 255]
    BY <1>2, <2>1, <2>4 DEF Mul
  <2> QED
    BY <2>1, <2>2, <2>5, <2>6
<1> QED
  BY <1>1, <1>2

\* One power further is once more doubled.
LEMMA MulDoubles ==
  ASSUME NEW f, NEW g, Field(f, g), NEW a \in Byte, NEW k \in 0 .. 253
  PROVE  Mul(f, g, a, f[k + 1]) = Doubled(Mul(f, g, a, f[k]))
<1>1. CASE a = {}
  <2>1. Mul(f, g, a, f[k]) = {} /\ Mul(f, g, a, f[k + 1]) = {}
    BY <1>1, MulZero
  <2>2. {} \in Byte
    BY DEF Byte
  <2> QED
    BY <2>1, <2>2, DoubledZero
<1>2. CASE a # {}
  <2>1. PICK i \in Index : a = f[i] /\ g[a] = i
    BY <1>2, IsPower
  <2>2. PICK u, l, w : u = (i + k) % 255 /\ l = k + 1 /\ w = (i + l) % 255
    OBVIOUS
  <2>3. u \in Index /\ l \in Index /\ k \in Index
        /\ w = IF u = 254 THEN 0 ELSE u + 1
    BY <2>2 DEF Index
  <2>4. f[k] # {} /\ g[f[k]] = k /\ f[l] # {} /\ g[f[l]] = l
    BY <2>3, PowerIs
  <2>5. Mul(f, g, a, f[k]) = f[u] /\ Mul(f, g, a, f[l]) = f[w]
    BY <1>2, <2>1, <2>2, <2>4 DEF Mul
  <2>6. Doubled(f[u]) = f[w]
    <3>1. CASE u = 254
      BY <2>3, <3>1 DEF Field, Cyclic
    <3>2. CASE u # 254
      <4>1. u \in 0 .. 253 /\ w = u + 1
        BY <2>3, <3>2 DEF Index
      <4> QED
        BY <4>1 DEF Field, Cyclic
    <3> QED
      BY <3>1, <3>2
  <2> QED
    BY <2>2, <2>5, <2>6
<1> QED
  BY <1>1, <1>2

\* Multiplication distributes over exclusive or: gfMul, a look-up of logarithms, is
\* the multiplication of polynomials that shifts and exclusive or add up.
THEOREM MulDistributes ==
  ASSUME NEW f, NEW g, Field(f, g), NEW a \in Byte, NEW b \in Byte, NEW c \in Byte
  PROVE  Mul(f, g, Xor(a, b), c) = Xor(Mul(f, g, a, c), Mul(f, g, b, c))
<1>1. PICK d \in Byte : d = Xor(a, b)
  BY XorIsByte
<1>2. ASSUME NEW k \in Index
      PROVE  Mul(f, g, d, f[k]) = Xor(Mul(f, g, a, f[k]), Mul(f, g, b, f[k]))
  <2> DEFINE T == {n \in Index :
                     Mul(f, g, d, f[n]) # Xor(Mul(f, g, a, f[n]), Mul(f, g, b, f[n]))}
  <2>1. SUFFICES ASSUME T # {}
                 PROVE  FALSE
    OBVIOUS
  <2>2. T \subseteq Nat
    BY DEF Index
  <2>3. PICK n \in T : \A y \in T : n <= y
    BY <2>1, <2>2, LeastNumber
  <2>4. /\ n \in Index
        /\ Mul(f, g, d, f[n]) # Xor(Mul(f, g, a, f[n]), Mul(f, g, b, f[n]))
    OBVIOUS
  <2>5. n # 0
    BY <1>1, <2>4, MulOne
  <2>6. PICK l : l = n - 1
    OBVIOUS
  <2>7. l \in 0 .. 253 /\ l \in Index /\ n = l + 1 /\ ~(n <= l)
    BY <2>4, <2>5, <2>6 DEF Index
  <2>8. Mul(f, g, d, f[l]) = Xor(Mul(f, g, a, f[l]), Mul(f, g, b, f[l]))
    BY <2>3, <2>7
  <2> HIDE DEF T
  <2>9. PICK p, q : p = Mul(f, g, a, f[l]) /\ q = Mul(f, g, b, f[l])
    OBVIOUS
  <2>10. p \in Byte /\ q \in Byte
    <3>1. f[l] \in Byte
      BY <2>7 DEF Field
    <3> QED
      BY <2>9, <3>1, MulIsByte
  <2>11. Doubled(Xor(p, q)) = Xor(Doubled(p), Doubled(q))
    BY <2>10, DoubledIsLinear
  <2>12. Mul(f, g, a, f[n]) = Doubled(p) /\ Mul(f, g, b, f[n]) = Doubled(q)
         /\ Mul(f, g, d, f[n]) = Doubled(Xor(p, q))
    BY <2>7, <2>8, <2>9, MulDoubles
  <2> QED
    BY <2>4, <2>11, <2>12
<1>3. CASE c = {}
  <2>1. Mul(f, g, d, c) = {} /\ Mul(f, g, a, c) = {} /\ Mul(f, g, b, c) = {}
    BY <1>3, MulZero
  <2> QED
    BY <1>1, <2>1 DEF Xor
<1>4. CASE c # {}
  <2>1. PICK k \in Index : c = f[k]
    BY <1>4, IsPower
  <2> QED
    BY <1>1, <1>2, <2>1
<1> QED
  BY <1>3, <1>4

-----------------------------------------------------------------------------
(***************************************************************************)
(* The value of a polynomial at a power of x.  ValueAt of QR adds up the   *)
(* terms all at once, bit by bit; Horner adds them coefficient by          *)
(* coefficient.                                                            *)
(***************************************************************************)
\* What holds of 0 and of the successor of everything up to n that it holds of,
\* holds up to n.
LEMMA UpToInduction ==
  ASSUME NEW n \in Nat, NEW T, 0 \in T, \A m \in 0 .. n - 1 : m \in T => m + 1 \in T
  PROVE  \A m \in 0 .. n : m \in T
<1> DEFINE Missing == {m \in 0 .. n : m \notin T}
<1>1. SUFFICES ASSUME Missing # {}
               PROVE  FALSE
  OBVIOUS
<1>2. Missing \subseteq Nat
  OBVIOUS
<1>3. PICK m \in Missing : \A y \in Missing : m <= y
  BY <1>1, <1>2, LeastNumber
<1>4. m \in 0 .. n /\ m \notin T /\ m # 0
  OBVIOUS
<1>5. PICK l : l = m - 1
  OBVIOUS
<1>6. l \in 0 .. n - 1 /\ l \in 0 .. n /\ l + 1 = m /\ ~(m <= l)
  BY <1>4, <1>5
<1>7. l \in T
  BY <1>3, <1>6
<1> QED
  BY <1>4, <1>6, <1>7

\* The sum of the powers of x that the terms in Q stand for; e has the exponents.
Sum(f, e, Q) == {t \in Bit : Cardinality({q \in Q : t \in f[e[q]]}) % 2 = 1}

\* Whatever is added, a sum has the bits of a byte.
LEMMA SumIsByte ==
  ASSUME NEW f, NEW e, NEW Q
  PROVE  Sum(f, e, Q) \in Byte
BY DEF Sum, Byte

\* Without terms it is zero.
LEMMA SumEmpty ==
  ASSUME NEW f, NEW e
  PROVE  Sum(f, e, {}) = {}
<1>1. Cardinality({}) = 0
  BY FS_EmptySet
<1>2. ASSUME NEW t
      PROVE  {q \in {} : t \in f[e[q]]} = {}
  OBVIOUS
<1>3. 0 % 2 # 1
  OBVIOUS
<1> QED
  BY <1>1, <1>2, <1>3 DEF Sum

\* One more term.
LEMMA SumAdds ==
  ASSUME NEW f, NEW e, NEW Q, IsFiniteSet(Q), NEW q, q \notin Q, f[e[q]] \in Byte
  PROVE  Sum(f, e, Q \cup {q}) = Xor(Sum(f, e, Q), f[e[q]])
<1>1. PICK a, b, c : a = Sum(f, e, Q) /\ b = Sum(f, e, Q \cup {q}) /\ c = f[e[q]]
  OBVIOUS
<1>2. a \in Byte /\ b \in Byte /\ c \in Byte
  BY <1>1, SumIsByte
<1>3. ASSUME NEW t \in Bit
      PROVE  t \in b <=> t \in Xor(a, c)
  <2>1. PICK A, B : A = {r \in Q : t \in f[e[r]]} /\ B = {r \in Q \cup {q} : t \in f[e[r]]}
    OBVIOUS
  <2>2. IsFiniteSet(A) /\ Cardinality(A) \in Nat /\ q \notin A
    <3>1. A \in SUBSET Q
      BY <2>1
    <3> QED
      BY <2>1, <3>1, FS_Subset, FS_CardinalityType
  <2>3. (t \in a <=> Cardinality(A) % 2 = 1) /\ (t \in b <=> Cardinality(B) % 2 = 1)
    BY <1>1, <2>1 DEF Sum
  <2>4. CASE t \in c
    <3>1. B = A \cup {q}
      BY <1>1, <2>1, <2>4
    <3>2. Cardinality(B) = Cardinality(A) + 1
      BY <2>2, <3>1, FS_AddElement
    <3>3. Cardinality(B) % 2 = 1 <=> ~(Cardinality(A) % 2 = 1)
      BY <2>2, <3>2
    <3> QED
      BY <2>3, <2>4, <3>3 DEF Xor
  <2>5. CASE t \notin c
    <3>1. B = A
      BY <1>1, <2>1, <2>5
    <3> QED
      BY <2>3, <2>5, <3>1 DEF Xor
  <2> QED
    BY <2>4, <2>5
<1>4. b = Xor(a, c)
  BY <1>2, <1>3, XorIsByte, SameBits
<1> QED
  BY <1>1, <1>4

\* The exponents in d are those in e plus j.
Shifts(d, e, j, Q) ==
  \A q \in Q : e[q] \in Index /\ d[q] = (e[q] + j) % 255

\* Exponents that are j greater make a sum times x to the j.
LEMMA SumShifts ==
  ASSUME NEW f, NEW g, Field(f, g), NEW Q, IsFiniteSet(Q), NEW j \in Index,
         NEW d, NEW e, Shifts(d, e, j, Q)
  PROVE  Sum(f, d, Q) = Mul(f, g, Sum(f, e, Q), f[j])
<1> DEFINE Good(R) == Sum(f, d, R) = Mul(f, g, Sum(f, e, R), f[j])
           T == {n \in Nat : \A R \in SUBSET Q : Cardinality(R) = n => Good(R)}
<1>1. 0 \in T
  <2>1. ASSUME NEW R \in SUBSET Q, Cardinality(R) = 0
        PROVE  Good(R)
    <3>1. R = {}
      BY <2>1, FS_Subset, FS_EmptySet
    <3>2. Sum(f, d, R) = {} /\ Sum(f, e, R) = {}
      BY <3>1, SumEmpty
    <3> QED
      BY <3>2, MulZero
  <2> QED
    BY <2>1
<1>2. ASSUME NEW n \in Nat, n \in T
      PROVE  n + 1 \in T
  <2>1. ASSUME NEW R \in SUBSET Q, Cardinality(R) = n + 1
        PROVE  Good(R)
    <3>1. IsFiniteSet(R)
      BY FS_Subset
    <3>2. R # {}
      <4>1. n + 1 # 0
        OBVIOUS
      <4> QED
        BY <2>1, <4>1, FS_EmptySet
    <3>3. PICK q \in R : TRUE
      BY <3>2
    <3>4. PICK S : S = R \ {q}
      OBVIOUS
    <3>5. IsFiniteSet(S) /\ Cardinality(S) = Cardinality(R) - 1
      BY <3>1, <3>3, <3>4, FS_RemoveElement
    <3>6. Cardinality(S) = n /\ S \in SUBSET Q /\ q \notin S /\ R = S \cup {q}
      BY <2>1, <3>3, <3>4, <3>5
    <3>7. Good(S)
      BY <1>2, <3>6
    <3> HIDE DEF Good, T
    <3>8. e[q] \in Index /\ d[q] = (e[q] + j) % 255
      BY <3>3 DEF Shifts
    <3>9. PICK i \in Index, k \in Index :
            i = e[q] /\ k = d[q] /\ k = (i + j) % 255
      <4>1. PICK i \in Index : i = e[q]
        BY <3>8
      <4>2. (i + j) % 255 \in Index
        BY DEF Index
      <4> QED
        BY <3>8, <4>1, <4>2, Zenon
    <3>10. PICK a, b, c, s :
             a = f[i] /\ b = f[j] /\ c = f[k] /\ s = Sum(f, e, S)
      OBVIOUS
    <3>11. /\ a \in Byte /\ a # {} /\ g[a] = i /\ b \in Byte /\ b # {} /\ g[b] = j
           /\ c \in Byte
      <4>1. f[i] \in Byte /\ f[i] # {} /\ g[f[i]] = i
        BY PowerAt
      <4>2. f[j] \in Byte /\ f[j] # {} /\ g[f[j]] = j
        BY PowerAt
      <4>3. f[k] \in Byte
        BY PowerAt
      <4> QED
        BY <3>10, <4>1, <4>2, <4>3
    <3>12. Mul(f, g, a, b) = c
      BY <3>9, <3>10, <3>11 DEF Mul
    <3>13. Sum(f, e, S \cup {q}) = Xor(s, a)
      <4>1. f[e[q]] = a
        BY <3>9, <3>10
      <4> QED
        BY <3>5, <3>6, <3>10, <3>11, <4>1, SumAdds
    <3>14. Sum(f, d, S \cup {q}) = Xor(Sum(f, d, S), c)
      <4>1. f[d[q]] = c
        BY <3>9, <3>10
      <4> QED
        BY <3>5, <3>6, <3>11, <4>1, SumAdds
    <3>15. Sum(f, d, S) = Mul(f, g, s, b)
      BY <3>7, <3>10 DEF Good
    <3>16. s \in Byte
      BY <3>10, SumIsByte
    <3>17. Mul(f, g, Xor(s, a), b) = Xor(Mul(f, g, s, b), Mul(f, g, a, b))
      BY <3>11, <3>16, MulDistributes
    <3>18. Sum(f, d, R) = Mul(f, g, Sum(f, e, R), b)
      BY <3>6, <3>12, <3>13, <3>14, <3>15, <3>17
    <3> QED
      BY <3>10, <3>18 DEF Good
  <2> QED
    BY <2>1
<1>3. PICK n : n = Cardinality(Q)
  OBVIOUS
<1>4. n \in Nat
  BY <1>3, FS_CardinalityType
<1> HIDE DEF Good
<1>5. n \in T
  <2> HIDE DEF T
  <2>1. \A m \in 0 .. n - 1 : m \in T => m + 1 \in T
    BY <1>2, <1>4
  <2>2. \A m \in 0 .. n : m \in T
    BY <1>1, <1>4, <2>1, UpToInduction
  <2> QED
    BY <1>4, <2>2
<1>6. Good(Q)
  BY <1>3, <1>5
<1> QED
  BY <1>6 DEF Good

\* The first powers are single bits.
LEMMA BitPowers ==
  ASSUME NEW f, NEW g, Field(f, g), NEW b \in Bit
  PROVE  f[b] = {b}
<1>1. f[0] = {0}
  BY DEF Field
<1>2. \A i \in 0 .. 253 : Doubled(f[i]) = f[i + 1]
  BY DEF Field, Cyclic
<1>3. Powers(f, 254)
  <2>1. ASSUME NEW i \in 1 .. 254
        PROVE  f[i] = Doubled(f[i - 1])
    <3>1. PICK k : k = i - 1
      OBVIOUS
    <3>2. k \in 0 .. 253 /\ k + 1 = i
      BY <3>1
    <3> QED
      BY <1>2, <3>1, <3>2
  <2> QED
    BY <1>1, <2>1 DEF Field, Powers
<1>4. /\ SmallPower[1] = {1} /\ SmallPower[2] = {2} /\ SmallPower[3] = {3}
      /\ SmallPower[4] = {4} /\ SmallPower[5] = {5} /\ SmallPower[6] = {6}
      /\ SmallPower[7] = {7}
  BY DEF SmallPower
<1>5. 254 \in Index
  BY DEF Index
<1> HIDE <1>2
<1>6. \A r \in 1 .. 15 : f[r] = SmallPower[r]
  BY <1>3, <1>5, BeginsSmall
<1>7. \A r \in 1 .. 7 : SmallPower[r] = {r}
  BY <1>4
<1>8. CASE b = 0
  BY <1>1, <1>8
<1>9. CASE b \in 1 .. 7
  BY <1>6, <1>7, <1>9
<1> QED
  BY <1>8, <1>9 DEF Bit

\* The coefficient at N is C, it is not in Q, and no power of x goes with it.
Bare(Q, e, N, C) == (\A q \in Q : q[1] # N) /\ \A b \in C : e[<<N, b>>] = b

\* The terms of a coefficient that nothing is multiplied with add its bits.
LEMMA SumOfBits ==
  ASSUME NEW f, NEW g, Field(f, g), NEW Q, IsFiniteSet(Q), NEW e, NEW N,
         NEW C \in SUBSET Bit, Bare(Q, e, N, C)
  PROVE  Sum(f, e, Q \cup ({N} \X C)) = Xor(Sum(f, e, Q), C)
<1> DEFINE Column(D) == Q \cup ({N} \X D)
           Good(D) == Sum(f, e, Column(D)) = Xor(Sum(f, e, Q), D)
           T == {n \in Nat : \A D \in SUBSET C : Cardinality(D) = n => Good(D)}
<1>1. IsFiniteSet(C)
  <2>1. 7 \in Nat
    OBVIOUS
  <2>2. IsFiniteSet(Bit)
    BY <2>1, UpTo DEF Bit
  <2> QED
    BY <2>2, FS_Subset
<1>2. 0 \in T
  <2>1. ASSUME NEW D \in SUBSET C, Cardinality(D) = 0
        PROVE  Good(D)
    <3>1. D = {}
      BY <1>1, <2>1, FS_Subset, FS_EmptySet
    <3>2. Column(D) = Q
      BY <3>1
    <3>3. Xor(Sum(f, e, Q), {}) = Sum(f, e, Q)
      BY DEF Xor
    <3> QED
      BY <3>1, <3>2, <3>3
  <2> QED
    BY <2>1
<1>3. ASSUME NEW n \in Nat, n \in T
      PROVE  n + 1 \in T
  <2>1. ASSUME NEW R \in SUBSET C, Cardinality(R) = n + 1
        PROVE  Good(R)
    <3>1. IsFiniteSet(R)
      BY <1>1, FS_Subset
    <3>2. R # {}
      <4>1. n + 1 # 0
        OBVIOUS
      <4> QED
        BY <2>1, <4>1, FS_EmptySet
    <3>3. PICK b \in R : TRUE
      BY <3>2
    <3>4. PICK D : D = R \ {b}
      OBVIOUS
    <3>5. IsFiniteSet(D) /\ Cardinality(D) = Cardinality(R) - 1
      BY <3>1, <3>3, <3>4, FS_RemoveElement
    <3>6. Cardinality(D) = n /\ D \in SUBSET C /\ b \notin D /\ R = D \cup {b}
          /\ b \in Bit /\ D \in Byte
      BY <2>1, <3>3, <3>4, <3>5 DEF Byte
    <3>7. Good(D)
      BY <1>3, <3>6
    <3>8. PICK S : S = Column(D)
      OBVIOUS
    <3>9. PICK r : r = <<N, b>>
      OBVIOUS
    <3>10. Column(R) = S \cup {r} /\ r \notin S
      BY <3>6, <3>8, <3>9 DEF Bare
    <3>11. IsFiniteSet(S)
      <4>1. IsFiniteSet({N})
        BY FS_Singleton
      <4>2. IsFiniteSet({N} \X D)
        BY <3>5, <4>1, FS_Product
      <4> QED
        BY <3>8, <4>2, FS_Union
    <3>12. f[e[r]] = {b} /\ {b} \in Byte
      <4>1. e[r] = b
        BY <3>6, <3>9 DEF Bare
      <4>2. f[b] = {b}
        BY <3>6, BitPowers
      <4> QED
        BY <3>6, <4>1, <4>2 DEF Byte
    <3> HIDE DEF Good, T, Column
    <3>13. Sum(f, e, S \cup {r}) = Xor(Sum(f, e, S), {b})
      <4>1. Sum(f, e, S \cup {r}) = Xor(Sum(f, e, S), f[e[r]])
        BY <3>10, <3>11, <3>12, SumAdds
      <4> QED
        BY <3>12, <4>1
    <3>14. Sum(f, e, S) = Xor(Sum(f, e, Q), D)
      BY <3>7, <3>8 DEF Good
    <3>15. PICK s : s = Sum(f, e, Q)
      OBVIOUS
    <3>16. s \in Byte
      BY <3>15, SumIsByte
    <3>17. Xor(Xor(s, D), {b}) = Xor(s, R)
      BY <3>6 DEF Xor
    <3> QED
      BY <3>10, <3>13, <3>14, <3>15, <3>17 DEF Good
  <2> QED
    BY <2>1
<1>4. PICK n : n = Cardinality(C)
  OBVIOUS
<1>5. n \in Nat
  BY <1>1, <1>4, FS_CardinalityType
<1> HIDE DEF Good
<1>6. n \in T
  <2> HIDE DEF T
  <2>1. \A m \in 0 .. n - 1 : m \in T => m + 1 \in T
    BY <1>3, <1>5
  <2>2. \A m \in 0 .. n : m \in T
    BY <1>2, <1>5, <2>1, UpToInduction
  <2> QED
    BY <1>5, <2>2
<1>7. Good(C)
  BY <1>4, <1>6
<1> QED
  BY <1>7 DEF Good

\* The terms of the first n coefficients of p, and the exponents of their values
\* at the j-th power of x.
Terms(p, n) == {q \in (1 .. n) \X Bit : q[2] \in p[q[1]]}
\* Bit b of coefficient i stands for x to the b + j (n - i).
Exponent(n, j) == [q \in (1 .. n) \X Bit |-> (q[2] + j * (n - q[1])) % 255]

\* The value there of the polynomial that has the first n coefficients of p.
ValueOf(f, p, n, j) == Sum(f, Exponent(n, j), Terms(p, n))

\* Values are bytes.
LEMMA ValueIsByte ==
  ASSUME NEW f, NEW p, NEW n, NEW j
  PROVE  ValueOf(f, p, n, j) \in Byte
BY SumIsByte DEF ValueOf

\* A polynomial has finitely many terms.
LEMMA TermsFinite ==
  ASSUME NEW p, NEW n \in Nat
  PROVE  IsFiniteSet(Terms(p, n))
<1>1. 7 \in Nat
  OBVIOUS
<1>2. IsFiniteSet(Bit)
  BY <1>1, UpTo DEF Bit
<1>3. IsFiniteSet(1 .. n)
  BY FS_Interval
<1>4. IsFiniteSet((1 .. n) \X Bit)
  BY <1>2, <1>3, FS_Product
<1> QED
  BY <1>4, FS_Subset DEF Terms

\* Without coefficients the value is zero.
LEMMA NoCoefficients ==
  ASSUME NEW f, NEW p, NEW j
  PROVE  ValueOf(f, p, 0, j) = {}
<1>1. Terms(p, 0) = {}
  BY DEF Terms
<1> QED
  BY <1>1, SumEmpty DEF ValueOf

\* Horner: one more coefficient multiplies the value so far and is added to it.
LEMMA Horner ==
  ASSUME NEW f, NEW g, Field(f, g), NEW p, NEW n \in Nat, NEW j \in Index,
         p[n + 1] \in Byte
  PROVE  ValueOf(f, p, n + 1, j) = Xor(Mul(f, g, ValueOf(f, p, n, j), f[j]), p[n + 1])
<1>1. PICK Q, c, e, d :
        Q = Terms(p, n) /\ c = p[n + 1] /\ e = Exponent(n, j) /\ d = Exponent(n + 1, j)
  OBVIOUS
<1>2. IsFiniteSet(Q) /\ c \in SUBSET Bit
  BY <1>1, TermsFinite DEF Byte
<1>3. Terms(p, n + 1) = Q \cup ({n + 1} \X c)
  <2>1. 1 .. n + 1 = (1 .. n) \cup {n + 1}
    OBVIOUS
  <2> QED
    BY <1>1, <1>2, <2>1 DEF Terms
<1>4. \A q \in Q : q[1] # n + 1
  BY <1>1 DEF Terms
<1>5. \A b \in c : d[<<n + 1, b>>] = b
  <2>1. ASSUME NEW b \in c
        PROVE  d[<<n + 1, b>>] = b
    <3>1. b \in 0 .. 7
      BY <1>2 DEF Bit
    <3>2. <<n + 1, b>> \in (1 .. n + 1) \X Bit
      BY <3>1 DEF Bit
    <3>3. d[<<n + 1, b>>] = (b + j * (n + 1 - (n + 1))) % 255
      BY <1>1, <3>2 DEF Exponent
    <3>4. (b + j * (n + 1 - (n + 1))) % 255 = b
      BY <3>1 DEF Index
    <3> QED
      BY <3>3, <3>4
  <2> QED
    BY <2>1
<1>6. Shifts(d, e, j, Q)
  <2>1. ASSUME NEW q \in Q
        PROVE  e[q] \in Index /\ d[q] = (e[q] + j) % 255
    <3>1. PICK i \in 1 .. n, b \in Bit : q = <<i, b>>
      BY <1>1 DEF Terms
    <3>2. <<i, b>> \in (1 .. n) \X Bit /\ <<i, b>> \in (1 .. n + 1) \X Bit
      OBVIOUS
    <3>3. e[<<i, b>>] = (b + j * (n - i)) % 255
      BY <1>1, <3>2 DEF Exponent
    <3>4. d[<<i, b>>] = (b + j * (n + 1 - i)) % 255
      BY <1>1, <3>2 DEF Exponent
    <3>5. PICK m \in Nat : m = n - i
      OBVIOUS
    <3>6. PICK k \in Nat : k = j * m
      BY DEF Index
    <3>7. j * (n + 1 - i) = k + j
      <4>1. n + 1 - i = m + 1
        BY <3>5
      <4>2. j * (m + 1) = j * m + j
        BY DEF Index
      <4> QED
        BY <3>6, <4>1, <4>2
    <3>8. b \in 0 .. 7
      BY DEF Bit
    <3>9. PICK u \in Int, w \in Int : u = (b + k) % 255 /\ w = (b + (k + j)) % 255
      BY <3>8 DEF Index
    <3>10. u \in Index /\ w = (u + j) % 255
      BY <3>8, <3>9 DEF Index
    <3>11. e[q] = u /\ d[q] = w
      BY <3>1, <3>3, <3>4, <3>5, <3>6, <3>7, <3>9
    <3> QED
      BY <3>10, <3>11
  <2> QED
    BY <2>1 DEF Shifts
<1>7. Sum(f, d, Q) = Mul(f, g, Sum(f, e, Q), f[j])
  BY <1>2, <1>6, SumShifts
<1>8. Sum(f, d, Q \cup ({n + 1} \X c)) = Xor(Sum(f, d, Q), c)
  <2>1. PICK N : N = n + 1
    OBVIOUS
  <2>2. Bare(Q, d, N, c)
    BY <1>4, <1>5, <2>1 DEF Bare
  <2>3. Sum(f, d, Q \cup ({N} \X c)) = Xor(Sum(f, d, Q), c)
    BY <1>2, <2>2, SumOfBits
  <2> QED
    BY <2>1, <2>3
<1> QED
  BY <1>1, <1>3, <1>7, <1>8 DEF ValueOf

-----------------------------------------------------------------------------
(***************************************************************************)
(* Polynomials: sums, multiples, and x times a polynomial.                 *)
(***************************************************************************)
\* The first n entries of p are bytes; they are zero.
Coefficients(p, n) == \A i \in 1 .. n : p[i] \in Byte
Zeros(p, n) == \A i \in 1 .. n : p[i] = {}

\* r is the sum of p and q; r is c times p; r has p from the k-th entry on.
AddUp(r, p, q, n) == \A i \in 1 .. n : r[i] = Xor(p[i], q[i])
Scales(f, g, r, p, c, n) == \A i \in 1 .. n : r[i] = Mul(f, g, p[i], c)
Follows(r, p, k, n) == \A i \in 1 .. n : r[k + i] = p[i]

\* Only the coefficients matter.
LEMMA ValueAgrees ==
  ASSUME NEW f, NEW p, NEW q, NEW n, NEW j, \A i \in 1 .. n : p[i] = q[i]
  PROVE  ValueOf(f, p, n, j) = ValueOf(f, q, n, j)
<1>1. Terms(p, n) = Terms(q, n)
  BY DEF Terms
<1> QED
  BY <1>1 DEF ValueOf

\* Of equal terms nothing is left.
LEMMA XorSame ==
  ASSUME NEW a
  PROVE  Xor(a, a) = {} /\ Xor(a, {}) = a /\ Xor({}, a) = a
BY DEF Xor

\* The order of terms does not matter.
LEMMA XorMiddle ==
  ASSUME NEW a, NEW b, NEW c, NEW d
  PROVE  Xor(Xor(a, b), Xor(c, d)) = Xor(Xor(a, c), Xor(b, d))
<1>1. \A t : t \in Xor(Xor(a, b), Xor(c, d)) <=> t \in Xor(Xor(a, c), Xor(b, d))
  BY DEF Xor
<1> QED
  BY <1>1

\* The value of a sum of polynomials.
LEMMA ValueOfSum ==
  ASSUME NEW f, NEW g, Field(f, g), NEW j \in Index, NEW n \in Nat,
         NEW p, Coefficients(p, n), NEW q, Coefficients(q, n),
         NEW r, AddUp(r, p, q, n)
  PROVE  ValueOf(f, r, n, j) = Xor(ValueOf(f, p, n, j), ValueOf(f, q, n, j))
<1> DEFINE Good(m) == ValueOf(f, r, m, j) = Xor(ValueOf(f, p, m, j), ValueOf(f, q, m, j))
           T == {m \in 0 .. n : Good(m)}
<1>1. 0 \in T
  <2>1. Good(0)
    BY NoCoefficients, XorSame
  <2> QED
    BY <2>1
<1>2. ASSUME NEW m \in 0 .. n - 1, m \in T
      PROVE  m + 1 \in T
  <2>1. PICK k : k = m + 1
    OBVIOUS
  <2>2. k \in 1 .. n /\ k \in 0 .. n /\ m \in Nat
    BY <2>1
  <2>3. PICK a, u, v, c, d :
          /\ a = f[j] /\ u = ValueOf(f, p, m, j) /\ v = ValueOf(f, q, m, j)
          /\ c = p[k] /\ d = q[k]
    OBVIOUS
  <2>4. ValueOf(f, r, m, j) = Xor(u, v)
    BY <1>2, <2>3
  <2> HIDE DEF Good, T
  <2>5. a \in Byte
    BY <2>3, PowerAt
  <2>6. u \in Byte /\ v \in Byte
    BY <2>3, ValueIsByte
  <2>7. c \in Byte /\ d \in Byte /\ r[k] = Xor(c, d)
    BY <2>2, <2>3 DEF Coefficients, AddUp
  <2>8. r[k] \in Byte
    BY <2>7, XorIsByte
  <2>9. ValueOf(f, p, k, j) = Xor(Mul(f, g, u, a), c)
    <3>1. p[m + 1] \in Byte
      BY <2>1, <2>3, <2>7
    <3>2. ValueOf(f, p, m + 1, j) = Xor(Mul(f, g, ValueOf(f, p, m, j), f[j]), p[m + 1])
      BY <2>2, <3>1, Horner
    <3> QED
      BY <2>1, <2>3, <3>2
  <2>10. ValueOf(f, q, k, j) = Xor(Mul(f, g, v, a), d)
    <3>1. q[m + 1] \in Byte
      BY <2>1, <2>3, <2>7
    <3>2. ValueOf(f, q, m + 1, j) = Xor(Mul(f, g, ValueOf(f, q, m, j), f[j]), q[m + 1])
      BY <2>2, <3>1, Horner
    <3> QED
      BY <2>1, <2>3, <3>2
  <2>11. ValueOf(f, r, k, j) = Xor(Mul(f, g, Xor(u, v), a), Xor(c, d))
    BY <2>1, <2>2, <2>3, <2>4, <2>7, <2>8, Horner
  <2>12. Mul(f, g, Xor(u, v), a) = Xor(Mul(f, g, u, a), Mul(f, g, v, a))
    BY <2>5, <2>6, MulDistributes
  <2>13. Good(k)
    BY <2>9, <2>10, <2>11, <2>12, XorMiddle DEF Good
  <2> QED
    BY <2>1, <2>2, <2>13 DEF T
<1>3. Good(n)
  <2> HIDE DEF Good
  <2>1. \A m \in 0 .. n : m \in T
    <3> HIDE DEF T
    <3> QED
      BY <1>1, <1>2, UpToInduction
  <2> QED
    BY <2>1
<1> QED
  BY <1>3 DEF Good

\* The value of a multiple of a polynomial.
LEMMA ValueOfMultiple ==
  ASSUME NEW f, NEW g, Field(f, g), NEW j \in Index, NEW n \in Nat,
         NEW p, Coefficients(p, n), NEW c \in Byte,
         NEW r, Scales(f, g, r, p, c, n)
  PROVE  ValueOf(f, r, n, j) = Mul(f, g, ValueOf(f, p, n, j), c)
<1> DEFINE Good(m) == ValueOf(f, r, m, j) = Mul(f, g, ValueOf(f, p, m, j), c)
           T == {m \in 0 .. n : Good(m)}
<1>1. 0 \in T
  <2>1. ValueOf(f, r, 0, j) = {} /\ ValueOf(f, p, 0, j) = {}
    BY NoCoefficients
  <2>2. Mul(f, g, {}, c) = {}
    BY MulZero
  <2> QED
    BY <2>1, <2>2
<1>2. ASSUME NEW m \in 0 .. n - 1, m \in T
      PROVE  m + 1 \in T
  <2>1. PICK k : k = m + 1
    OBVIOUS
  <2>2. k \in 1 .. n /\ k \in 0 .. n /\ m \in Nat
    BY <2>1
  <2>3. PICK a, u, d : a = f[j] /\ u = ValueOf(f, p, m, j) /\ d = p[k]
    OBVIOUS
  <2>4. ValueOf(f, r, m, j) = Mul(f, g, u, c)
    BY <1>2, <2>3
  <2> HIDE DEF Good, T
  <2>5. a \in Byte
    BY <2>3, PowerAt
  <2>6. u \in Byte
    BY <2>3, ValueIsByte
  <2>7. d \in Byte /\ r[k] = Mul(f, g, d, c)
    BY <2>2, <2>3 DEF Coefficients, Scales
  <2>8. r[k] \in Byte
    BY <2>7, MulIsByte
  <2>9. ValueOf(f, p, k, j) = Xor(Mul(f, g, u, a), d)
    BY <2>1, <2>2, <2>3, <2>7, Horner
  <2>10. ValueOf(f, r, k, j) = Xor(Mul(f, g, Mul(f, g, u, c), a), Mul(f, g, d, c))
    BY <2>1, <2>2, <2>3, <2>4, <2>7, <2>8, Horner
  <2>11. Mul(f, g, Mul(f, g, u, c), a) = Mul(f, g, Mul(f, g, u, a), c)
    BY <2>5, <2>6, MulExchanges
  <2>12. Mul(f, g, u, a) \in Byte
    BY <2>5, <2>6, MulIsByte
  <2>13. Mul(f, g, Xor(Mul(f, g, u, a), d), c)
           = Xor(Mul(f, g, Mul(f, g, u, a), c), Mul(f, g, d, c))
    BY <2>7, <2>12, MulDistributes
  <2>14. Good(k)
    BY <2>9, <2>10, <2>11, <2>13 DEF Good
  <2> QED
    BY <2>1, <2>2, <2>14 DEF T
<1>3. Good(n)
  <2> HIDE DEF Good
  <2>1. \A m \in 0 .. n : m \in T
    <3> HIDE DEF T
    <3> QED
      BY <1>1, <1>2, UpToInduction
  <2> QED
    BY <2>1
<1> QED
  BY <1>3 DEF Good

\* The value of zero.
LEMMA ValueOfZeros ==
  ASSUME NEW f, NEW j, NEW n, NEW p, Zeros(p, n)
  PROVE  ValueOf(f, p, n, j) = {}
<1>1. Terms(p, n) = {}
  BY DEF Terms, Zeros
<1> QED
  BY <1>1, SumEmpty DEF ValueOf

\* Leading zeros do not count.
LEMMA LeadingZeros ==
  ASSUME NEW f, NEW g, Field(f, g), NEW j \in Index, NEW n \in Nat, NEW k \in Nat,
         NEW p, Coefficients(p, n), NEW r, Zeros(r, k), Follows(r, p, k, n), NEW N, N = k + n
  PROVE  ValueOf(f, r, N, j) = ValueOf(f, p, n, j)
<1> DEFINE Good(m) == ValueOf(f, r, k + m, j) = ValueOf(f, p, m, j)
           T == {m \in 0 .. n : Good(m)}
<1>1. 0 \in T
  <2>1. ValueOf(f, r, k, j) = {} /\ ValueOf(f, p, 0, j) = {}
    BY ValueOfZeros, NoCoefficients
  <2>2. k + 0 = k
    OBVIOUS
  <2> QED
    BY <2>1, <2>2
<1>2. ASSUME NEW m \in 0 .. n - 1, m \in T
      PROVE  m + 1 \in T
  <2>1. PICK l, h : l = m + 1 /\ h = k + m
    OBVIOUS
  <2>2. l \in 1 .. n /\ l \in 0 .. n /\ m \in Nat /\ h \in Nat /\ k + l = h + 1
    BY <2>1
  <2>3. ValueOf(f, r, h, j) = ValueOf(f, p, m, j)
    BY <1>2, <2>1
  <2> HIDE DEF Good, T
  <2>4. p[l] \in Byte /\ r[k + l] = p[l]
    BY <2>2 DEF Coefficients, Follows
  <2>5. p[m + 1] \in Byte /\ r[h + 1] \in Byte /\ r[h + 1] = p[m + 1]
    BY <2>1, <2>2, <2>4
  <2>6. ValueOf(f, p, m + 1, j) = Xor(Mul(f, g, ValueOf(f, p, m, j), f[j]), p[m + 1])
    BY <2>2, <2>5, Horner
  <2>7. ValueOf(f, r, h + 1, j) = Xor(Mul(f, g, ValueOf(f, r, h, j), f[j]), r[h + 1])
    BY <2>2, <2>5, Horner
  <2>8. Good(l)
    BY <2>1, <2>2, <2>3, <2>5, <2>6, <2>7 DEF Good
  <2> QED
    BY <2>1, <2>2, <2>8 DEF T
<1>3. Good(n)
  <2> HIDE DEF Good
  <2>1. \A m \in 0 .. n : m \in T
    <3> HIDE DEF T
    <3> QED
      BY <1>1, <1>2, UpToInduction
  <2> QED
    BY <2>1
<1> QED
  BY <1>3 DEF Good

\* q is p shifted: x times p, where p has no leading coefficient.
TimesX(q, p, n) ==
  /\ p[1] = {} /\ q[n] = {}
  /\ \A i \in 1 .. n - 1 : q[i] = p[i + 1]

\* The value of x times a polynomial.
LEMMA ValueOfShifted ==
  ASSUME NEW f, NEW g, Field(f, g), NEW j \in Index, NEW n \in Nat, n > 0,
         NEW p, Coefficients(p, n), NEW q, TimesX(q, p, n)
  PROVE  ValueOf(f, q, n, j) = Mul(f, g, ValueOf(f, p, n, j), f[j])
<1>1. PICK m \in Nat : n = m + 1 /\ n = 1 + m
  <2>1. n - 1 \in Nat /\ n = n - 1 + 1 /\ n = 1 + (n - 1)
    OBVIOUS
  <2> QED
    BY <2>1
<1>2. Coefficients(q, m)
  BY <1>1 DEF Coefficients, TimesX
<1>3. PICK k \in Nat : k = 1
  OBVIOUS
<1>4. Zeros(p, k)
  BY <1>3 DEF Zeros, TimesX
<1>5. Follows(p, q, k, m)
  BY <1>1, <1>3 DEF Follows, TimesX
<1>6. ValueOf(f, p, n, j) = ValueOf(f, q, m, j)
  BY <1>1, <1>2, <1>3, <1>4, <1>5, LeadingZeros
<1>7. q[m + 1] = {} /\ q[m + 1] \in Byte
  BY <1>1 DEF TimesX, Byte
<1>8. ValueOf(f, q, m + 1, j) = Xor(Mul(f, g, ValueOf(f, q, m, j), f[j]), q[m + 1])
  <2>1. q[m + 1] \in Byte
    BY <1>7
  <2> HIDE <1>7
  <2> QED
    BY <2>1, Horner
<1> QED
  BY <1>1, <1>3, <1>6, <1>7, <1>8, XorSame

\* A polynomial of d coefficients after a leading one.
Led(c, p, d) == [i \in 1 .. d + 1 |-> IF i = 1 THEN c ELSE p[i - 1]]

\* q is what TimesRoot makes of p.
Multiplied(q, f, g, p, s, d) ==
  \A i \in 1 .. d : q[i] = Xor(Mul(f, g, p[i], f[s]), IF i < d THEN p[i + 1] ELSE {})

\* One round of rsGenerator multiplies with x - f[s]: what vanished at the j-th
\* power of x still does, and the s-th power is one more root.
LEMMA RootAdded ==
  ASSUME NEW f, NEW g, Field(f, g), NEW j \in Index, NEW s \in Index,
         NEW d \in Nat, d > 0, NEW p, Coefficients(p, d), NEW q,
         Multiplied(q, f, g, p, s, d),
         \/ j = s
         \/ ValueOf(f, Led({}, p, d), d + 1, j) = {}
  PROVE  ValueOf(f, Led(p[1], q, d), d + 1, j) = {}
<1>1. PICK n \in Nat : n = d + 1
  OBVIOUS
<1>2. PICK P, Q, a, b : /\ P = Led({}, p, d) /\ Q = Led(p[1], q, d)
                        /\ a = f[s] /\ b = f[j]
  OBVIOUS
<1>3. Coefficients(P, n)
  BY <1>1, <1>2 DEF Led, Coefficients, Byte
<1>4. PICK R : R = [i \in 1 .. n |-> Mul(f, g, P[i], a)]
  OBVIOUS
<1>5. PICK S : S = [i \in 1 .. n |-> IF i < n THEN P[i + 1] ELSE {}]
  OBVIOUS
<1>6. a \in Byte /\ b \in Byte
  BY <1>2, PowerAt
<1>7. Scales(f, g, R, P, a, n)
  BY <1>4 DEF Scales
<1>8. TimesX(S, P, n)
  BY <1>1, <1>2, <1>5 DEF TimesX, Led
<1>9. Coefficients(R, n)
  BY <1>3, <1>4, <1>6, MulIsByte DEF Coefficients
<1>10. Coefficients(S, n)
  BY <1>3, <1>5 DEF Coefficients, Byte
<1>11. AddUp(Q, R, S, n)
  <2>1. ASSUME NEW i \in 1 .. n
        PROVE  Q[i] = Xor(R[i], S[i])
    <3>1. CASE i = 1
      <4>1. P[1] = {} /\ P[2] = p[1] /\ Q[1] = p[1] /\ 1 < n
        BY <1>1, <1>2 DEF Led
      <4>2. R[1] = {} /\ S[1] = p[1]
        <5>1. Mul(f, g, {}, a) = {}
          BY MulZero
        <5>2. 1 \in 1 .. n
          BY <4>1
        <5>3. R[1] = Mul(f, g, {}, a)
          BY <1>4, <4>1, <5>2
        <5>4. S[1] = p[1]
          <6>1. S[1] = P[1 + 1]
            BY <1>5, <4>1, <5>2
          <6>2. 1 + 1 = 2
            OBVIOUS
          <6> QED
            BY <4>1, <6>1, <6>2
        <5> QED
          BY <5>1, <5>3, <5>4
      <4> QED
        BY <3>1, <4>1, <4>2, XorSame
    <3>2. CASE i # 1
      <4>1. PICK k : k = i - 1
        OBVIOUS
      <4>2. k \in 1 .. d /\ i = k + 1 /\ (i < n <=> k < d)
        BY <1>1, <3>2, <4>1
      <4>3. Q[i] = q[k] /\ P[i] = p[k]
        BY <1>1, <1>2, <3>2, <4>1 DEF Led
      <4>4. k < d => P[i + 1] = p[k + 1]
        BY <1>1, <1>2, <4>2 DEF Led
      <4>5. R[i] = Mul(f, g, p[k], a) /\ S[i] = IF k < d THEN p[k + 1] ELSE {}
        BY <1>4, <1>5, <4>2, <4>3, <4>4
      <4>6. q[k] = Xor(Mul(f, g, p[k], a), IF k < d THEN p[k + 1] ELSE {})
        BY <1>2, <4>2 DEF Multiplied
      <4> QED
        BY <4>3, <4>5, <4>6
    <3> QED
      BY <3>1, <3>2
  <2> QED
    BY <2>1 DEF AddUp
<1>12. PICK v : v = ValueOf(f, P, n, j)
  OBVIOUS
<1>13. ValueOf(f, R, n, j) = Mul(f, g, v, a)
  BY <1>3, <1>6, <1>7, <1>12, ValueOfMultiple
<1>14. ValueOf(f, S, n, j) = Mul(f, g, v, b)
  <2>1. n > 0
    BY <1>1
  <2> QED
    BY <1>2, <1>3, <1>8, <1>12, <2>1, ValueOfShifted
<1>15. ValueOf(f, Q, n, j) = Xor(Mul(f, g, v, a), Mul(f, g, v, b))
  BY <1>9, <1>10, <1>11, <1>13, <1>14, ValueOfSum
<1>16. CASE j = s
  BY <1>1, <1>2, <1>15, <1>16, XorSame
<1>17. CASE v = {}
  BY <1>1, <1>2, <1>15, <1>17, MulZero, XorSame
<1> QED
  BY <1>1, <1>2, <1>12, <1>16, <1>17

\* D is C with one coefficient more, and c times G added.
Reduced(D, f, g, C, G, c, s, d) ==
  \A i \in 1 .. s + d + 1 :
    D[i] = Xor(IF i <= s + d THEN C[i] ELSE {},
               IF i <= s THEN {} ELSE Mul(f, g, G[i - s], c))

\* One round of reedSolomon: the next coefficient b comes in, and the generator
\* times a factor is added.  The data so far and the remainder, one after the
\* other, still vanish where both did.
LEMMA RemainderStep ==
  ASSUME NEW f, NEW g, Field(f, g), NEW j \in Index, NEW d \in Nat, NEW s \in Nat, 
         NEW G, Coefficients(G, d + 1), ValueOf(f, G, d + 1, j) = {},
         NEW c \in Byte,
         NEW C, Coefficients(C, s + d), ValueOf(f, C, s + d, j) = {},
         NEW D, Reduced(D, f, g, C, G, c, s, d)
  PROVE  ValueOf(f, D, s + d + 1, j) = {}
<1>1. PICK k \in Nat, m \in Nat, n \in Nat :
        k = d + 1 /\ m = s + d /\ n = m + 1 /\ n = s + k /\ n = s + d + 1
  OBVIOUS
<1>2. PICK A : A = [i \in 1 .. n |-> IF i <= m THEN C[i] ELSE {}]
  OBVIOUS
<1>3. PICK B : B = [i \in 1 .. n |-> IF i <= s THEN {} ELSE Mul(f, g, G[i - s], c)]
  OBVIOUS
<1>4. PICK H : H = [i \in 1 .. k |-> Mul(f, g, G[i], c)]
  OBVIOUS
<1>5. Coefficients(A, n)
  BY <1>1, <1>2 DEF Coefficients, Byte
<1>6. Coefficients(H, k)
  BY <1>1, <1>4, MulIsByte DEF Coefficients
<1>7. Coefficients(B, n)
  <2>1. ASSUME NEW i \in 1 .. n
        PROVE  B[i] \in Byte
    <3>1. CASE i <= s
      BY <1>3, <3>1 DEF Byte
    <3>2. CASE ~(i <= s)
      <4>1. G[i - s] \in Byte
        BY <1>1, <3>2 DEF Coefficients
      <4> QED
        BY <1>3, <3>2, <4>1, MulIsByte
    <3> QED
      BY <3>1, <3>2
  <2> QED
    BY <2>1 DEF Coefficients
<1>8. AddUp(D, A, B, n)
  BY <1>1, <1>2, <1>3 DEF AddUp, Reduced
<1>9. ValueOf(f, A, n, j) = {}
  <2>1. \A i \in 1 .. m : A[i] = C[i]
    BY <1>1, <1>2
  <2>2. ValueOf(f, A, m, j) = {}
    BY <1>1, <2>1, ValueAgrees
  <2>3. A[m + 1] = {} /\ A[m + 1] \in Byte
    BY <1>1, <1>2 DEF Byte
  <2>4. ValueOf(f, A, m + 1, j) = Xor(Mul(f, g, ValueOf(f, A, m, j), f[j]), A[m + 1])
    BY <2>3, Horner
  <2> QED
    BY <1>1, <2>2, <2>3, <2>4, MulZero, XorSame
<1>10. ValueOf(f, B, n, j) = {}
  <2>1. Zeros(B, s)
    BY <1>1, <1>3 DEF Zeros
  <2>2. Follows(B, H, s, k)
    BY <1>1, <1>3, <1>4 DEF Follows
  <2>3. ValueOf(f, B, n, j) = ValueOf(f, H, k, j)
    BY <1>1, <1>6, <2>1, <2>2, LeadingZeros
  <2>4. Scales(f, g, H, G, c, k)
    BY <1>4 DEF Scales
  <2>5. ValueOf(f, H, k, j) = Mul(f, g, ValueOf(f, G, k, j), c)
    BY <1>1, <2>4, ValueOfMultiple
  <2> QED
    BY <1>1, <2>3, <2>5, MulZero
<1>11. ValueOf(f, D, n, j) = Xor(ValueOf(f, A, n, j), ValueOf(f, B, n, j))
  BY <1>5, <1>7, <1>8, ValueOfSum
<1> QED
  BY <1>1, <1>9, <1>10, <1>11, XorSame

-----------------------------------------------------------------------------
(***************************************************************************)
(* The loops of rsGenerator and reedSolomon.                               *)
(***************************************************************************)
\* The polynomial of the n coefficients of p vanishes at the first k powers of x.
Roots(f, p, n, k) == \A j \in 0 .. k - 1 : ValueOf(f, p, n, j) = {}

\* The coefficient that p, the generator without its leading 1, is missing: none as
\* long as there is room for the 1 in p.
Leading(s, d) == IF s = d THEN {0} ELSE {}

\* p has, with the power of x it stands for, the product of s factors.
Product(f, p, s, d) ==
  /\ s \in 0 .. d
  /\ s < d => p[d - s] = {0} /\ \A i \in 1 .. d - s - 1 : p[i] = {}
  /\ Roots(f, Led(Leading(s, d), p, d), d + 1, s)

\* The product of no factors.
LEMMA ProductOfNone ==
  ASSUME NEW f, NEW d \in Nat, d > 0
  PROVE  Product(f, One(d), 0, d)
<1>1. PICK p : p = One(d)
  OBVIOUS
<1>2. 0 \in 0 .. d /\ d - 0 = d /\ d - 0 - 1 = d - 1
  OBVIOUS
<1>3. p[d] = {0} /\ \A i \in 1 .. d - 1 : p[i] = {}
  BY <1>1 DEF One
<1>4. Roots(f, Led(Leading(0, d), p, d), d + 1, 0)
  BY DEF Roots
<1> QED
  BY <1>1, <1>2, <1>3, <1>4 DEF Product

\* A round of rsGenerator: one root more.
LEMMA ProductOfOneMore ==
  ASSUME NEW f, NEW g, Field(f, g), NEW d \in 1 .. 254, NEW s \in 0 .. d - 1,
         NEW p, Coefficients(p, d), Product(f, p, s, d),
         NEW q, Multiplied(q, f, g, p, s, d)
  PROVE  Product(f, q, s + 1, d)
<1>1. PICK t \in Nat : t = s + 1
  OBVIOUS
<1>2. /\ d \in Nat /\ d > 0 /\ s \in Nat /\ s < d /\ t \in 0 .. d
      /\ s \in Index /\ d - s \in 1 .. d
  BY <1>1 DEF Index
<1>3. p[d - s] = {0} /\ \A i \in 1 .. d - s - 1 : p[i] = {}
  BY <1>2 DEF Product
<1>4. p[1] = Leading(t, d)
  <2>1. CASE t = d
    <3>1. d - s = 1
      BY <1>1, <1>2, <2>1
    <3> QED
      BY <1>3, <2>1, <3>1 DEF Leading
  <2>2. CASE t # d
    <3>1. 1 \in 1 .. d - s - 1
      BY <1>1, <1>2, <2>2
    <3> QED
      BY <1>3, <2>2, <3>1 DEF Leading
  <2> QED
    BY <2>1, <2>2
<1>5. Roots(f, Led(p[1], q, d), d + 1, t)
  <2>1. Leading(s, d) = {}
    BY <1>2 DEF Leading
  <2>2. ASSUME NEW j \in 0 .. t - 1
        PROVE  ValueOf(f, Led(p[1], q, d), d + 1, j) = {}
    <3>1. j \in Index /\ (j = s \/ j \in 0 .. s - 1)
      BY <1>1, <1>2 DEF Index
    <3>2. j = s \/ ValueOf(f, Led({}, p, d), d + 1, j) = {}
      BY <2>1, <3>1 DEF Product, Roots
    <3> QED
      BY <1>2, <3>1, <3>2, RootAdded
  <2> QED
    BY <2>2 DEF Roots
<1>6. ASSUME t < d
      PROVE  q[d - t] = {0} /\ \A i \in 1 .. d - t - 1 : q[i] = {}
  <2>1. PICK b : b = f[s]
    OBVIOUS
  <2>2. Mul(f, g, {}, b) = {}
    BY MulZero
  <2>3. ASSUME NEW i \in 1 .. d - t
        PROVE  q[i] = p[i + 1]
    <3>1. i \in 1 .. d /\ i < d /\ i \in 1 .. d - s - 1
      BY <1>1, <1>2, <1>6
    <3>2. q[i] = Xor(Mul(f, g, p[i], b), p[i + 1])
      BY <2>1, <3>1 DEF Multiplied
    <3>3. p[i] = {}
      BY <1>3, <3>1
    <3> QED
      BY <2>2, <3>2, <3>3, XorSame
  <2>4. d - t \in 1 .. d - t /\ d - t + 1 = d - s
    BY <1>1, <1>2, <1>6
  <2>5. q[d - t] = {0}
    BY <1>3, <2>3, <2>4
  <2>6. ASSUME NEW i \in 1 .. d - t - 1
        PROVE  q[i] = {}
    <3>1. i \in 1 .. d - t /\ i + 1 \in 1 .. d - s - 1
      BY <1>1, <1>2, <1>6
    <3> QED
      BY <1>3, <2>3, <3>1
  <2> QED
    BY <2>5, <2>6
<1>7. Product(f, q, t, d)
  BY <1>2, <1>4, <1>5, <1>6 DEF Product
<1> QED
  BY <1>1, <1>7

\* The data that is divided so far and the remainder, one after the other.
SoFar(b, r, s, d) == [i \in 1 .. s + d |-> IF i <= s THEN b[i] ELSE r[i - s]]

\* r is what Divided makes of p and the next byte.
Remains(r, f, g, p, c, q, d) ==
  \A i \in 1 .. d : r[i] = Xor(IF i < d THEN p[i + 1] ELSE {}, Mul(f, g, q[i], c))

\* A round of reedSolomon: data and remainder vanish where the generator does.
LEMMA OneMoreDivided ==
  ASSUME NEW f, NEW g, Field(f, g), NEW d \in 1 .. 254, NEW s \in Nat,
         NEW q, Coefficients(q, d), Roots(f, Led({0}, q, d), d + 1, d),
         NEW b, Coefficients(b, s + 1), NEW p, Coefficients(p, d),
         Roots(f, SoFar(b, p, s, d), s + d, d),
         NEW c, c = Xor(b[s + 1], p[1]), NEW r, Remains(r, f, g, p, c, q, d)
  PROVE  Roots(f, SoFar(b, r, s + 1, d), s + 1 + d, d)
<1>1. PICK t \in Nat, n \in Nat, m \in Nat, k \in Nat :
        t = s + 1 /\ n = s + d + 1 /\ m = s + d /\ k = d + 1
  OBVIOUS
<1>2. /\ d \in Nat /\ d > 0 /\ n = t + d /\ t \in 1 .. s + 1 /\ 1 \in 1 .. d /\ n = m + 1
      /\ k \in Nat
  BY <1>1
<1>3. PICK C, D, G : /\ C = SoFar(b, p, s, d) /\ D = SoFar(b, r, t, d)
                     /\ G = Led({0}, q, d)
  OBVIOUS
<1>4. b[t] \in Byte /\ p[1] \in Byte /\ c = Xor(b[t], p[1])
  BY <1>1, <1>2 DEF Coefficients
<1>5. c \in Byte
  BY <1>4, XorIsByte
<1>6. Coefficients(G, d + 1)
  <2>1. {0} \in Byte
    BY DEF Byte, Bit
  <2> QED
    BY <1>2, <1>3, <2>1 DEF Coefficients, Led
<1>7. Coefficients(C, s + d)
  <2>1. ASSUME NEW i \in 1 .. s + d
        PROVE  C[i] \in Byte
    <3>1. CASE i <= s
      <4>1. i \in 1 .. s + 1
        BY <3>1
      <4> QED
        BY <1>3, <3>1, <4>1 DEF SoFar, Coefficients
    <3>2. CASE ~(i <= s)
      <4>1. i - s \in 1 .. d
        BY <1>2, <3>2
      <4> QED
        BY <1>3, <3>2, <4>1 DEF SoFar, Coefficients
    <3> QED
      BY <3>1, <3>2
  <2> QED
    BY <2>1 DEF Coefficients
<1>8. Mul(f, g, {0}, c) = c
  <2>1. f[0] = {0}
    BY DEF Field
  <2>2. {0} \in Byte
    BY DEF Byte, Bit
  <2>3. Mul(f, g, c, {0}) = c
    BY <1>5, <2>1, MulOne
  <2> QED
    BY <1>5, <2>2, <2>3, MulCommutes
<1>9. Reduced(D, f, g, C, G, c, s, d)
  <2>1. ASSUME NEW i \in 1 .. s + d + 1
        PROVE  D[i] = Xor(IF i <= s + d THEN C[i] ELSE {},
                          IF i <= s THEN {} ELSE Mul(f, g, G[i - s], c))
    <3>1. CASE i <= s
      <4>1. i \in 1 .. t + d /\ i \in 1 .. s + d /\ i <= t /\ i <= s + d
        BY <1>1, <1>2, <3>1
      <4>2. D[i] = b[i] /\ C[i] = b[i]
        BY <1>3, <3>1, <4>1 DEF SoFar
      <4> QED
        BY <3>1, <4>1, <4>2, XorSame
    <3>2. CASE i = t
      <4>1. i \in 1 .. t + d /\ i \in 1 .. s + d /\ i <= t /\ i <= s + d /\ ~(i <= s)
            /\ i - s = 1 /\ 1 \in 1 .. d + 1
        BY <1>1, <1>2, <3>2
      <4>2. D[i] = b[t] /\ C[i] = p[1] /\ G[1] = {0}
        <5>1. D[i] = b[i]
          BY <1>3, <4>1 DEF SoFar
        <5>2. C[i] = p[i - s]
          BY <1>3, <4>1 DEF SoFar
        <5>3. G[1] = {0}
          BY <1>3, <4>1 DEF Led
        <5> QED
          BY <3>2, <4>1, <5>1, <5>2, <5>3
      <4>3. Xor(p[1], c) = b[t]
        <5>1. \A y \in Xor(p[1], Xor(b[t], p[1])) : y \in b[t]
          BY DEF Xor
        <5>2. \A y \in b[t] : y \in Xor(p[1], Xor(b[t], p[1]))
          BY DEF Xor
        <5> QED
          BY <1>4, <5>1, <5>2
      <4> QED
        BY <1>8, <4>1, <4>2, <4>3
    <3>3. CASE i > t
      <4>1. PICK j : j = i - t
        OBVIOUS
      <4>2. /\ j \in 1 .. d /\ i \in 1 .. t + d /\ ~(i <= t) /\ ~(i <= s)
            /\ i - s = j + 1 /\ (i <= s + d <=> j < d) /\ j + 1 \in 1 .. d + 1
            /\ j + 1 # 1 /\ j + 1 - 1 = j
            /\ (i <= s + d => i \in 1 .. s + d)
        BY <1>1, <1>2, <3>3, <4>1
      <4>3. D[i] = r[j]
        BY <1>3, <4>1, <4>2 DEF SoFar
      <4>4. i <= s + d => C[i] = p[j + 1]
        <5>1. ASSUME i <= s + d
              PROVE  C[i] = p[i - s]
          BY <1>3, <4>2, <5>1 DEF SoFar
        <5> QED
          BY <4>2, <5>1
      <4>5. G[i - s] = q[j]
        <5>1. G[j + 1] = q[j + 1 - 1]
          BY <1>3, <4>2 DEF Led
        <5> QED
          BY <4>2, <5>1
      <4>6. r[j] = Xor(IF j < d THEN p[j + 1] ELSE {}, Mul(f, g, q[j], c))
        BY <4>2 DEF Remains
      <4> QED
        BY <4>2, <4>3, <4>4, <4>5, <4>6
    <3> QED
      BY <1>1, <3>1, <3>2, <3>3
  <2> QED
    BY <2>1 DEF Reduced
<1>10. ASSUME NEW j \in 0 .. d - 1
       PROVE  ValueOf(f, D, n, j) = {}
  <2>1. j \in Index
    BY DEF Index
  <2>2. ValueOf(f, G, d + 1, j) = {} /\ ValueOf(f, C, s + d, j) = {}
    BY <1>3 DEF Roots
  <2>3. ValueOf(f, D, s + d + 1, j) = {}
    BY <1>2, <1>5, <1>6, <1>7, <1>9, <2>1, <2>2, RemainderStep
  <2> QED
    BY <1>1, <2>3
<1>11. Roots(f, D, n, d)
  BY <1>10 DEF Roots
<1> QED
  BY <1>1, <1>2, <1>3, <1>11
=============================================================================
