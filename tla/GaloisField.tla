----------------------------- MODULE GaloisField -----------------------------
(***************************************************************************)
(* GF(256) and the Reed-Solomon remainder of internal/qr/reedsolomon.go.   *)
(* A byte is the set of its one bits: exclusive or is the symmetric        *)
(* difference, a shift adds to every member.                               *)
(***************************************************************************)
EXTENDS Integers, Sequences

Bit  == 0 .. 7
Byte == SUBSET Bit

Xor(a, b) == (a \ b) \cup (b \ a)

Shifted(a) == {k + 1 : k \in a}

\* 0x11D
Primitive == {0, 2, 3, 4, 8}

\* x <<= 1, and x ^= 0x11D on overflow.
Doubled(a) == IF 8 \in Shifted(a) THEN Xor(Shifted(a), Primitive) ELSE Shifted(a)

VARIABLES
  gfExp,  \* the powers of x; entries 255 to 511 of the code's table only save
          \* the reduction of an index
  gfLog   \* their exponents; the entry for zero is never used

TablesInit ==
  /\ gfExp = [i \in 0 .. 254 |-> {}]
  /\ gfLog = [a \in Byte |-> 0]

\* Round i of init.
FillTables(i) ==
  LET x == IF i = 0 THEN {0} ELSE Doubled(gfExp[i - 1])
  IN  /\ gfExp' = [gfExp EXCEPT ![i] = x]
      /\ gfLog' = [gfLog EXCEPT ![x] = i]

GfMul(a, b) ==
  IF a = {} \/ b = {} THEN {} ELSE gfExp[(gfLog[a] + gfLog[b]) % 255]
-----------------------------------------------------------------------------
(***************************************************************************)
(* Polynomials, highest power first; a generator without its leading 1.    *)
(***************************************************************************)

\* Mutant: the coefficient of the next lower power is not carried over.
TimesRootAlone(p, root, d) == [j \in 1 .. d |-> GfMul(p[j], root)]

\* p times (x - root).
TimesRoot(p, root, d) ==
  [j \in 1 .. d |-> Xor(GfMul(p[j], root), IF j < d THEN p[j + 1] ELSE {})]

\* The product of no factors.
One(d) == [j \in 1 .. d |-> IF j = d THEN {0} ELSE {}]

Zero(d) == [j \in 1 .. d |-> {}]

\* One step of the long division: the next data byte b, the remainder so far.
Divided(rem, b, gen) ==
  LET factor == Xor(b, rem[1])
      next(i) == IF i < Len(rem) THEN rem[i + 1] ELSE {}
  IN  [i \in 1 .. Len(rem) |-> Xor(next(i), GfMul(gen[i], factor))]
=============================================================================
