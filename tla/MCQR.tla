-------------------------------- MODULE MCQR --------------------------------
(***************************************************************************)
(* An instance of QR for TLC: texts of every version's largest length and  *)
(* the next, of the empty text, and of a text too long.                    *)
(***************************************************************************)
EXTENDS QR

Lengths == {0, 1, 17, 18, 32, 33, 53, 54, 78, 79, 106, 107}

\* Bytes of all kinds, from 0x00 to 0xFF, in no simple order.
SomeByte(i) == CountByte((i * i + 7 * i) % 256)
Mixed(n) == [i \in 1 .. n |-> SomeByte(i)]
Zeros(n) == [i \in 1 .. n |-> {}]
Ones(n)  == [i \in 1 .. n |-> Bit]

SomeTexts ==
  {Mixed(n) : n \in Lengths} \cup {Zeros(n) : n \in {17, 32}}
    \cup {Ones(n) : n \in {17, 53}}
=============================================================================
