--------------------------- MODULE UserStoreProofs --------------------------
(***************************************************************************)
(* Lemmas about the operations on the user list, for the proofs about the  *)
(* modules that use it.                                                    *)
(***************************************************************************)
EXTENDS UserStore, TLAPS, WellFoundedInduction

\* A set of numbers that is not empty has a least one.
LEMMA LeastNumber ==
  ASSUME NEW T, T \subseteq Nat, T # {}
  PROVE  \E x \in T : \A y \in T : x <= y
<1> DEFINE R == OpToRel(<, Nat)
<1>1. IsWellFoundedOn(R, Nat)
  BY NatLessThanWellFounded
<1>2. \A x, y \in Nat : y < x => <<y, x>> \in R
  BY DEF OpToRel
<1> HIDE DEF R
<1>3. PICK x \in T : \A y \in T : ~(<<y, x>> \in R)
  BY <1>1, WFMin
<1>4. \A y \in T : ~(y < x)
  BY <1>2, <1>3
<1>5. x \in Nat /\ \A y \in T : y \in Nat
  OBVIOUS
<1>6. \A y \in T : x <= y
  BY <1>4, <1>5
<1> QED
  BY <1>6

\* The first user of a list that is not empty is in it.
LEMMA FirstIsThere ==
  ASSUME NEW S, S # {}, \A u \in S : u.id \in Nat
  PROVE  First(S) \in S
<1> DEFINE ids == {v.id : v \in S}
<1>1. ids \subseteq Nat /\ ids # {}
  OBVIOUS
<1>2. PICK x \in ids : \A y \in ids : x <= y
  BY <1>1, LeastNumber
<1>3. \E v \in S : \A w \in S : v.id <= w.id
  BY <1>2
<1> QED
  BY <1>3 DEF First

\* What a look-up by reference finds is in the list it looked in.
LEMMA FindUserFinds ==
  ASSUME NEW S, \A u \in S : u.id \in Nat, NEW ref, NEW u \in FindUser(S, ref)
  PROVE  u \in S
<1> DEFINE M == Matching(S, ref)
<1>1. M \subseteq S /\ M # {} /\ u = First(M)
  BY DEF FindUser, Matching
<1> HIDE DEF M
<1>2. First(M) \in M
  BY <1>1, FirstIsThere
<1> QED
  BY <1>1, <1>2
=============================================================================
