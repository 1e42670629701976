--------------------------- MODULE NumberInduction ---------------------------
(* Least numbers, and induction in the form of a statement about sets.      *)
EXTENDS Naturals, WellFoundedInduction, TLAPS

\* A set of natural numbers that is not empty has a least number.
LEMMA LeastExists ==
    ASSUME NEW S \in SUBSET Nat, S # {}
    PROVE  \E x \in S : \A y \in S : x <= y
<1>. DEFINE R == OpToRel(<, Nat)
<1>1. \A x, y \in Nat : y < x => <<y, x>> \in R
  BY DEF OpToRel
<1>2. IsWellFoundedOn(R, Nat)
  BY NatLessThanWellFounded
<1>. HIDE DEF R
<1>3. PICK x \in S : \A y \in S : ~(<<y, x>> \in R)
  BY <1>2, WFMin
<1>4. ASSUME NEW y \in S PROVE x <= y
  <2>1. x \in Nat /\ y \in Nat
    OBVIOUS
  <2>2. ~(<<y, x>> \in R)
    BY <1>3
  <2>3. ~(y < x)
    BY <1>1, <2>1, <2>2, Zenon
  <2>. QED BY <2>1, <2>3
<1>. QED BY <1>4

\* A set that has 0, and each number up to n whose predecessor it has, has all
\* numbers up to n.
LEMMA UpTo ==
    ASSUME NEW n \in Nat, NEW G, 0 \in G, \A i \in 1..n : i - 1 \in G => i \in G
    PROVE  0..n \subseteq G
<1>. SUFFICES ASSUME (0..n) \ G # {} PROVE FALSE
  OBVIOUS
<1>. DEFINE S == (0..n) \ G
<1>1. S \in SUBSET Nat /\ S # {}
  OBVIOUS
<1>. HIDE DEF S
<1>2. PICK x \in S : \A y \in S : x <= y
  BY <1>1, LeastExists
<1>3. x \in 1..n /\ x \notin G
  BY DEF S
<1>4. x - 1 \notin S
  BY <1>2, <1>3
<1>. QED BY <1>3, <1>4 DEF S
=============================================================================
