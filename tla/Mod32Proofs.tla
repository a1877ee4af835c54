---------------------------- MODULE Mod32Proofs ----------------------------
(***************************************************************************)
(* Lemmas on wrapping values and on minima, for HeapProofs and             *)
(* EvTimersProofs.                                                         *)
(***************************************************************************)
EXTENDS Mod32, WellFoundedInduction, NaturalsInduction, TLAPS

\* A non-empty set of naturals has a least element.
LEMMA LeastNatural ==
  ASSUME NEW S \in SUBSET Nat, S # {}
  PROVE  \E m \in S : \A n \in S : m <= n
<1> DEFINE R == OpToRel(<, Nat)
<1>1. IsWellFoundedOn(R, Nat)
  BY NatLessThanWellFounded
<1>2. PICK m \in S : \A n \in S : ~(<<n, m>> \in R)
  BY <1>1, WFMin
<1>3. \A i, j \in Nat : <<i, j>> \in R <=> i < j
  BY DEF OpToRel
<1> HIDE DEF R
<1>4. \A n \in S : m <= n
  <2> TAKE n \in S
  <2>1. m \in Nat /\ n \in Nat
    OBVIOUS
  <2>2. ~(n < m)
    BY <1>2, <1>3, <2>1
  <2> QED BY <2>1, <2>2
<1> QED BY <1>4

\* Wrapping results are values, and the sign of a difference is the comparison.
LEMMA Wrapping ==
  ASSUME NEW a \in Values, NEW b \in Values
  PROVE  /\ Minus(a, b) \in Values
         /\ Signed(Minus(a, b)) \in -Half..(Half - 1)
         /\ Less(a, b) <=> Signed(Minus(a, b)) < 0
BY HalfAssumption DEF Values, Minus, Signed, Less

\* The sum with less than half the range is that far ahead.
LEMMA PlusIsAhead ==
  ASSUME NEW a \in Values, NEW d \in 0..(Half - 1)
  PROVE  Plus(a, d) \in Values /\ Signed(Minus(Plus(a, d), a)) = d
BY HalfAssumption DEF Values, Minus, Signed, Plus

\* When the clock moves on, what is ahead comes closer by as much.
LEMMA Closer ==
  ASSUME NEW a \in Values, NEW b \in Values, NEW d \in 0..(Half - 1),
         Signed(Minus(a, b)) - d >= -Half
  PROVE  Signed(Minus(a, Plus(b, d))) = Signed(Minus(a, b)) - d
BY HalfAssumption DEF Values, Minus, Signed, Plus

\* Values less than half the range away from a third differ as they are seen
\* from there, if that is less than half the range, too.
LEMMA Apart ==
  ASSUME NEW a \in Values, NEW b \in Values, NEW c \in Values,
         Signed(Minus(a, c)) - Signed(Minus(b, c)) \in -Half..(Half - 1)
  PROVE  Signed(Minus(a, b)) = Signed(Minus(a, c)) - Signed(Minus(b, c))
BY HalfAssumption DEF Values, Minus, Signed

=============================================================================
