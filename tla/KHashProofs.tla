---------------------------- MODULE KHashProofs ----------------------------
(***************************************************************************)
(* Proofs about KHash: the searches of the table end because the steps of  *)
(* a search come to every bucket, and the table holds what was put into it.*)
(***************************************************************************)
EXTENDS KHash, FiniteSetTheorems, WellFoundedInduction, NaturalsInduction, TLAPS

-----------------------------------------------------------------------------
(* Numbers.                                                                *)

\* A non-empty set of naturals has a least element.
LEMMA LeastNatural ==
  ASSUME NEW S \in SUBSET Nat, S # {}
  PROVE  \E m \in S : \A n \in S : m <= n
<1> DEFINE R == OpToRel(<, Nat)
<1>1. IsWellFoundedOn(R, Nat)
  BY NatLessThanWellFounded
<1>2. PICK m \in S : \A n \in S : ~(<<n, m>> \in R)
  BY <1>1, WFMin
<1>3. \A i, j \in Nat : <<i, j>> \in R <=> i < j
  BY DEF OpToRel
<1> HIDE DEF R
<1>4. \A n \in S : m <= n
  <2> TAKE n \in S
  <2>1. m \in Nat /\ n \in Nat
    OBVIOUS
  <2>2. ~(n < m)
    BY <1>2, <1>3, <2>1
  <2> QED BY <2>1, <2>2
<1> QED BY <1>4

\* Min is the least element.
LEMMA MinIsLeast ==
  ASSUME NEW S \in SUBSET Nat, S # {}
  PROVE  Min(S) \in S /\ \A n \in S : Min(S) <= n
BY LeastNatural DEF Min

\* Max is the greatest element of a bounded set.
LEMMA MaxIsGreatest ==
  ASSUME NEW b \in Nat, NEW S \in SUBSET (0..b), S # {}
  PROVE  Max(S) \in S /\ \A n \in S : n <= Max(S)
<1> DEFINE R == {b - n : n \in S}
<1>1. R \in SUBSET Nat /\ R # {}
  <2>1. ASSUME NEW n \in S PROVE b - n \in Nat /\ b - n \in R
    OBVIOUS
  <2> QED BY <2>1
<1>2. PICK r \in R : \A n \in R : r <= n
  <2> HIDE DEF R
  <2> QED BY <1>1, LeastNatural
<1>3. PICK m \in S : r = b - m
  OBVIOUS
<1>4. \A n \in S : n <= m
  <2> TAKE n \in S
  <2>1. b - n \in R
    OBVIOUS
  <2>2. b - m <= b - n
    BY <1>2, <1>3, <2>1
  <2> QED BY <2>2
<1>5. \E x \in S : \A y \in S : x >= y
  BY <1>4
<1>6. Max(S) \in S /\ \A y \in S : Max(S) >= y
  BY <1>5 DEF Max
<1> QED BY <1>6

\* A table has at least 4 buckets, an even number, and is never filled.
LEMMA SizeFacts ==
  ASSUME NEW m \in Sizes
  PROVE  /\ m \in Nat /\ m >= 4
         /\ UpperBound(m) \in Nat /\ 1 <= UpperBound(m) /\ UpperBound(m) < m
         /\ \E l \in Nat : m = 2 * l
<1>1. m \in Nat /\ m >= 4 /\ \E l \in Nat : m = 2 * l
  <2>1. m \in Nat
    BY KHashAssumption
  <2>2. m = 4 \/ (m > 4 /\ \E l \in Sizes : m = 2 * l)
    BY KHashAssumption
  <2>3. m >= 4
    BY <2>1, <2>2
  <2>4. CASE m = 4
    <3>1. m = 2 * 2 /\ 2 \in Nat
      BY <2>4
    <3> QED BY <2>1, <2>3, <3>1
  <2>5. CASE \E l \in Sizes : m = 2 * l
    <3>1. \E l \in Nat : m = 2 * l
      BY <2>5, KHashAssumption
    <3> QED BY <2>1, <2>3, <3>1
  <2> QED BY <2>2, <2>4, <2>5
<1>2. UpperBound(m) \in Nat /\ 1 <= UpperBound(m) /\ UpperBound(m) < m
  BY <1>1 DEF UpperBound
<1> QED BY <1>1, <1>2

\* A bigger table has room for more.
LEMMA BoundsGrow ==
  ASSUME NEW m \in Nat, NEW l \in Nat, m <= l
  PROVE  /\ UpperBound(m) <= UpperBound(l)
         /\ m + 2 <= l => UpperBound(m) + 1 <= UpperBound(l)
BY DEF UpperBound

\* The size that something is rounded up to, as far as twice the bound.
LEMMA RoundsUp ==
  ASSUME NEW x \in Nat, x <= 2 * MaxBuckets
  PROVE  RoundUp(x) \in Sizes /\ RoundUp(x) >= x
<1> DEFINE S == {m \in Sizes : m >= x}
<1>1. 2 * MaxBuckets \in Sizes /\ Sizes \subseteq Nat /\ MaxBuckets \in Nat
  BY KHashAssumption
<1>2. S # {} /\ S \in SUBSET Nat
  BY <1>1
<1>3. Min(S) \in S
  <2> HIDE DEF S
  <2> QED BY <1>2, MinIsLeast
<1> QED BY <1>3 DEF RoundUp

-----------------------------------------------------------------------------
(* The steps of a search come to every bucket.                             *)

\* An odd factor of a multiple of m leaves the whole of m to the other factor.
OddFactor(m) ==
  \A a, b, q \in Nat :
    a % 2 = 1 /\ a * b = m * q => \E c \in Nat : b = m * c

\* Twice the one factor or the other.
LEMMA Twice ==
  ASSUME NEW m \in Nat, NEW q \in Nat
  PROVE  (2 * m) * q = m * (2 * q)
OBVIOUS

\* So it is for twice m.
LEMMA OddFactorDoubles ==
  ASSUME NEW m \in Nat, m > 0, OddFactor(m)
  PROVE  OddFactor(2 * m)
<1> SUFFICES \A a, b, q \in Nat :
               a % 2 = 1 /\ a * b = (2 * m) * q => \E c \in Nat : b = (2 * m) * c
  BY Zenon DEF OddFactor
<1> TAKE a, b, q \in Nat
<1> HAVE a % 2 = 1 /\ a * b = (2 * m) * q
<1>1. a * b = m * (2 * q) /\ 2 * q \in Nat
  BY Twice
<1>2. PICK c \in Nat : b = m * c
  BY <1>1 DEF OddFactor
<1>3. m * (a * c) = m * (2 * q)
  <2>1. a * b = m * (a * c)
    BY <1>2
  <2> QED BY <1>1, <2>1
<1>4. a * c = 2 * q
  <2> DEFINE x == a * c
             y == 2 * q
  <2>1. x \in Nat /\ y \in Nat /\ m * x = m * y
    BY <1>3
  <2> HIDE DEF x, y
  <2>2. m * (x - y) = 0
    BY <2>1
  <2>3. x = y
    BY <2>1, <2>2
  <2> QED BY <2>3 DEF x, y
<1>5. c % 2 = 0
  <2>1. SUFFICES ASSUME c % 2 = 1 PROVE FALSE
    OBVIOUS
  <2>2. PICK i \in Nat : a = 2 * i + 1
    <3>1. a = 2 * (a \div 2) + 1 /\ a \div 2 \in Nat
      OBVIOUS
    <3> QED BY <3>1
  <2>3. PICK j \in Nat : c = 2 * j + 1
    <3>1. c = 2 * (c \div 2) + 1 /\ c \div 2 \in Nat
      BY <2>1
    <3> QED BY <3>1
  <2>4. a * c = 2 * (2 * (i * j) + i + j) + 1
    BY <2>2, <2>3
  <2>5. i * j \in Nat
    OBVIOUS
  <2> DEFINE p == i * j
  <2>6. 2 * (2 * p + i + j) + 1 = 2 * q /\ p \in Nat
    BY <1>4, <2>4, <2>5
  <2> HIDE DEF p
  <2> QED BY <2>6
<1>6. c = 2 * (c \div 2) /\ c \div 2 \in Nat
  BY <1>5
<1>7. b = (2 * m) * (c \div 2)
  <2> DEFINE d == c \div 2
  <2>1. d \in Nat /\ b = m * (2 * d)
    BY <1>2, <1>6
  <2> HIDE DEF d
  <2>2. b = (2 * m) * d
    BY <2>1
  <2> QED BY <2>2 DEF d
<1> QED BY <1>6, <1>7

\* So it is for every size.
LEMMA OddFactorOfSizes == \A m \in Sizes : OddFactor(2 * m)
<1>1. OddFactor(1)
  <2> SUFFICES ASSUME NEW a \in Nat, NEW b \in Nat, NEW q \in Nat
               PROVE  \E c \in Nat : b = 1 * c
    BY DEF OddFactor
  <2> QED OBVIOUS
<1>2. OddFactor(4)
  <2>1. OddFactor(2 * 1)
    BY <1>1, OddFactorDoubles
  <2>2. OddFactor(2)
    BY <2>1
  <2>3. OddFactor(2 * 2)
    BY <2>2, OddFactorDoubles
  <2>4. 2 * 2 = 4
    OBVIOUS
  <2> QED BY <2>3, <2>4
<1> DEFINE Bad == {m \in Sizes : ~OddFactor(m)}
<1>3. Bad = {}
  <2>1. SUFFICES ASSUME Bad # {} PROVE FALSE
    OBVIOUS
  <2>2. Bad \in SUBSET Nat
    BY KHashAssumption
  <2>3. PICK m \in Bad : \A n \in Bad : m <= n
    <3> HIDE DEF Bad
    <3> QED BY <2>1, <2>2, LeastNatural
  <2>4. m # 4
    BY <1>2
  <2>5. PICK l \in Sizes : m = 2 * l
    BY <2>4, KHashAssumption
  <2>6. l \in Nat /\ l > 0
    BY SizeFacts
  <2>7. OddFactor(l)
    BY <2>3, <2>5, <2>6
  <2> QED BY <2>3, <2>5, <2>6, <2>7, OddFactorDoubles
<1>4. ASSUME NEW m \in Sizes
      PROVE  OddFactor(2 * m)
  <2>1. m \in Nat /\ m > 0
    BY SizeFacts
  <2>2. OddFactor(m)
    BY <1>3
  <2> QED BY <2>1, <2>2, OddFactorDoubles
<1> QED BY <1>4

\* The sum of the steps.
LEMMA Halves ==
  ASSUME NEW s \in Nat
  PROVE  (s * (s + 1)) \div 2 \in Nat /\ 2 * ((s * (s + 1)) \div 2) = s * (s + 1)
<1>1. PICK p \in Nat : s * (s + 1) = 2 * p
  <2>1. CASE s % 2 = 0
    <3>1. PICK a \in Nat : s = 2 * a
      <4>1. s = 2 * (s \div 2) /\ s \div 2 \in Nat
        BY <2>1
      <4> QED BY <4>1
    <3>2. s * (s + 1) = 2 * (a * (2 * a + 1))
      BY <3>1
    <3>3. a * (2 * a + 1) \in Nat
      OBVIOUS
    <3> QED BY <3>2, <3>3
  <2>2. CASE s % 2 = 1
    <3>1. PICK a \in Nat : s = 2 * a + 1
      <4>1. s = 2 * (s \div 2) + 1 /\ s \div 2 \in Nat
        BY <2>2
      <4> QED BY <4>1
    <3>2. s * (s + 1) = 2 * ((2 * a + 1) * (a + 1))
      BY <3>1
    <3>3. (2 * a + 1) * (a + 1) \in Nat
      OBVIOUS
    <3> QED BY <3>2, <3>3
  <2>3. s % 2 = 0 \/ s % 2 = 1
    OBVIOUS
  <2> QED BY <2>1, <2>2, <2>3
<1>2. (2 * p) \div 2 = p
  OBVIOUS
<1> QED BY <1>1, <1>2

\* A search looks at buckets of the table.
LEMMA ProbeIsBucket ==
  ASSUME NEW m \in Sizes, NEW k \in Nat, NEW s \in Nat
  PROVE  Probe(k, s, m) \in 0..(m - 1)
<1> DEFINE n == k + (s * (s + 1)) \div 2
<1>1. n \in Nat /\ m \in Nat /\ m >= 4
  BY Halves, SizeFacts
<1> HIDE DEF n
<1>2. n % m \in 0..(m - 1)
  BY <1>1
<1> QED BY <1>2 DEF n, Probe

\* The first m steps of a search look at different buckets.
LEMMA ProbesDiffer ==
  ASSUME NEW m \in Sizes, NEW k \in Nat,
         NEW s \in 0..(m - 1), NEW t \in 0..(m - 1), s < t
  PROVE  Probe(k, s, m) # Probe(k, t, m)
<1>1. SUFFICES ASSUME Probe(k, s, m) = Probe(k, t, m) PROVE FALSE
  OBVIOUS
<1>0. m \in Nat /\ m >= 4 /\ s \in Nat /\ t \in Nat
  BY SizeFacts
<1> DEFINE S == (s * (s + 1)) \div 2
           T == (t * (t + 1)) \div 2
<1>2. S \in Nat /\ T \in Nat /\ 2 * S = s * (s + 1) /\ 2 * T = t * (t + 1)
  BY <1>0, Halves
<1>3. (k + S) % m = (k + T) % m
  BY <1>1 DEF Probe
<1> HIDE DEF S, T
<1>4. 2 * (T - S) = (t - s) * (t + s + 1)
  <2>1. (t - s) * (t + s + 1) = t * (t + 1) - s * (s + 1)
    BY <1>0
  <2> QED BY <1>2, <2>1
<1>5. PICK q \in Int : T - S = m * q
  <2> DEFINE x == k + S
             y == k + T
  <2>1. x \in Nat /\ y \in Nat /\ x % m = y % m /\ T - S = y - x
    BY <1>2, <1>3
  <2> HIDE DEF x, y
  <2>2. /\ x = m * (x \div m) + (x % m)
        /\ y = m * (y \div m) + (y % m)
    <3>1. m \in Nat /\ m > 0
      BY <1>0
    <3>2. x = m * (x \div m) + (x % m)
      BY <2>1, <3>1
    <3>3. y = m * (y \div m) + (y % m)
      BY <2>1, <3>1
    <3> QED BY <3>2, <3>3
  <2>3. x \div m \in Int /\ y \div m \in Int
    BY <1>0, <2>1
  <2> DEFINE u == x \div m
             v == y \div m
             z == x % m
  <2>a. x = m * u + z /\ y = m * v + z /\ u \in Int /\ v \in Int /\ z \in Int
    BY <1>0, <2>1, <2>2, <2>3
  <2> HIDE DEF u, v, z
  <2>4. y - x = m * v - m * u /\ u \in Int /\ v \in Int
    BY <1>0, <2>a
  <2>5. y - x = m * (v - u)
    BY <1>0, <2>4
  <2>6. v - u \in Int
    BY <2>4
  <2> QED BY <2>1, <2>5, <2>6
<1> DEFINE a == t - s
           b == t + s + 1
<1>6. /\ a \in Nat /\ b \in Nat /\ a > 0 /\ b > 0 /\ a < 2 * m /\ b < 2 * m
      /\ (a % 2 = 1 \/ b % 2 = 1)
  BY <1>0
<1>7. a * b = (2 * m) * q
  <2>1. a * b = 2 * (T - S)
    BY <1>4
  <2>2. 2 * (m * q) = (2 * m) * q
    BY <1>0
  <2> QED BY <1>2, <1>5, <2>1, <2>2
<1> HIDE DEF a, b
<1>8. q \in Nat
  <2>1. a * b > 0
    BY <1>6
  <2>2. SUFFICES ASSUME q < 0 PROVE FALSE
    OBVIOUS
  <2>3. (2 * m) * q < 0
    BY <1>0, <2>2
  <2> QED BY <1>0, <1>6, <1>7, <2>1, <2>3
<1>9. OddFactor(2 * m)
  BY OddFactorOfSizes
<1>10. ASSUME NEW c \in Nat, NEW d \in Nat, d > 0, d < 2 * m, d = (2 * m) * c
       PROVE  FALSE
  <2>1. CASE c = 0
    BY <1>0, <1>10, <2>1
  <2>2. CASE c >= 1
    <3>1. (2 * m) * c >= 2 * m
      BY <1>0, <2>2
    <3> QED BY <1>10, <1>0, <3>1
  <2> QED BY <2>1, <2>2
<1>11. CASE a % 2 = 1
  <2>1. PICK c \in Nat : b = (2 * m) * c
    BY <1>6, <1>7, <1>8, <1>9, <1>11 DEF OddFactor
  <2> QED BY <1>6, <1>10, <2>1
<1>12. CASE b % 2 = 1
  <2>0. b * a = (2 * m) * q
    BY <1>6, <1>7
  <2>1. PICK c \in Nat : a = (2 * m) * c
    BY <1>6, <2>0, <1>8, <1>9, <1>12 DEF OddFactor
  <2> QED BY <1>6, <1>10, <2>1
<1> QED BY <1>6, <1>11, <1>12

\* In a table that is not full a search comes to an empty bucket.
LEMMA SearchEnds ==
  ASSUME NEW m \in Sizes, m <= MaxBuckets, NEW k \in Nat, NEW fl,
         IsFiniteSet(Occupied(fl)), Cardinality(Occupied(fl)) < m
  PROVE  \E s \in 0..(m - 1) : fl[Probe(k, s, m)] = "empty"
<1>0. m \in Nat /\ m >= 4 /\ MaxBuckets \in Nat
  BY SizeFacts, KHashAssumption
<1>1. SUFFICES ASSUME \A s \in 0..(m - 1) : fl[Probe(k, s, m)] # "empty"
               PROVE  FALSE
  OBVIOUS
<1> DEFINE f == [s \in 0..(m - 1) |-> Probe(k, s, m)]
<1>2. f \in [0..(m - 1) -> Occupied(fl)]
  <2>1. ASSUME NEW s \in 0..(m - 1)
        PROVE  Probe(k, s, m) \in Occupied(fl)
    <3>0. s \in Nat
      BY <1>0
    <3>1. Probe(k, s, m) \in 0..(m - 1)
      BY <3>0, ProbeIsBucket
    <3>2. Probe(k, s, m) \in Buckets
      BY <1>0, <3>1 DEF Buckets
    <3> QED BY <1>1, <3>2 DEF Occupied
  <2> QED BY <2>1
<1>3. IsFiniteSet(0..(m - 1)) /\ Cardinality(0..(m - 1)) = m
  <2>1. 0 \in Int /\ m - 1 \in Int
    BY <1>0
  <2>2. /\ IsFiniteSet(0..(m - 1))
        /\ Cardinality(0..(m - 1)) = IF 0 > m - 1 THEN 0 ELSE m - 1 - 0 + 1
    BY <2>1, FS_Interval
  <2> QED BY <1>0, <2>2
<1>4. \E s, t \in 0..(m - 1) : s # t /\ f[s] = f[t]
  <2> HIDE DEF f
  <2> QED BY <1>2, <1>3, FS_PigeonHole
<1>5. PICK s, t \in 0..(m - 1) : s # t /\ Probe(k, s, m) = Probe(k, t, m)
  BY <1>4
<1>6. s < t \/ t < s
  BY <1>0, <1>5
<1> QED BY <1>5, <1>6, ProbesDiffer

-----------------------------------------------------------------------------
(* Counting buckets.                                                       *)

\* Sets of buckets are finite.
LEMMA BucketsCount ==
  ASSUME NEW S \in SUBSET Buckets
  PROVE  IsFiniteSet(S) /\ Cardinality(S) \in Nat
<1>1. MaxBuckets - 1 \in Int /\ 0 \in Int
  BY SizeFacts, KHashAssumption
<1>2. IsFiniteSet(Buckets)
  BY <1>1, FS_Interval DEF Buckets
<1>3. IsFiniteSet(S)
  BY <1>2, FS_Subset
<1> QED BY <1>3, FS_CardinalityType

\* A subset has no more.
LEMMA FewerCount ==
  ASSUME NEW S \in SUBSET Buckets, NEW T \in SUBSET S
  PROVE  Cardinality(T) <= Cardinality(S)
BY BucketsCount, FS_Subset

\* One bucket more.
LEMMA MoreCount ==
  ASSUME NEW S \in SUBSET Buckets, NEW x, x \notin S
  PROVE  Cardinality(S \cup {x}) = Cardinality(S) + 1
BY BucketsCount, FS_AddElement

\* One bucket less.
LEMMA LessCount ==
  ASSUME NEW S \in SUBSET Buckets, NEW x \in S
  PROVE  Cardinality(S \ {x}) = Cardinality(S) - 1
BY BucketsCount, FS_RemoveElement

\* No bucket.
LEMMA NoneCount == Cardinality({}) = 0
BY FS_EmptySet

\* What the type invariant says of the counts.
LEMMA CountFacts ==
  ASSUME TypeOK
  PROVE  /\ Old \in SUBSET Buckets
         /\ Occupied(flags) \in SUBSET Buckets
         /\ Occupied(new_flags) \in SUBSET Buckets
         /\ Old \subseteq Occupied(flags)
         /\ n_buckets \in Nat /\ size \in Nat /\ n_occupied \in Nat
         /\ upper_bound \in Nat
         /\ Cardinality(Occupied(new_flags)) <= size
<1>1. /\ Old \in SUBSET Buckets
      /\ Occupied(flags) \in SUBSET Buckets
      /\ Occupied(new_flags) \in SUBSET Buckets
      /\ Old \subseteq Occupied(flags)
  BY DEF Old, Occupied
<1>2. /\ Cardinality(Old) \in Nat
      /\ Cardinality(Occupied(flags)) \in Nat
      /\ Cardinality(Occupied(new_flags)) \in Nat
  BY <1>1, BucketsCount
<1>3. size \in Nat /\ Cardinality(Occupied(new_flags)) <= size
  BY <1>2 DEF TypeOK
<1>4. n_buckets \in Nat /\ n_occupied \in Nat /\ upper_bound \in Nat
  BY <1>2, KHashAssumption DEF TypeOK
<1> QED BY <1>1, <1>3, <1>4

\* The table that kh_resize makes is not smaller, and has room for one more.
LEMMA NewSize ==
  ASSUME TypeOK, Room
  PROVE  /\ NewBuckets \in Sizes
         /\ size <= upper_bound => size < UpperBound(NewBuckets)
<1>1. /\ n_buckets \in Nat /\ size \in Nat /\ MaxBuckets \in Nat /\ MaxBuckets >= 4
      /\ n_buckets <= MaxBuckets
  BY CountFacts, SizeFacts, KHashAssumption DEF Room
<1>2. CASE n_buckets = 0
  <2>1. NewBuckets = RoundUp(n_buckets + 1)
    BY <1>1, <1>2 DEF NewBuckets
  <2>2. NewBuckets \in Sizes
    BY <1>1, <1>2, <2>1, RoundsUp
  <2>3. 1 <= UpperBound(NewBuckets) /\ UpperBound(NewBuckets) \in Nat
    BY <2>2, SizeFacts
  <2>4. upper_bound = 0
    BY <1>2 DEF Room
  <2> QED BY <1>1, <2>2, <2>3, <2>4
<1>3. CASE n_buckets # 0
  <2>1. n_buckets \in Sizes /\ upper_bound = UpperBound(n_buckets)
    BY <1>3 DEF TypeOK, Room
  <2>2. n_buckets >= 4 /\ (\E l \in Nat : n_buckets = 2 * l) /\ UpperBound(n_buckets) \in Nat
    BY <2>1, SizeFacts
  <2>3. CASE n_buckets > 2 * size
    <3>1. NewBuckets = RoundUp(n_buckets - 1)
      BY <2>3 DEF NewBuckets
    <3>2. n_buckets - 1 \in Nat /\ n_buckets - 1 <= 2 * MaxBuckets
      BY <1>1, <2>2
    <3>3. NewBuckets \in Sizes /\ NewBuckets >= n_buckets - 1
      BY <3>1, <3>2, RoundsUp
    <3>4. NewBuckets \in Nat /\ \E l \in Nat : NewBuckets = 2 * l
      BY <3>3, SizeFacts
    <3>5. n_buckets <= NewBuckets
      BY <2>2, <3>3, <3>4
    <3>6. UpperBound(n_buckets) <= UpperBound(NewBuckets)
      BY <1>1, <3>4, <3>5, BoundsGrow
    <3>7. size < UpperBound(n_buckets)
      BY <1>1, <2>2, <2>3 DEF UpperBound
    <3>8. UpperBound(NewBuckets) \in Nat
      BY <3>3, SizeFacts
    <3> QED BY <1>1, <2>2, <3>3, <3>6, <3>7, <3>8
  <2>4. CASE ~(n_buckets > 2 * size)
    <3>1. NewBuckets = RoundUp(n_buckets + 1)
      BY <2>4 DEF NewBuckets
    <3>2. n_buckets + 1 \in Nat /\ n_buckets + 1 <= 2 * MaxBuckets
      BY <1>1, <2>2
    <3>3. NewBuckets \in Sizes /\ NewBuckets >= n_buckets + 1
      BY <3>1, <3>2, RoundsUp
    <3>4. NewBuckets \in Nat /\ \E l \in Nat : NewBuckets = 2 * l
      BY <3>3, SizeFacts
    <3>5. n_buckets + 2 <= NewBuckets /\ n_buckets <= NewBuckets
      BY <2>2, <3>3, <3>4
    <3>6. UpperBound(n_buckets) + 1 <= UpperBound(NewBuckets)
      BY <1>1, <3>4, <3>5, BoundsGrow
    <3>8. UpperBound(NewBuckets) \in Nat
      BY <3>3, SizeFacts
    <3> QED BY <1>1, <2>1, <2>2, <3>3, <3>6, <3>8
  <2> QED BY <2>3, <2>4
<1> QED BY <1>2, <1>3

\* A search of the table ends, and so does one of the table being made.
LEMMA EmptyBuckets ==
  ASSUME Inv, NEW k \in Keys
  PROVE  /\ n_buckets > 0 =>
              \E s \in 0..(n_buckets - 1) : flags[Probe(k, s, n_buckets)] = "empty"
         /\ phase = "resize" =>
              \E s \in 0..(NewBuckets - 1) :
                new_flags[Probe(k, s, NewBuckets)] = "empty"
<1> USE DEF Inv
<1>0. k \in Nat
  BY KHashAssumption
<1>1. ASSUME n_buckets > 0
      PROVE  \E s \in 0..(n_buckets - 1) : flags[Probe(k, s, n_buckets)] = "empty"
  <2>1. n_buckets \in Sizes /\ n_buckets <= MaxBuckets
    BY <1>1 DEF TypeOK, Room
  <2>2. UpperBound(n_buckets) \in Nat /\ UpperBound(n_buckets) < n_buckets
    BY <2>1, SizeFacts
  <2>3. upper_bound = UpperBound(n_buckets)
    BY <1>1 DEF Room
  <2>4. Cardinality(Occupied(flags)) <= upper_bound
    BY DEF TypeOK
  <2>5. IsFiniteSet(Occupied(flags)) /\ Cardinality(Occupied(flags)) \in Nat
    BY CountFacts, BucketsCount
  <2>6. Cardinality(Occupied(flags)) < n_buckets
    BY <2>1, <2>2, <2>3, <2>4, <2>5, SizeFacts
  <2> QED BY <1>0, <2>1, <2>5, <2>6, SearchEnds
<1>2. ASSUME phase = "resize"
      PROVE  \E s \in 0..(NewBuckets - 1) :
               new_flags[Probe(k, s, NewBuckets)] = "empty"
  <2>1. NewBuckets \in Sizes /\ NewBuckets <= MaxBuckets /\ size < UpperBound(NewBuckets)
    BY <1>2, NewSize DEF Room
  <2>2. UpperBound(NewBuckets) \in Nat /\ UpperBound(NewBuckets) < NewBuckets
        /\ NewBuckets \in Nat
    BY <2>1, SizeFacts
  <2>5. /\ IsFiniteSet(Occupied(new_flags))
        /\ Cardinality(Occupied(new_flags)) \in Nat
        /\ Cardinality(Occupied(new_flags)) <= size /\ size \in Nat
    BY CountFacts, BucketsCount
  <2>6. Cardinality(Occupied(new_flags)) < NewBuckets
    BY <2>1, <2>2, <2>5
  <2> QED BY <1>0, <2>1, <2>5, <2>6, SearchEnds
<1> QED BY <1>1, <1>2

\* When a search gets to a bucket, it still does when more are occupied.
LEMMA StillReaches ==
  ASSUME NEW k, NEW i, NEW m, m \in Nat, NEW fl, NEW gl,
         \A s \in 0..(m - 1) :
           fl[Probe(k, s, m)] # "empty" => gl[Probe(k, s, m)] # "empty",
         Reaches(k, i, m, fl)
  PROVE  Reaches(k, i, m, gl)
<1>1. PICK s \in 0..(m - 1) :
        Probe(k, s, m) = i /\ \A t \in 0..(s - 1) : fl[Probe(k, t, m)] # "empty"
  BY DEF Reaches
<1>2. \A t \in 0..(s - 1) : gl[Probe(k, t, m)] # "empty"
  <2> TAKE t \in 0..(s - 1)
  <2>1. t \in 0..(m - 1)
    OBVIOUS
  <2> QED BY <1>1, <2>1
<1> QED BY <1>1, <1>2 DEF Reaches

\* Where the search for k stops.
LEMMA StopFacts ==
  ASSUME Inv, phase # "resize", NEW k \in Keys, n_buckets > 0
  PROVE  /\ Stops(k) # {}
         /\ Min(Stops(k)) \in 0..(n_buckets - 1)
         /\ LET i == Probe(k, Min(Stops(k)), n_buckets) IN
            /\ i \in 0..(n_buckets - 1) /\ i \in Buckets
            /\ \/ flags[i] = "empty" /\ \A j \in Old : bucket[j].key # k
               \/ flags[i] = "used" /\ bucket[i].key = k
         /\ \A t \in 0..(Min(Stops(k)) - 1) : flags[Probe(k, t, n_buckets)] # "empty"
<1> DEFINE stop == Min(Stops(k))
           i == Probe(k, stop, n_buckets)
<1>0. n_buckets \in Nat /\ n_buckets \in Sizes /\ n_buckets <= MaxBuckets /\ k \in Nat
  BY CountFacts, KHashAssumption DEF TypeOK, Inv, Room
<1>1. Stops(k) # {}
  BY EmptyBuckets DEF Stops
<1>2. Stops(k) \in SUBSET Nat
  BY <1>0 DEF Stops
<1>3. stop \in Stops(k) /\ \A n \in Stops(k) : stop <= n
  BY <1>1, <1>2, MinIsLeast
<1>4. stop \in 0..(n_buckets - 1)
  BY <1>3 DEF Stops
<1>5. i \in 0..(n_buckets - 1)
  BY <1>0, <1>4, ProbeIsBucket
<1>6. i \in Buckets
  BY <1>0, <1>5, KHashAssumption DEF Buckets
<1>7. flags[i] = "empty" \/ (flags[i] = "used" /\ bucket[i].key = k)
  BY <1>3 DEF Stops
<1>8. \A t \in 0..(stop - 1) : flags[Probe(k, t, n_buckets)] # "empty"
  <2> SUFFICES ASSUME NEW t \in 0..(stop - 1), flags[Probe(k, t, n_buckets)] = "empty"
               PROVE  FALSE
    OBVIOUS
  <2>1. t \in Stops(k)
    BY <1>0, <1>4 DEF Stops
  <2> QED BY <1>0, <1>3, <1>4, <2>1
<1>9. ASSUME flags[i] = "empty", NEW j \in Old, bucket[j].key = k
      PROVE  FALSE
  <2>1. Reaches(k, j, n_buckets, flags)
    BY <1>9 DEF Inv, Searchable
  <2>2. PICK s \in 0..(n_buckets - 1) :
          /\ Probe(k, s, n_buckets) = j
          /\ \A t \in 0..(s - 1) : flags[Probe(k, t, n_buckets)] # "empty"
    BY <2>1 DEF Reaches
  <2>3. flags[j] = "used"
    BY DEF Old
  <2>4. s \in Stops(k)
    BY <1>9, <2>2, <2>3 DEF Stops
  <2>5. stop <= s /\ stop # s
    BY <1>3, <1>9, <2>2, <2>3, <2>4
  <2>6. stop \in 0..(s - 1)
    BY <1>0, <1>4, <2>5
  <2> QED BY <1>9, <2>2, <2>6
<1> QED BY <1>1, <1>4, <1>5, <1>6, <1>7, <1>8, <1>9

\* kh_get finds the bucket of a key that has one, and none for other keys.
LEMMA GetsBucket ==
  ASSUME Inv, phase # "resize", NEW k \in Keys
  PROVE  IF \E i \in Old : bucket[i].key = k
           THEN /\ kh_get(k) \in Old /\ kh_get(k) < n_buckets
                /\ bucket[kh_get(k)].key = k
           ELSE kh_get(k) = n_buckets
<1>1. CASE n_buckets = 0
  <2>1. Stops(k) = {}
    BY <1>1 DEF Stops
  <2>2. kh_get(k) = n_buckets
    BY <2>1 DEF kh_get
  <2>3. Old = {}
    BY <1>1 DEF Inv, TypeOK, Occupied, Old
  <2> QED BY <2>2, <2>3
<1>2. CASE n_buckets # 0
  <2>0. n_buckets > 0 /\ n_buckets \in Nat
    BY <1>2, CountFacts DEF Inv
  <2> DEFINE i == Probe(k, Min(Stops(k)), n_buckets)
  <2>1. /\ Stops(k) # {}
        /\ i \in 0..(n_buckets - 1) /\ i \in Buckets
        /\ \/ flags[i] = "empty" /\ \A j \in Old : bucket[j].key # k
           \/ flags[i] = "used" /\ bucket[i].key = k
    BY <2>0, StopFacts
  <2>2. kh_get(k) = IF flags[i] = "used" THEN i ELSE n_buckets
    BY <2>1 DEF kh_get
  <2> HIDE DEF i
  <2>3. CASE flags[i] = "empty" /\ \A j \in Old : bucket[j].key # k
    BY <2>2, <2>3
  <2>4. CASE flags[i] = "used" /\ bucket[i].key = k
    <3>1. i \in Old /\ kh_get(k) = i
      BY <2>1, <2>2, <2>4 DEF Old
    <3> QED BY <2>0, <2>1, <2>4, <3>1
  <2> QED BY <2>1, <2>3, <2>4
<1> QED BY <1>1, <1>2

\* kh_put finds the bucket of a key that has one, and for other keys a bucket
\* that is free and that a search gets to.
LEMMA FindsSite ==
  ASSUME Inv, phase = "insert", NEW k \in Keys
  PROVE  /\ n_buckets > 0 /\ n_buckets \in Nat
         /\ Site(k) \in 0..(n_buckets - 1) /\ Site(k) \in Buckets
         /\ flags[Site(k)] = "used" => bucket[Site(k)].key = k
         /\ flags[Site(k)] # "used" => \A j \in Old : bucket[j].key # k
         /\ Reaches(k, Site(k), n_buckets, flags)
<1> DEFINE stop == Min(Stops(k))
           end  == Probe(k, stop, n_buckets)
           dels == {s \in 0..(stop - 1) : flags[Probe(k, s, n_buckets)] = "del"}
<1>0. n_buckets > 0 /\ n_buckets \in Nat /\ n_buckets \in Sizes
  <2>1. n_occupied < upper_bound
    BY DEF Inv, Room
  <2>2. n_occupied \in Nat /\ n_buckets \in Nat
    BY CountFacts DEF Inv
  <2>3. n_buckets # 0
    BY <2>1, <2>2 DEF Inv, Room
  <2> QED BY <2>2, <2>3 DEF Inv, TypeOK
<1>1. /\ Stops(k) # {}
      /\ stop \in 0..(n_buckets - 1)
      /\ end \in 0..(n_buckets - 1) /\ end \in Buckets
      /\ \/ flags[end] = "empty" /\ \A j \in Old : bucket[j].key # k
         \/ flags[end] = "used" /\ bucket[end].key = k
      /\ \A t \in 0..(stop - 1) : flags[Probe(k, t, n_buckets)] # "empty"
  BY <1>0, StopFacts
<1>2. Site(k) = IF dels # {} /\ flags[end] = "empty"
                  THEN Probe(k, Max(dels), n_buckets)
                  ELSE end
  BY <1>0, <1>1 DEF Site
<1>3. Reaches(k, end, n_buckets, flags)
  BY <1>1 DEF Reaches
<1> HIDE DEF stop, end, dels
<1>4. CASE dels # {} /\ flags[end] = "empty"
  <2>1. dels \in SUBSET (0..(stop - 1)) /\ stop - 1 \in Nat
    BY <1>0, <1>1, <1>4 DEF dels
  <2>2. Max(dels) \in dels
    BY <1>4, <2>1, MaxIsGreatest
  <2> DEFINE s == Max(dels)
             x == Probe(k, s, n_buckets)
  <2>3. s \in 0..(stop - 1) /\ s \in 0..(n_buckets - 1) /\ flags[x] = "del"
    BY <1>0, <1>1, <2>2 DEF dels
  <2>4. x \in 0..(n_buckets - 1)
    BY <1>0, <2>3, ProbeIsBucket, KHashAssumption
  <2>5. x \in Buckets
    BY <1>0, <2>4, KHashAssumption DEF Buckets, Inv, Room
  <2>6. Reaches(k, x, n_buckets, flags)
    <3>1. \A t \in 0..(s - 1) : flags[Probe(k, t, n_buckets)] # "empty"
      <4> TAKE t \in 0..(s - 1)
      <4>1. t \in 0..(stop - 1)
        BY <1>0, <1>1, <2>3
      <4> QED BY <1>1, <4>1
    <3> QED BY <2>3, <3>1 DEF Reaches
  <2>7. Site(k) = x
    BY <1>2, <1>4
  <2> HIDE DEF s, x
  <2> QED BY <1>0, <1>1, <1>4, <2>3, <2>4, <2>5, <2>6, <2>7
<1>5. CASE ~(dels # {} /\ flags[end] = "empty")
  <2>1. Site(k) = end
    BY <1>2, <1>5
  <2> QED BY <1>0, <1>1, <1>3, <2>1
<1> QED BY <1>4, <1>5

-----------------------------------------------------------------------------
(* The invariant is inductive.                                             *)

\* The invariant holds of the empty table.
LEMMA InitInv == Init => Inv
<1> SUFFICES ASSUME Init PROVE Inv
  OBVIOUS
<1>0. MaxBuckets \in Nat
  BY KHashAssumption
<1>1. /\ n_buckets = 0 /\ size = 0 /\ n_occupied = 0 /\ upper_bound = 0
      /\ flags = AllEmpty /\ new_flags = AllEmpty /\ hand = Blank /\ pending = Blank
      /\ bucket = [i \in Buckets |-> Blank] /\ phase = "idle"
  BY DEF Init
<1>2. Old = {} /\ Occupied(flags) = {} /\ Occupied(new_flags) = {}
  BY <1>1 DEF Old, Occupied, AllEmpty
<1>3. TypeOK
  BY <1>1, <1>2, NoneCount DEF TypeOK, AllEmpty
<1>4. Room /\ OnTheirWay
  BY <1>0, <1>1, <1>2 DEF Room, OnTheirWay
<1>5. Distinct /\ Searchable
  BY <1>1, <1>2 DEF Distinct, InUse, Searchable
<1> QED BY <1>3, <1>4, <1>5 DEF Inv

\* kh_put starts: it has kh_resize make room, or there is room already.
LEMMA PutInv ==
  ASSUME Inv, NEW k \in Keys, NEW val \in Values, Put(k, val)
  PROVE  Inv'
<1> USE DEF Inv
<1>1. /\ phase = "idle" /\ pending' = [key |-> k, val |-> val]
      /\ n_buckets' = n_buckets /\ size' = size /\ n_occupied' = n_occupied
      /\ upper_bound' = upper_bound /\ flags' = flags /\ bucket' = bucket
      /\ new_flags' = new_flags /\ hand' = hand
  BY DEF Put, counts
<1>2. \/ phase' = "resize" /\ NewBuckets <= MaxBuckets /\ size < UpperBound(NewBuckets)
      \/ phase' = "insert" /\ ~(n_occupied >= upper_bound /\ size < UpperBound(NewBuckets))
  BY DEF Put
<1>3. Old' = Old /\ NewBuckets' = NewBuckets
  BY <1>1 DEF Old, NewBuckets
<1>4. hand = Blank /\ new_flags = AllEmpty /\ Occupied(new_flags) = {}
  BY <1>1 DEF OnTheirWay, Occupied, AllEmpty
<1>5. phase' = "insert" => n_occupied < upper_bound
  <2>1. Cardinality(Old) <= Cardinality(Occupied(flags))
    BY CountFacts, FewerCount
  <2>2. size = Cardinality(Old) /\ Cardinality(Old) \in Nat
    BY <1>4, NoneCount, CountFacts, BucketsCount DEF TypeOK
  <2>3. size <= upper_bound
    BY <2>1, <2>2, CountFacts DEF TypeOK
  <2>4. n_occupied \in Nat /\ upper_bound \in Nat
    BY CountFacts
  <2> QED BY <1>2, <2>3, <2>4, NewSize
<1>6. TypeOK'
  <2>1. pending' \in Entry
    BY <1>1 DEF Entry
  <2> QED BY <1>1, <1>2, <1>3, <2>1 DEF TypeOK
<1>7. Room'
  BY <1>1, <1>2, <1>3, <1>5 DEF Room
<1>8. OnTheirWay'
  <2>1. pending' # Blank
    BY <1>1, KHashAssumption DEF Blank
  <2> QED BY <1>1, <1>3, <1>4, <2>1 DEF OnTheirWay
<1>9. Distinct'
  BY <1>1, <1>3 DEF Distinct, InUse
<1>10. Searchable'
  BY <1>1, <1>2, <1>3, <1>4 DEF Searchable
<1> QED BY <1>6, <1>7, <1>8, <1>9, <1>10

\* kh_resize takes an entry out of the old table.
LEMMA TakeOutInv ==
  ASSUME Inv, TakeOut
  PROVE  Inv' /\ Entries' = Entries /\ LeftToMove' < LeftToMove
<1> USE DEF Inv
<1> DEFINE j == Min(Old)
<1>1. j \in Old /\ j \in Buckets
  <2>1. Old # {} /\ Old \in SUBSET Nat
    BY DEF TakeOut, Old, Buckets
  <2>2. j \in Old
    BY <2>1, MinIsLeast
  <2> QED BY <2>2 DEF Old
<1>2. /\ phase = "resize" /\ hand = Blank /\ hand' = bucket[j]
      /\ bucket' = [bucket EXCEPT ![j] = Blank]
      /\ flags' = [flags EXCEPT ![j] = "del"]
      /\ n_buckets' = n_buckets /\ size' = size /\ n_occupied' = n_occupied
      /\ upper_bound' = upper_bound /\ new_flags' = new_flags
      /\ pending' = pending /\ phase' = phase
  BY DEF TakeOut, counts
<1> HIDE DEF j
<1>3. /\ flags' \in [Buckets -> {"empty", "del", "used"}]
      /\ flags'[j] = "del" /\ \A i \in Buckets \ {j} : flags'[i] = flags[i]
  BY <1>1, <1>2 DEF TypeOK
<1>4. /\ bucket' \in [Buckets -> Entry \cup {Blank}]
      /\ bucket'[j] = Blank /\ \A i \in Buckets \ {j} : bucket'[i] = bucket[i]
  BY <1>1, <1>2 DEF TypeOK
<1>5. /\ Old' = Old \ {j} /\ Occupied(flags') = Occupied(flags)
      /\ NewBuckets' = NewBuckets /\ InUse' = InUse \ {j}
      /\ j \in InUse /\ j \notin Occupied(new_flags)
  <2>1. Old' = Old \ {j}
    BY <1>3 DEF Old
  <2>2. Occupied(flags') = Occupied(flags)
    BY <1>1, <1>3 DEF Occupied, Old
  <2>3. NewBuckets' = NewBuckets
    BY <1>2 DEF NewBuckets
  <2>4. j \notin Occupied(new_flags) /\ j \in InUse
    BY <1>1 DEF Distinct, InUse
  <2> QED BY <1>2, <2>1, <2>2, <2>3, <2>4 DEF InUse
<1>6. hand' \in Entry /\ hand' # Blank
  <2>1. bucket[j] # Blank /\ bucket[j] \in Entry \cup {Blank}
    BY <1>1, <1>5 DEF Distinct, TypeOK
  <2> QED BY <1>2, <2>1
<1>7. TypeOK'
  <2>1. Cardinality(Old') = Cardinality(Old) - 1 /\ Cardinality(Old) \in Nat
        /\ Cardinality(Occupied(new_flags)) \in Nat
    BY <1>1, <1>5, LessCount, CountFacts, BucketsCount
  <2>2. size' = Cardinality(Old') + Cardinality(Occupied(new_flags')) + 1
    BY <1>2, <2>1 DEF TypeOK
  <2> QED BY <1>2, <1>3, <1>4, <1>5, <1>6, <2>2 DEF TypeOK
<1>8. Room'
  BY <1>2, <1>5 DEF Room
<1>9. OnTheirWay'
  BY <1>2, <1>5 DEF OnTheirWay
<1>10. \A i \in InUse' : i \in InUse /\ i # j /\ i \in Buckets /\ bucket'[i] = bucket[i]
  BY <1>4, <1>5 DEF InUse, Old, Occupied
<1>11. Distinct'
  <2>1. \A i \in InUse' : bucket'[i] # Blank /\ bucket'[i].key # hand'.key
    BY <1>2, <1>5, <1>10 DEF Distinct
  <2>2. \A i, l \in InUse' : bucket'[i].key = bucket'[l].key => i = l
    BY <1>10 DEF Distinct
  <2>3. Old' \cap Occupied(new_flags') = {}
    BY <1>2, <1>5 DEF Distinct
  <2> QED BY <2>1, <2>2, <2>3 DEF Distinct
<1>12. Searchable'
  <2>1. \A i \in Occupied(new_flags) : bucket'[i] = bucket[i]
    BY <1>4, <1>5 DEF Occupied
  <2> QED BY <1>2, <1>5, <2>1 DEF Searchable
<1>13. Entries' = Entries
  <2>1. \A e : e \in Entries <=> \E i \in InUse : e = bucket[i]
    BY <1>2 DEF Entries, InUse
  <2>2. \A e : e \in Entries' <=> e = hand' \/ \E i \in InUse' : e = bucket'[i]
    BY <1>6 DEF Entries, InUse
  <2>3. \A e : e \in Entries' <=> e \in Entries
    BY <1>2, <1>5, <1>10, <2>1, <2>2
  <2> QED BY <2>3
<1>14. LeftToMove' < LeftToMove
  <2>1. Cardinality(Old') = Cardinality(Old) - 1 /\ Cardinality(Old) \in Nat
    BY <1>1, <1>5, LessCount, CountFacts, BucketsCount
  <2> QED BY <1>2, <1>6, <2>1 DEF LeftToMove
<1> QED BY <1>7, <1>8, <1>9, <1>11, <1>12, <1>13, <1>14

\* kh_resize puts the entry in hand into the new table.
LEMMA KickOutInv ==
  ASSUME Inv, KickOut
  PROVE  Inv' /\ Entries' = Entries /\ LeftToMove' < LeftToMove
<1> USE DEF Inv
<1>1. /\ phase = "resize" /\ hand # Blank
      /\ n_buckets' = n_buckets /\ size' = size /\ n_occupied' = n_occupied
      /\ upper_bound' = upper_bound /\ pending' = pending /\ phase' = phase
  BY DEF KickOut, counts
<1>2. PICK i \in Buckets :
        /\ \E s \in 0..(NewBuckets - 1) :
             /\ i = Probe(hand.key, s, NewBuckets)
             /\ new_flags[i] = "empty"
             /\ \A t \in 0..(s - 1) :
                  new_flags[Probe(hand.key, t, NewBuckets)] # "empty"
        /\ new_flags' = [new_flags EXCEPT ![i] = "used"]
        /\ bucket' = [bucket EXCEPT ![i] = hand]
        /\ flags' = IF i \in Old THEN [flags EXCEPT ![i] = "del"] ELSE flags
        /\ Swap(i)
  BY DEF KickOut
<1>3. /\ hand \in Entry /\ hand.key \in Keys /\ hand.key \in Nat
      /\ NewBuckets \in Sizes /\ NewBuckets \in Nat
  BY <1>1, NewSize, SizeFacts, KHashAssumption DEF TypeOK, Entry
<1>4. /\ i \in 0..(NewBuckets - 1) /\ new_flags[i] = "empty"
      /\ Reaches(hand.key, i, NewBuckets, new_flags)
  <2>1. PICK s \in 0..(NewBuckets - 1) :
          /\ i = Probe(hand.key, s, NewBuckets)
          /\ new_flags[i] = "empty"
          /\ \A t \in 0..(s - 1) :
               new_flags[Probe(hand.key, t, NewBuckets)] # "empty"
    BY <1>2
  <2>2. i \in 0..(NewBuckets - 1)
    <3>1. s \in Nat
      BY <1>3
    <3> QED BY <1>3, <2>1, <3>1, ProbeIsBucket
  <2> QED BY <2>1, <2>2 DEF Reaches
<1>5. /\ new_flags' \in [Buckets -> {"empty", "used"}]
      /\ new_flags'[i] = "used"
      /\ \A x \in Buckets \ {i} : new_flags'[x] = new_flags[x]
  BY <1>2 DEF TypeOK
<1>6. /\ bucket' \in [Buckets -> Entry \cup {Blank}]
      /\ bucket'[i] = hand /\ \A x \in Buckets \ {i} : bucket'[x] = bucket[x]
  BY <1>2, <1>3 DEF TypeOK
<1>7. /\ flags' \in [Buckets -> {"empty", "del", "used"}]
      /\ i \in Old => flags'[i] = "del"
      /\ i \notin Old => flags'[i] = flags[i]
      /\ \A x \in Buckets \ {i} : flags'[x] = flags[x]
  BY <1>2 DEF TypeOK
<1>8. /\ Old' = Old \ {i} /\ Occupied(flags') = Occupied(flags)
      /\ Occupied(new_flags') = Occupied(new_flags) \cup {i}
      /\ i \notin Occupied(new_flags)
      /\ NewBuckets' = NewBuckets
  <2>1. Old' = Old \ {i}
    BY <1>7 DEF Old
  <2>2. Occupied(flags') = Occupied(flags)
    BY <1>7 DEF Occupied, Old
  <2>3. Occupied(new_flags') = Occupied(new_flags) \cup {i}
    BY <1>5 DEF Occupied
  <2>4. i \notin Occupied(new_flags)
    BY <1>4 DEF Occupied
  <2>5. NewBuckets' = NewBuckets
    BY <1>1 DEF NewBuckets
  <2> QED BY <2>1, <2>2, <2>3, <2>4, <2>5
<1>9. /\ i \in Old => hand' = bucket[i] /\ hand' \in Entry /\ hand' # Blank
      /\ i \notin Old => hand' = Blank
  <2>1. ASSUME i \in Old PROVE bucket[i] \in Entry /\ bucket[i] # Blank
    BY <2>1 DEF Distinct, InUse, TypeOK
  <2> QED BY <1>2, <2>1 DEF Swap
<1>10. TypeOK'
  <2>1. /\ Cardinality(Old) \in Nat /\ Cardinality(Occupied(new_flags)) \in Nat
        /\ Cardinality(Occupied(new_flags')) = Cardinality(Occupied(new_flags)) + 1
    BY <1>8, CountFacts, BucketsCount, MoreCount
  <2>2. size = Cardinality(Old) + Cardinality(Occupied(new_flags)) + 1
    BY <1>1 DEF TypeOK
  <2>3. size' = Cardinality(Old') + Cardinality(Occupied(new_flags'))
                + (IF hand' = Blank THEN 0 ELSE 1)
    <3>1. CASE i \in Old
      <4>1. Cardinality(Old') = Cardinality(Old) - 1
        BY <1>8, <3>1, CountFacts, LessCount
      <4> QED BY <1>1, <1>9, <2>1, <2>2, <3>1, <4>1
    <3>2. CASE i \notin Old
      <4>1. Old' = Old
        BY <1>8, <3>2
      <4> QED BY <1>1, <1>9, <2>1, <2>2, <3>2, <4>1
    <3> QED BY <3>1, <3>2
  <2>4. hand' \in Entry \cup {Blank}
    BY <1>9
  <2> QED BY <1>1, <1>5, <1>6, <1>7, <1>8, <2>3, <2>4 DEF TypeOK
<1>11. Room'
  BY <1>1, <1>8 DEF Room
<1>12. OnTheirWay'
  BY <1>1, <1>4, <1>8 DEF OnTheirWay
<1>13. InUse' = InUse \cup {i}
  BY <1>8 DEF InUse
<1>14. \A x \in InUse' \ {i} : x \in InUse /\ bucket'[x] = bucket[x]
  <2>1. InUse \in SUBSET Buckets
    BY CountFacts DEF InUse
  <2> QED BY <1>6, <1>13, <2>1
<1>15. Distinct'
  <2>1. Old' \cap Occupied(new_flags') = {}
    BY <1>8 DEF Distinct
  <2>2. \A x \in InUse' \ {i} : bucket'[x] # Blank /\ bucket'[x].key # hand.key
    BY <1>14 DEF Distinct
  <2>3. \A x \in InUse' \ {i} : bucket'[x].key # hand'.key
    <3>1. CASE i \in Old
      <4>1. i \in InUse
        BY <3>1 DEF InUse
      <4> QED BY <1>9, <1>14, <3>1, <4>1 DEF Distinct
    <3>2. CASE i \notin Old
      <4> TAKE x \in InUse' \ {i}
      <4>1. bucket'[x] \in Entry
        <5>1. x \in Buckets
          BY <1>14, CountFacts DEF InUse
        <5> QED BY <1>6, <2>2, <5>1
      <4> QED BY <1>9, <3>2, <4>1, KHashAssumption DEF Entry, Blank
    <3> QED BY <3>1, <3>2
  <2>4. hand.key # hand'.key
    <3>1. CASE i \in Old
      BY <1>9, <3>1 DEF Distinct, InUse
    <3>2. CASE i \notin Old
      BY <1>3, <1>9, <3>2, KHashAssumption DEF Blank
    <3> QED BY <3>1, <3>2
  <2>5. \A x \in InUse' : bucket'[x] # Blank /\ bucket'[x].key # hand'.key
    BY <1>1, <1>6, <2>2, <2>3, <2>4
  <2>6. \A x, y \in InUse' : bucket'[x].key = bucket'[y].key => x = y
    <3> TAKE x, y \in InUse'
    <3> HAVE bucket'[x].key = bucket'[y].key
    <3>1. CASE x = i
      BY <1>6, <2>2, <3>1
    <3>2. CASE y = i
      BY <1>6, <2>2, <3>2
    <3>3. CASE x # i /\ y # i
      BY <1>14, <3>3 DEF Distinct
    <3> QED BY <3>1, <3>2, <3>3
  <2> QED BY <2>1, <2>5, <2>6 DEF Distinct
<1>16. Searchable'
  <2>1. \A s \in 0..(NewBuckets - 1), k \in Keys :
          new_flags[Probe(k, s, NewBuckets)] # "empty"
          => new_flags'[Probe(k, s, NewBuckets)] # "empty"
    <3> TAKE s \in 0..(NewBuckets - 1), k \in Keys
    <3>1. Probe(k, s, NewBuckets) \in Buckets
      <4>0. s \in Nat /\ k \in Nat
        BY <1>3, KHashAssumption
      <4>1. Probe(k, s, NewBuckets) \in 0..(NewBuckets - 1)
        BY <1>3, <4>0, ProbeIsBucket
      <4>2. NewBuckets <= MaxBuckets /\ MaxBuckets \in Nat
        BY <1>1, KHashAssumption DEF Room
      <4> QED BY <1>3, <4>1, <4>2 DEF Buckets
    <3> QED BY <1>5, <3>1
  <2>2. \A x \in Occupied(new_flags') :
          Reaches(bucket'[x].key, x, NewBuckets, new_flags)
    <3> TAKE x \in Occupied(new_flags')
    <3>1. CASE x = i
      BY <1>4, <1>6, <3>1
    <3>2. CASE x # i
      <4>1. x \in Occupied(new_flags) /\ bucket'[x] = bucket[x]
        BY <1>8, <1>14, <3>2 DEF InUse
      <4> QED BY <1>1, <4>1 DEF Searchable
    <3> QED BY <3>1, <3>2
  <2>3. \A x \in Occupied(new_flags') : bucket'[x].key \in Keys
    <3> TAKE x \in Occupied(new_flags')
    <3>1. x \in InUse' /\ bucket'[x] \in Entry \cup {Blank}
      BY <1>6 DEF InUse, Occupied
    <3>2. bucket'[x] # Blank
      BY <1>15, <3>1 DEF Distinct
    <3> QED BY <3>1, <3>2 DEF Entry
  <2>4. \A x \in Occupied(new_flags') :
          Reaches(bucket'[x].key, x, NewBuckets, new_flags')
    BY <1>3, <2>1, <2>2, <2>3, StillReaches
  <2> QED BY <1>1, <1>8, <2>4 DEF Searchable
<1>17. Entries' = Entries
  <2>1. \A e : e \in Entries <=> e = hand \/ \E x \in InUse : e = bucket[x]
    BY <1>1 DEF Entries, InUse
  <2>2. \A e : e \in Entries' <=> \/ hand' # Blank /\ e = hand'
                               \/ \E x \in InUse' : e = bucket'[x]
    BY DEF Entries, InUse
  <2>3. i \in InUse <=> i \in Old
    BY <1>8 DEF InUse
  <2>4. i \in InUse' /\ bucket'[i] = hand
    BY <1>6, <1>13
  <2>5. \A x \in InUse \ {i} : x \in InUse' /\ bucket'[x] = bucket[x]
    BY <1>13, <1>14
  <2>6. \A e : e \in Entries' <=> e \in Entries
    <3>1. CASE i \in Old
      BY <1>9, <1>14, <2>1, <2>2, <2>3, <2>4, <2>5, <3>1
    <3>2. CASE i \notin Old
      BY <1>9, <1>14, <2>1, <2>2, <2>3, <2>4, <2>5, <3>2
    <3> QED BY <3>1, <3>2
  <2> QED BY <2>6
<1>18. LeftToMove' < LeftToMove
  <2>1. Cardinality(Old) \in Nat
    BY CountFacts, BucketsCount
  <2>2. CASE i \in Old
    <3>1. Cardinality(Old') = Cardinality(Old) - 1
      BY <1>8, <2>2, CountFacts, LessCount
    <3> QED BY <1>1, <1>9, <2>1, <2>2, <3>1 DEF LeftToMove
  <2>3. CASE i \notin Old
    <3>1. Old' = Old
      BY <1>8, <2>3
    <3> QED BY <1>1, <1>9, <2>1, <2>3, <3>1 DEF LeftToMove
  <2> QED BY <2>2, <2>3
<1> QED BY <1>10, <1>11, <1>12, <1>15, <1>16, <1>17, <1>18

\* kh_resize ends with the new table in the place of the old.
LEMMA ResizedInv ==
  ASSUME Inv, Resized
  PROVE  Inv' /\ Entries' = Entries
<1> USE DEF Inv
<1>1. /\ phase = "resize" /\ hand = Blank /\ Old = {}
      /\ flags' = new_flags /\ new_flags' = AllEmpty /\ n_buckets' = NewBuckets
      /\ n_occupied' = size /\ upper_bound' = UpperBound(NewBuckets)
      /\ phase' = "insert" /\ size' = size /\ bucket' = bucket /\ hand' = hand
      /\ pending' = pending
  BY DEF Resized
<1>2. /\ NewBuckets \in Sizes /\ NewBuckets <= MaxBuckets
      /\ size < UpperBound(NewBuckets) /\ UpperBound(NewBuckets) \in Nat
      /\ NewBuckets \in Nat /\ NewBuckets >= 4
  BY <1>1, NewSize, SizeFacts DEF Room
<1>3. /\ Old' = Occupied(new_flags) /\ Occupied(flags') = Occupied(new_flags)
      /\ Occupied(new_flags') = {}
      /\ InUse' = Occupied(new_flags) /\ InUse = Occupied(new_flags)
  <2>1. Old' = Occupied(new_flags)
    BY <1>1 DEF Old, Occupied, TypeOK
  <2>2. Occupied(new_flags') = {}
    BY <1>1 DEF Occupied, AllEmpty
  <2> QED BY <1>1, <2>1, <2>2 DEF InUse
<1>4. size = Cardinality(Occupied(new_flags)) /\ size \in Nat
  BY <1>1, NoneCount, CountFacts, BucketsCount DEF TypeOK
<1>5. TypeOK'
  <2>1. flags' \in [Buckets -> {"empty", "del", "used"}]
    BY <1>1 DEF TypeOK
  <2>2. new_flags' \in [Buckets -> {"empty", "used"}]
    BY <1>1 DEF AllEmpty
  <2>3. size' = Cardinality(Old') + Cardinality(Occupied(new_flags'))
                + (IF hand' = Blank THEN 0 ELSE 1)
    BY <1>1, <1>3, <1>4, NoneCount
  <2>4. n_occupied' = Cardinality(Occupied(flags')) /\ n_occupied' <= upper_bound'
    BY <1>1, <1>2, <1>3, <1>4
  <2>5. Occupied(flags') \subseteq 0..(n_buckets' - 1)
    BY <1>1, <1>3 DEF OnTheirWay
  <2>6. n_buckets' \in {0} \cup Sizes /\ upper_bound' \in Nat /\ phase' = "insert"
    BY <1>1, <1>2
  <2>7. /\ bucket' \in [Buckets -> Entry \cup {Blank}]
        /\ hand' \in Entry \cup {Blank} /\ pending' \in Entry \cup {Blank}
    BY <1>1 DEF TypeOK
  <2> QED BY <2>1, <2>2, <2>3, <2>4, <2>5, <2>6, <2>7 DEF TypeOK
<1>6. Room'
  BY <1>1, <1>2 DEF Room
<1>7. OnTheirWay'
  BY <1>1, <1>3 DEF OnTheirWay
<1>8. Distinct'
  BY <1>1, <1>3 DEF Distinct
<1>9. Searchable'
  BY <1>1, <1>3 DEF Searchable
<1>10. Entries' = Entries
  BY <1>1, <1>3 DEF Entries, InUse
<1> QED BY <1>5, <1>6, <1>7, <1>8, <1>9, <1>10

\* A step that fills a free bucket with a new key, as kh_put does, and counts it.
LEMMA FillInv ==
  ASSUME Inv, phase = "insert", Insert, flags[Site(pending.key)] # "used"
  PROVE  /\ Inv' /\ Entries' = Entries \cup {pending} /\ pending \in Entry
         /\ \A e \in Entries : e.key # pending.key
<1> USE DEF Inv
<1> DEFINE x == Site(pending.key)
           k == pending.key
<1>0. pending \in Entry /\ pending # Blank /\ k \in Keys
  <2>1. pending \in Entry /\ pending # Blank
    BY DEF TypeOK, OnTheirWay
  <2> QED BY <2>1 DEF Entry
<1>1. /\ n_buckets > 0 /\ n_buckets \in Nat
      /\ x \in 0..(n_buckets - 1) /\ x \in Buckets
      /\ \A j \in Old : bucket[j].key # k
      /\ Reaches(k, x, n_buckets, flags)
  BY <1>0, FindsSite
<1>2. /\ bucket' = [bucket EXCEPT ![x] = pending]
      /\ flags' = [flags EXCEPT ![x] = "used"]
      /\ size' = size + 1
      /\ n_occupied' = IF flags[x] = "empty" THEN n_occupied + 1 ELSE n_occupied
      /\ pending' = Blank /\ phase' = "idle"
      /\ n_buckets' = n_buckets /\ upper_bound' = upper_bound
      /\ new_flags' = new_flags /\ hand' = hand
  BY DEF Insert, Fill
<1>a. flags[x] # "used"
  OBVIOUS
<1> HIDE DEF x
<1>3. /\ flags' \in [Buckets -> {"empty", "del", "used"}]
      /\ flags'[x] = "used" /\ \A i \in Buckets \ {x} : flags'[i] = flags[i]
  BY <1>1, <1>2 DEF TypeOK
<1>4. /\ bucket' \in [Buckets -> Entry \cup {Blank}]
      /\ bucket'[x] = pending /\ \A i \in Buckets \ {x} : bucket'[i] = bucket[i]
  BY <1>0, <1>1, <1>2 DEF TypeOK
<1>5. /\ Old' = Old \cup {x} /\ x \notin Old
      /\ Occupied(flags') = Occupied(flags) \cup {x}
      /\ x \in Occupied(flags) <=> flags[x] # "empty"
      /\ hand = Blank /\ hand' = Blank
      /\ Occupied(new_flags) = {} /\ Occupied(new_flags') = {}
      /\ InUse = Old /\ InUse' = Old'
  <2>1. Old' = Old \cup {x} /\ x \notin Old
    BY <1>1, <1>a, <1>3 DEF Old
  <2>2. /\ Occupied(flags') = Occupied(flags) \cup {x}
        /\ x \in Occupied(flags) <=> flags[x] # "empty"
    BY <1>1, <1>3 DEF Occupied
  <2>3. hand = Blank /\ Occupied(new_flags) = {}
    BY DEF OnTheirWay, Occupied, AllEmpty
  <2> QED BY <1>2, <2>1, <2>2, <2>3 DEF InUse
<1>6. TypeOK'
  <2>1. size' = Cardinality(Old') + Cardinality(Occupied(new_flags'))
                + (IF hand' = Blank THEN 0 ELSE 1)
    <3>1. Cardinality(Old') = Cardinality(Old) + 1 /\ Cardinality(Old) \in Nat
      BY <1>5, CountFacts, BucketsCount, MoreCount
    <3>2. size = Cardinality(Old)
      BY <1>5, <3>1, NoneCount DEF TypeOK
    <3> QED BY <1>2, <1>5, <3>1, <3>2, NoneCount
  <2>2. n_occupied' = Cardinality(Occupied(flags'))
    <3>1. CASE flags[x] = "empty"
      <4>1. Cardinality(Occupied(flags')) = Cardinality(Occupied(flags)) + 1
        BY <1>5, <3>1, CountFacts, MoreCount
      <4> QED BY <1>2, <3>1, <4>1 DEF TypeOK
    <3>2. CASE flags[x] # "empty"
      <4>1. Occupied(flags') = Occupied(flags)
        BY <1>5, <3>2
      <4> QED BY <1>2, <3>2, <4>1 DEF TypeOK
    <3> QED BY <3>1, <3>2
  <2>3. n_occupied' <= upper_bound' /\ upper_bound' \in Nat
    <3>1. n_occupied < upper_bound
      BY DEF Room
    <3> QED BY <1>2, <3>1, CountFacts
  <2>4. Occupied(flags') \subseteq 0..(n_buckets' - 1)
    BY <1>1, <1>2, <1>5 DEF TypeOK
  <2>5. /\ n_buckets' \in {0} \cup Sizes /\ phase' = "idle"
        /\ new_flags' \in [Buckets -> {"empty", "used"}]
        /\ hand' \in Entry \cup {Blank} /\ pending' \in Entry \cup {Blank}
    BY <1>2 DEF TypeOK
  <2> QED BY <1>3, <1>4, <2>1, <2>2, <2>3, <2>4, <2>5 DEF TypeOK
<1>7. Room'
  BY <1>2 DEF Room
<1>8. OnTheirWay'
  BY <1>2, <1>5 DEF OnTheirWay
<1>9. \A i \in Old' : \/ i = x /\ bucket'[i] = pending
                      \/ i \in Old /\ bucket'[i] = bucket[i]
  BY <1>4, <1>5, CountFacts
<1>10. Distinct'
  <2>1. \A i \in Old' : bucket'[i] \in Entry
    <3> TAKE i \in Old'
    <3>1. CASE i = x
      BY <1>0, <1>4, <3>1
    <3>2. CASE i \in Old /\ bucket'[i] = bucket[i]
      <4>1. bucket[i] \in Entry \cup {Blank}
        BY <3>2, CountFacts DEF TypeOK
      <4>2. bucket[i] # Blank
        BY <1>5, <3>2 DEF Distinct
      <4> QED BY <3>2, <4>1, <4>2
    <3> QED BY <1>9, <3>1, <3>2
  <2>2. \A i \in Old' : bucket'[i] # Blank /\ bucket'[i].key # hand'.key
    BY <1>5, <2>1, KHashAssumption DEF Entry, Blank
  <2>3. \A i, j \in Old' : bucket'[i].key = bucket'[j].key => i = j
    BY <1>1, <1>5, <1>9 DEF Distinct
  <2> QED BY <1>5, <2>2, <2>3 DEF Distinct
<1>11. Searchable'
  <2>1. \A i \in Old' : Reaches(bucket'[i].key, i, n_buckets, flags)
    BY <1>1, <1>9 DEF Searchable
  <2>2. \A i \in Old' : Reaches(bucket'[i].key, i, n_buckets, flags')
    <3> TAKE i \in Old'
    <3>1. bucket'[i].key \in Keys
      <4>1. i \in Buckets
        BY <1>1, <1>5, CountFacts
      <4>2. bucket'[i] # Blank
        BY <1>5, <1>10 DEF Distinct
      <4>3. bucket'[i] \in Entry \cup {Blank}
        BY <1>4, <4>1
      <4> QED BY <4>2, <4>3 DEF Entry
    <3> DEFINE l == bucket'[i].key
    <3>2. \A s \in 0..(n_buckets - 1) :
            flags[Probe(l, s, n_buckets)] # "empty"
            => flags'[Probe(l, s, n_buckets)] # "empty"
      <4> TAKE s \in 0..(n_buckets - 1)
      <4>0. s \in Nat /\ l \in Nat /\ n_buckets \in Sizes
        <5>1. s \in Nat
          BY <1>1
        <5>2. l \in Nat
          BY <3>1, KHashAssumption
        <5>3. n_buckets \in Sizes
          BY <1>1 DEF TypeOK
        <5> QED BY <5>1, <5>2, <5>3
      <4>1. Probe(l, s, n_buckets) \in 0..(n_buckets - 1)
        BY <4>0, ProbeIsBucket
      <4>2. n_buckets <= MaxBuckets /\ MaxBuckets \in Nat
        BY KHashAssumption DEF Room
      <4>3. Probe(l, s, n_buckets) \in Buckets
        BY <1>1, <4>1, <4>2 DEF Buckets
      <4> QED BY <1>3, <4>3
    <3> QED BY <1>1, <2>1, <3>2, StillReaches
  <2> QED BY <1>2, <2>2 DEF Searchable
<1>12. /\ Entries' = Entries \cup {pending}
       /\ \A e \in Entries : e.key # pending.key
  <2>1. \A e : e \in Entries <=> \E i \in Old : e = bucket[i]
    BY <1>5 DEF Entries
  <2>2. \A e : e \in Entries' <=> \E i \in Old' : e = bucket'[i]
    BY <1>5 DEF Entries
  <2>3. \A i \in Old : i \in Old' /\ bucket'[i] = bucket[i]
    BY <1>5, <1>9
  <2>4. \A e : e \in Entries' <=> e \in Entries \/ e = pending
    BY <1>4, <1>5, <1>9, <2>1, <2>2, <2>3
  <2> QED BY <1>1, <2>1, <2>4
<1> QED BY <1>0, <1>6, <1>7, <1>8, <1>10, <1>11, <1>12

\* kh_put ends.
LEMMA InsertInv ==
  ASSUME Inv, Insert
  PROVE  /\ Inv'
         /\ \/ Entries' = Entries
            \/ /\ Entries' = Entries \cup {pending} /\ pending \in Entry
               /\ \A e \in Entries : e.key # pending.key
<1>1. phase = "insert"
  BY DEF Insert
<1>2. CASE flags[Site(pending.key)] # "used"
  BY <1>1, <1>2, FillInv
<1>3. CASE flags[Site(pending.key)] = "used"
  <2>1. /\ n_buckets' = n_buckets /\ size' = size /\ n_occupied' = n_occupied
        /\ upper_bound' = upper_bound /\ flags' = flags /\ bucket' = bucket
        /\ new_flags' = new_flags /\ hand' = hand /\ pending' = Blank
        /\ phase' = "idle"
    BY <1>3 DEF Insert
  <2>2. Old' = Old /\ InUse' = InUse /\ NewBuckets' = NewBuckets
    BY <2>1 DEF Old, InUse, NewBuckets
  <2>3. TypeOK'
    BY <2>1, <2>2 DEF Inv, TypeOK
  <2>4. Room' /\ OnTheirWay'
    BY <1>1, <2>1, <2>2 DEF Inv, Room, OnTheirWay
  <2>5. Distinct' /\ Searchable'
    BY <1>1, <2>1, <2>2 DEF Inv, Distinct, Searchable
  <2>6. Entries' = Entries
    BY <2>1, <2>2 DEF Entries
  <2> QED BY <2>3, <2>4, <2>5, <2>6 DEF Inv
<1> QED BY <1>2, <1>3

\* kh_del takes a key out that kh_get found.
LEMMA RemoveInv ==
  ASSUME Inv, NEW k \in Keys, Remove(k)
  PROVE  /\ Inv' /\ Entries' = {e \in Entries : e.key # k}
         /\ \E e \in Entries : e.key = k
<1> USE DEF Inv
<1> DEFINE x == kh_get(k)
<1>1. /\ phase = "idle" /\ x # n_buckets
      /\ flags' = [flags EXCEPT ![x] = "del"]
      /\ bucket' = [bucket EXCEPT ![x] = Blank]
      /\ size' = size - 1
      /\ n_buckets' = n_buckets /\ n_occupied' = n_occupied
      /\ upper_bound' = upper_bound /\ new_flags' = new_flags /\ hand' = hand
      /\ pending' = pending /\ phase' = phase
  BY DEF Remove, Erase
<1>2. x \in Old /\ x \in Buckets /\ bucket[x].key = k
  <2>1. x \in Old /\ bucket[x].key = k
    BY <1>1, GetsBucket
  <2> QED BY <2>1, CountFacts
<1> HIDE DEF x
<1>3. /\ flags' \in [Buckets -> {"empty", "del", "used"}]
      /\ flags'[x] = "del" /\ \A i \in Buckets \ {x} : flags'[i] = flags[i]
  BY <1>1, <1>2 DEF TypeOK
<1>4. /\ bucket' \in [Buckets -> Entry \cup {Blank}]
      /\ bucket'[x] = Blank /\ \A i \in Buckets \ {x} : bucket'[i] = bucket[i]
  BY <1>1, <1>2 DEF TypeOK
<1>5. /\ Old' = Old \ {x} /\ Occupied(flags') = Occupied(flags)
      /\ hand = Blank /\ new_flags = AllEmpty /\ Occupied(new_flags) = {}
      /\ InUse' = Old' /\ InUse = Old
  <2>1. Old' = Old \ {x}
    BY <1>3 DEF Old
  <2>2. Occupied(flags') = Occupied(flags)
    BY <1>2, <1>3 DEF Occupied, Old
  <2>3. hand = Blank /\ new_flags = AllEmpty /\ Occupied(new_flags) = {}
    BY <1>1 DEF OnTheirWay, Occupied, AllEmpty
  <2> QED BY <1>1, <2>1, <2>2, <2>3 DEF InUse
<1>6. \A i \in Old' : i \in Old /\ bucket'[i] = bucket[i]
  BY <1>4, <1>5, CountFacts
<1>7. TypeOK'
  <2>1. Cardinality(Old') = Cardinality(Old) - 1 /\ Cardinality(Old) \in Nat
    BY <1>2, <1>5, CountFacts, BucketsCount, LessCount
  <2>2. size' = Cardinality(Old') + Cardinality(Occupied(new_flags'))
                + (IF hand' = Blank THEN 0 ELSE 1)
    BY <1>1, <1>5, <2>1, NoneCount DEF TypeOK
  <2> QED BY <1>1, <1>3, <1>4, <1>5, <2>2 DEF TypeOK
<1>8. Room'
  BY <1>1 DEF Room
<1>9. OnTheirWay'
  BY <1>1, <1>5 DEF OnTheirWay
<1>10. Distinct'
  <2>1. \A i \in Old' : bucket'[i] # Blank /\ bucket'[i].key # hand'.key
    BY <1>1, <1>5, <1>6 DEF Distinct
  <2>2. \A i, j \in Old' : bucket'[i].key = bucket'[j].key => i = j
    BY <1>5, <1>6 DEF Distinct
  <2> QED BY <1>1, <1>5, <2>1, <2>2 DEF Distinct
<1>11. Searchable'
  <2>1. \A i \in Old' : Reaches(bucket'[i].key, i, n_buckets, flags)
    BY <1>1, <1>6 DEF Searchable
  <2>2. \A i \in Old' : Reaches(bucket'[i].key, i, n_buckets, flags')
    <3> TAKE i \in Old'
    <3>0. i \in Old /\ i \in Buckets /\ bucket'[i] = bucket[i]
      BY <1>6, CountFacts
    <3> DEFINE l == bucket'[i].key
    <3>1. l \in Keys
      <4>1. bucket[i] # Blank /\ bucket[i] \in Entry \cup {Blank}
        BY <1>5, <3>0 DEF Distinct, TypeOK
      <4> QED BY <3>0, <4>1 DEF Entry
    <3>a. n_buckets \in Sizes /\ n_buckets \in Nat
      <4>1. n_buckets # 0
        BY <3>0 DEF TypeOK, Old, Occupied
      <4> QED BY <4>1, SizeFacts DEF TypeOK
    <3>2. \A s \in 0..(n_buckets - 1) :
            flags[Probe(l, s, n_buckets)] # "empty"
            => flags'[Probe(l, s, n_buckets)] # "empty"
      <4> TAKE s \in 0..(n_buckets - 1)
      <4>0. s \in Nat /\ l \in Nat
        <5>1. s \in Nat
          BY <3>a
        <5>2. l \in Nat
          BY <3>1, KHashAssumption
        <5> QED BY <5>1, <5>2
      <4>1. Probe(l, s, n_buckets) \in 0..(n_buckets - 1)
        BY <3>a, <4>0, ProbeIsBucket
      <4>2. n_buckets <= MaxBuckets /\ MaxBuckets \in Nat
        BY KHashAssumption DEF Room
      <4>3. Probe(l, s, n_buckets) \in Buckets
        BY <3>a, <4>1, <4>2 DEF Buckets
      <4> QED BY <1>3, <4>3
    <3> QED BY <3>a, <2>1, <3>2, StillReaches
  <2> QED BY <1>1, <2>2 DEF Searchable
<1>12. /\ Entries' = {e \in Entries : e.key # k}
       /\ \E e \in Entries : e.key = k
  <2>1. \A e : e \in Entries <=> \E i \in Old : e = bucket[i]
    BY <1>5 DEF Entries
  <2>2. \A e : e \in Entries' <=> \E i \in Old' : e = bucket'[i]
    BY <1>1, <1>5 DEF Entries
  <2>3. \A i \in Old : i = x <=> bucket[i].key = k
    BY <1>2, <1>5 DEF Distinct
  <2>4. \A e : e \in Entries' <=> e \in Entries /\ e.key # k
    BY <1>5, <1>6, <2>1, <2>2, <2>3
  <2> QED BY <1>2, <2>1, <2>4
<1> QED BY <1>7, <1>8, <1>9, <1>10, <1>11, <1>12

\* kh_destroy leaves nothing.
LEMMA DestroyInv ==
  ASSUME Inv, Destroy
  PROVE  Inv' /\ Entries' = {}
<1> USE DEF Inv
<1>0. MaxBuckets \in Nat
  BY KHashAssumption
<1>1. /\ phase = "idle" /\ phase' = "destroyed"
      /\ n_buckets' = 0 /\ size' = 0 /\ n_occupied' = 0 /\ upper_bound' = 0
      /\ flags' = AllEmpty /\ bucket' = [i \in Buckets |-> Blank]
      /\ new_flags' = new_flags /\ hand' = hand /\ pending' = pending
  BY DEF Destroy
<1>2. hand = Blank /\ new_flags = AllEmpty /\ pending \in Entry \cup {Blank}
  BY <1>1 DEF OnTheirWay, TypeOK
<1>3. /\ Old' = {} /\ Occupied(flags') = {} /\ Occupied(new_flags') = {}
      /\ InUse' = {}
  <2>1. Old' = {}
    BY <1>1 DEF Old, AllEmpty
  <2>2. Occupied(flags') = {} /\ Occupied(new_flags') = {}
    BY <1>1, <1>2 DEF Occupied, AllEmpty
  <2> QED BY <2>1, <2>2 DEF InUse
<1>4. TypeOK'
  BY <1>1, <1>2, <1>3, NoneCount DEF TypeOK, AllEmpty
<1>5. Room' /\ OnTheirWay'
  BY <1>0, <1>1, <1>2, <1>3 DEF Room, OnTheirWay
<1>6. Distinct' /\ Searchable'
  BY <1>1, <1>3 DEF Distinct, Searchable
<1>7. Entries' = {}
  BY <1>1, <1>2, <1>3 DEF Entries
<1> QED BY <1>4, <1>5, <1>6, <1>7

\* Every step keeps the invariant.
LEMMA StepInv == Inv /\ [Next]_vars => Inv'
<1> SUFFICES ASSUME Inv, [Next]_vars PROVE Inv'
  OBVIOUS
<1>1. CASE \E k \in Keys, val \in Values : Put(k, val)
  BY <1>1, PutInv
<1>2. CASE TakeOut
  BY <1>2, TakeOutInv
<1>3. CASE KickOut
  BY <1>3, KickOutInv
<1>4. CASE Resized
  BY <1>4, ResizedInv
<1>5. CASE Insert
  BY <1>5, InsertInv
<1>6. CASE \E k \in Keys : Remove(k)
  BY <1>6, RemoveInv
<1>7. CASE Destroy
  BY <1>7, DestroyInv
<1>8. CASE UNCHANGED vars
  <2>1. /\ n_buckets' = n_buckets /\ size' = size /\ n_occupied' = n_occupied
        /\ upper_bound' = upper_bound /\ flags' = flags /\ bucket' = bucket
        /\ new_flags' = new_flags /\ hand' = hand /\ pending' = pending
        /\ phase' = phase
    BY <1>8 DEF vars, counts
  <2>2. Old' = Old /\ InUse' = InUse /\ NewBuckets' = NewBuckets
    BY <2>1 DEF Old, InUse, NewBuckets
  <2>3. TypeOK'
    BY <2>1, <2>2 DEF Inv, TypeOK
  <2>4. Room' /\ OnTheirWay'
    BY <2>1, <2>2 DEF Inv, Room, OnTheirWay
  <2>5. Distinct' /\ Searchable'
    BY <2>1, <2>2 DEF Inv, Distinct, Searchable
  <2> QED BY <2>3, <2>4, <2>5 DEF Inv
<1> QED BY <1>1, <1>2, <1>3, <1>4, <1>5, <1>6, <1>7, <1>8 DEF Next

-----------------------------------------------------------------------------
(* The table.                                                              *)

\* The invariant holds in every state of the table.
THEOREM Invariance == Spec => []Inv
<1>1. Init => Inv
  BY InitInv
<1>2. Inv /\ [Next]_vars => Inv'
  BY StepInv
<1> QED BY <1>1, <1>2, PTL DEF Spec

\* The counts of the table (khash.h's size and n_occupied) are those of its
\* flags, also while kh_resize moves entries, and no bucket outside the table
\* is used.
THEOREM TypeCorrect == Spec => []TypeOK
<1>1. Inv => TypeOK
  BY DEF Inv
<1> QED BY <1>1, Invariance, PTL

\* The loops of kh_get, kh_put and kh_resize, which only an empty bucket is
\* sure to end, all come to one, in tables of every size.
THEOREM SearchesEnd == Spec => []ProbesEnd
<1>1. Inv => ProbesEnd
  BY EmptyBuckets DEF ProbesEnd
<1> QED BY <1>1, Invariance, PTL

\* Entries are those of the buckets in use and the one in hand.
LEMMA EntryFacts ==
  ASSUME Inv
  PROVE  /\ \A e : e \in Entries <=> \/ \E i \in InUse : e = bucket[i]
                                     \/ hand # Blank /\ e = hand
         /\ Entries \subseteq Entry
         /\ \A e, f \in Entries : e.key = f.key => e = f
         /\ phase # "resize" => Entries = {bucket[i] : i \in Old}
<1>1. \A e : e \in Entries <=> \/ \E i \in InUse : e = bucket[i]
                               \/ hand # Blank /\ e = hand
  BY DEF Entries, InUse
<1>2. Entries \subseteq Entry
  <2> SUFFICES ASSUME NEW e \in Entries PROVE e \in Entry
    OBVIOUS
  <2>1. ASSUME NEW i \in InUse, e = bucket[i] PROVE e \in Entry
    <3>1. i \in Buckets
      BY CountFacts DEF Inv, InUse
    <3>2. bucket[i] \in Entry \cup {Blank} /\ bucket[i] # Blank
      BY <3>1 DEF Inv, TypeOK, Distinct
    <3> QED BY <2>1, <3>2
  <2>2. ASSUME hand # Blank, e = hand PROVE e \in Entry
    BY <2>2 DEF Inv, TypeOK
  <2> QED BY <1>1, <2>1, <2>2
<1>3. \A e, f \in Entries : e.key = f.key => e = f
  BY <1>1 DEF Inv, Distinct
<1>4. phase # "resize" => Entries = {bucket[i] : i \in Old}
  BY DEF Inv, OnTheirWay, Entries, Occupied, AllEmpty
<1> QED BY <1>1, <1>2, <1>3, <1>4

\* There are as many keys as the table counts.
LEMMA KeysCount ==
  ASSUME Inv
  PROVE  Cardinality({e.key : e \in Entries}) = size
<1> DEFINE K == {bucket[i].key : i \in InUse}
           f == [i \in InUse |-> bucket[i].key]
<1>1. InUse \in SUBSET Buckets
  BY CountFacts DEF Inv, InUse
<1>2. f \in Bijection(InUse, K)
  <2>1. f \in [InUse -> K]
    OBVIOUS
  <2>2. \A i, j \in InUse : f[i] = f[j] => i = j
    BY DEF Inv, Distinct
  <2>3. \A y \in K : \E i \in InUse : f[i] = y
    OBVIOUS
  <2> HIDE DEF f, K
  <2> QED BY <2>1, <2>2, <2>3 DEF Bijection, Injection, Surjection, IsInjective
<1>3. IsFiniteSet(K) /\ Cardinality(K) = Cardinality(InUse)
  <2>1. IsFiniteSet(InUse)
    BY <1>1, BucketsCount
  <2>2. ExistsBijection(InUse, K)
    BY <1>2, Zenon DEF ExistsBijection
  <2> HIDE DEF K
  <2> QED BY <2>1, <2>2, FS_Bijection
<1>4. Cardinality(InUse) = Cardinality(Old) + Cardinality(Occupied(new_flags))
  <2>1. /\ IsFiniteSet(Old) /\ IsFiniteSet(Occupied(new_flags))
        /\ Cardinality(Old) \in Nat /\ Cardinality(Occupied(new_flags)) \in Nat
    BY CountFacts, BucketsCount DEF Inv
  <2>2. Cardinality(InUse) =
          Cardinality(Old) + Cardinality(Occupied(new_flags)) -
            Cardinality(Old \cap Occupied(new_flags))
    BY <2>1, FS_Union DEF InUse
  <2>3. Cardinality(Old \cap Occupied(new_flags)) = 0
    BY NoneCount DEF Inv, Distinct
  <2> QED BY <2>1, <2>2, <2>3
<1>5. Cardinality(InUse) \in Nat
  BY <1>1, BucketsCount
<1>6. CASE hand = Blank
  <2>1. {e.key : e \in Entries} = K
    BY <1>6 DEF Entries, InUse
  <2>2. size = Cardinality(InUse)
    BY <1>4, <1>5, <1>6 DEF Inv, TypeOK
  <2> QED BY <1>3, <2>1, <2>2
<1>7. CASE hand # Blank
  <2>1. {e.key : e \in Entries} = K \cup {hand.key}
    BY <1>7 DEF Entries, InUse
  <2>2. hand.key \notin K
    BY DEF Inv, Distinct
  <2> HIDE DEF K
  <2>3. Cardinality(K \cup {hand.key}) = Cardinality(K) + 1
    BY <1>3, <2>2, FS_AddElement
  <2> QED BY <1>3, <1>4, <1>5, <1>7, <2>1, <2>3 DEF Inv, TypeOK
<1> QED BY <1>6, <1>7

\* kh_get finds every key of the table and no other, and no key is there twice,
\* whatever was deleted and however often the table was made anew.
THEOREM LookupsFind == Spec => []GetFinds
<1>1. Inv => GetFinds
  <2> SUFFICES ASSUME Inv PROVE GetFinds
    OBVIOUS
  <2>1. ASSUME phase \in {"idle", "insert"}, NEW k \in Keys
        PROVE  IF \E e \in Entries : e.key = k
                 THEN kh_get(k) < n_buckets /\ bucket[kh_get(k)].key = k
                 ELSE kh_get(k) = n_buckets
    <3>1. Entries = {bucket[i] : i \in Old}
      BY <2>1, EntryFacts
    <3> QED BY <2>1, <3>1, GetsBucket
  <2> QED BY <2>1, KeysCount DEF GetFinds
<1> QED BY <1>1, Invariance, PTL

\* The loops of kh_resize leave less to do with each iteration, so that entries
\* that kick each other out do not go round for ever.
THEOREM ResizingEnds == Spec => ResizeProgresses
<1>1. ASSUME Inv, [Next]_vars
      PROVE  [phase = "resize" /\ phase' = "resize" => LeftToMove' < LeftToMove]_vars
  <2> SUFFICES ASSUME Next, phase = "resize", phase' = "resize"
               PROVE  LeftToMove' < LeftToMove
    BY <1>1
  <2>1. CASE TakeOut
    BY <1>1, <2>1, TakeOutInv
  <2>2. CASE KickOut
    BY <1>1, <2>2, KickOutInv
  <2>3. CASE \/ \E k \in Keys, val \in Values : Put(k, val)
             \/ Resized \/ Insert \/ (\E k \in Keys : Remove(k)) \/ Destroy
    BY <2>3 DEF Put, Resized, Insert, Remove, Destroy
  <2> QED BY <2>1, <2>2, <2>3 DEF Next
<1> QED BY <1>1, Invariance, PTL DEF Spec, ResizeProgresses

-----------------------------------------------------------------------------
(* The table implements the table of keys and values it promises.          *)

\* The contents are those of the entries.
ContentsRight ==
  /\ Contents \in [Keys -> Values \cup {NONE}]
  /\ \A e \in Entries : e.key \in Keys /\ Contents[e.key] = e.val /\ e.val # NONE
  /\ \A k \in Keys : (\A e \in Entries : e.key # k) => Contents[k] = NONE

\* They are, as no key is there twice.
LEMMA ContentsFacts == Inv => ContentsRight
<1> SUFFICES ASSUME Inv PROVE ContentsRight
  OBVIOUS
<1>1. ASSUME NEW e \in Entries
      PROVE  e.key \in Keys /\ Contents[e.key] = e.val /\ e.val \in Values
  <2>1. e.key \in Keys /\ e.val \in Values
    BY EntryFacts DEF Entry
  <2> DEFINE c == CHOOSE f \in Entries : f.key = e.key
  <2>2. c \in Entries /\ c.key = e.key
    OBVIOUS
  <2>3. c = e
    <3> HIDE DEF c
    <3> QED BY <2>2, EntryFacts
  <2> QED BY <2>1, <2>3 DEF Contents
<1>2. ASSUME NEW k \in Keys, \A e \in Entries : e.key # k
      PROVE  Contents[k] = NONE
  BY <1>2 DEF Contents
<1>3. \A k \in Keys : Contents[k] \in Values \cup {NONE}
  BY <1>1, <1>2
<1>4. Contents = [k \in Keys |-> Contents[k]]
  BY DEF Contents
<1> QED BY <1>1, <1>2, <1>3, <1>4, KHashAssumption DEF ContentsRight

\* They are after a step, too.
LEMMA ContentsLater == Inv' => ContentsRight'
BY ContentsFacts, PTL

\* Where the entries stay the same, so do the contents.
LEMMA EntriesStay == Entries' = Entries => Contents' = Contents
BY DEF Contents

\* A step puts one key in, takes one out, destroys the table or leaves its
\* contents alone.
LEMMA TableStep == Inv /\ [Next]_vars => [Table!Next]_Contents
<1> SUFFICES ASSUME Inv, [Next]_vars PROVE [Table!Next]_Contents
  OBVIOUS
<1>0. Inv'
  BY StepInv
<1>1. ASSUME Entries' = Entries PROVE [Table!Next]_Contents
  BY <1>1, EntriesStay
<1>2. CASE \E k \in Keys, val \in Values : Put(k, val)
  <2>1. Entries' = Entries
    BY <1>2 DEF Put, Entries, Old
  <2> QED BY <1>1, <2>1
<1>3. CASE TakeOut
  BY <1>1, <1>3, TakeOutInv
<1>4. CASE KickOut
  BY <1>1, <1>4, KickOutInv
<1>5. CASE Resized
  BY <1>1, <1>5, ResizedInv
<1>6. CASE Insert
  <2>1. CASE Entries' = Entries
    BY <1>1, <2>1
  <2>2. CASE /\ Entries' = Entries \cup {pending} /\ pending \in Entry
             /\ \A e \in Entries : e.key # pending.key
    <3> DEFINE k == pending.key
               v == pending.val
    <3>1. k \in Keys /\ v \in Values
      BY <2>2 DEF Entry
    <3>2. Contents[k] = NONE
      BY <2>2, <3>1, ContentsFacts DEF ContentsRight
    <3>3. Contents'[k] = v
      BY <1>0, <2>2, ContentsLater DEF ContentsRight
    <3>4. \A l \in Keys \ {k} : Contents'[l] = Contents[l]
      BY <1>0, <2>2, ContentsFacts, ContentsLater DEF ContentsRight
    <3>5. Contents' = [Contents EXCEPT ![k] = v]
      BY <1>0, <3>1, <3>3, <3>4, ContentsFacts, ContentsLater DEF ContentsRight
    <3> QED BY <3>1, <3>2, <3>5 DEF Table!Next, Table!Put
  <2> QED BY <1>6, <2>1, <2>2, InsertInv
<1>7. CASE \E k \in Keys : Remove(k)
  <2>1. PICK k \in Keys : Remove(k)
    BY <1>7
  <2>2. /\ Entries' = {e \in Entries : e.key # k}
        /\ \E e \in Entries : e.key = k
    BY <2>1, RemoveInv
  <2>3. Contents[k] # NONE
    BY <2>2, ContentsFacts DEF ContentsRight
  <2>4. Contents'[k] = NONE
    BY <1>0, <2>2, ContentsLater DEF ContentsRight
  <2>5. \A l \in Keys \ {k} : Contents'[l] = Contents[l]
    BY <1>0, <2>2, ContentsFacts, ContentsLater DEF ContentsRight
  <2>6. Contents' = [Contents EXCEPT ![k] = NONE]
    BY <1>0, <2>4, <2>5, ContentsFacts, ContentsLater DEF ContentsRight
  <2> QED BY <2>3, <2>6 DEF Table!Next, Table!Remove
<1>8. CASE Destroy
  <2>1. Entries' = {}
    BY <1>8, DestroyInv
  <2>2. \A k \in Keys : Contents'[k] = NONE
    BY <1>0, <2>1, ContentsLater DEF ContentsRight
  <2>3. Contents' = [k \in Keys |-> NONE]
    BY <1>0, <2>2, ContentsLater DEF ContentsRight
  <2> QED BY <2>3 DEF Table!Next, Table!Destroy
<1>9. CASE UNCHANGED vars
  <2>1. Entries' = Entries
    BY <1>9 DEF vars, counts, Entries, Old
  <2> QED BY <1>1, <2>1
<1> QED BY <1>2, <1>3, <1>4, <1>5, <1>6, <1>7, <1>8, <1>9 DEF Next

\* The hash table, with its deleted buckets and its resizing in place, shows
\* its user a table of keys and values.
THEOREM HashTableIsTable == Spec => ImplementsTable
<1>1. Init => Table!Init
  <2> SUFFICES ASSUME Init PROVE Table!Init
    OBVIOUS
  <2>1. Inv
    BY InitInv
  <2>2. Entries = {}
    BY <2>1, EntryFacts DEF Init, Old, AllEmpty
  <2>3. Contents = [k \in Keys |-> NONE]
    BY <2>1, <2>2, ContentsFacts DEF ContentsRight
  <2> QED BY <2>3 DEF Table!Init
<1>2. Inv /\ [Next]_vars => [Table!Next]_Contents
  BY TableStep
<1> QED BY <1>1, <1>2, Invariance, PTL DEF Spec, ImplementsTable, Table!Spec

=============================================================================
