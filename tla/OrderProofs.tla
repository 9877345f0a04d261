----------------------------- MODULE OrderProofs ------------------------------
(***************************************************************************)
(* Lemmas about Ordering.tla, and about the smallest and the largest       *)
(* element of a finite set: that they exist is what every use of CHOOSE in *)
(* the models rests on.                                                    *)
(***************************************************************************)
EXTENDS Ordering, SequencesExt, FiniteSetTheorems, TLAPS

\* How many of the set come before x.
Place(x, set, order) == Cardinality({y \in set : <<y, x>> \in order})

StrictOrder(order, set) ==
  /\ \A x \in set : <<x, x>> \notin order
  /\ \A x, y \in set : x # y => <<x, y>> \in order \/ <<y, x>> \in order
  /\ \A x, y, z \in set : <<x, y>> \in order /\ <<y, z>> \in order => <<x, z>> \in order

\* An element has fewer before it than those that come after it.
LEMMA PlaceGrows ==
  ASSUME NEW S, IsFiniteSet(S), NEW R, StrictOrder(R, S),
         NEW x \in S, NEW y \in S, <<x, y>> \in R
  PROVE  Place(x, S, R) < Place(y, S, R)
<1> DEFINE before(z) == {w \in S : <<w, z>> \in R}
<1>1. IsFiniteSet(before(y)) /\ Cardinality(before(y)) \in Nat
  BY FS_Subset, FS_CardinalityType
<1>2. before(x) \subseteq before(y) /\ x \in before(y) /\ x \notin before(x)
  BY DEF StrictOrder
<1>3. before(x) # before(y)
  BY <1>2
<1>4. /\ Cardinality(before(x)) <= Cardinality(before(y))
      /\ Cardinality(before(x)) # Cardinality(before(y))
      /\ IsFiniteSet(before(x))
  <2> HIDE DEF before
  <2> QED
    BY <1>1, <1>2, <1>3, FS_Subset
<1>5. Cardinality(before(x)) \in Nat
  BY <1>4, FS_CardinalityType
<1> QED
  BY <1>1, <1>4, <1>5 DEF Place

\* Every place is taken by one element.
LEMMA PlaceBijective ==
  ASSUME NEW S, IsFiniteSet(S), NEW R, StrictOrder(R, S)
  PROVE  /\ Cardinality(S) \in Nat
         /\ \A x \in S : Place(x, S, R) \in 0..(Cardinality(S) - 1)
         /\ \A x, y \in S : <<x, y>> \in R <=> Place(x, S, R) < Place(y, S, R)
         /\ \A x, y \in S : Place(x, S, R) = Place(y, S, R) => x = y
         /\ \A k \in 0..(Cardinality(S) - 1) : \E x \in S : Place(x, S, R) = k
<1> DEFINE n == Cardinality(S)
           all == 0..(n - 1)
           place == [x \in S |-> Place(x, S, R)]
<1>1. n \in Nat
  BY FS_CardinalityType
<1>2. ASSUME NEW x \in S PROVE Place(x, S, R) \in all
  <2> DEFINE before == {w \in S : <<w, x>> \in R}
  <2>1. before \subseteq S /\ x \notin before
    BY DEF StrictOrder
  <2>2. IsFiniteSet(before) /\ Cardinality(before) <= n /\ Cardinality(before) # n
    <3>1. before # S
      BY <2>1
    <3> HIDE DEF before
    <3> QED
      BY <2>1, <3>1, FS_Subset
  <2>3. Cardinality(before) \in Nat
    BY <2>2, FS_CardinalityType
  <2>4. Cardinality(before) \in all
    BY <1>1, <2>2, <2>3
  <2> QED
    BY <2>4 DEF Place
<1>3. ASSUME NEW x \in S, NEW y \in S
      PROVE  <<x, y>> \in R => Place(x, S, R) < Place(y, S, R)
  BY PlaceGrows
<1>4. ASSUME NEW x \in S, NEW y \in S, x # y
      PROVE  Place(x, S, R) # Place(y, S, R)
  <2>1. Place(x, S, R) \in Int /\ Place(y, S, R) \in Int
    BY <1>1, <1>2
  <2>2. <<x, y>> \in R \/ <<y, x>> \in R
    BY <1>4 DEF StrictOrder
  <2> QED
    BY <1>3, <2>1, <2>2
<1>5. ASSUME NEW x \in S, NEW y \in S, Place(x, S, R) < Place(y, S, R)
      PROVE  <<x, y>> \in R
  <2>1. Place(x, S, R) \in Int /\ Place(y, S, R) \in Int
    BY <1>1, <1>2
  <2>2. x # y
    BY <1>5, <2>1
  <2>3. <<x, y>> \in R \/ <<y, x>> \in R
    BY <2>2 DEF StrictOrder
  <2> QED
    BY <1>3, <1>5, <2>1, <2>3
<1>6. place \in Injection(S, all)
  BY <1>2, <1>4 DEF Injection, IsInjective
<1>7. IsFiniteSet(all) /\ Cardinality(all) = n
  BY <1>1, FS_Interval
<1>8. place \in Surjection(S, all)
  <2> HIDE DEF place, all
  <2> QED
    BY <1>6, <1>7, FS_Injection
<1>9. \A k \in all : \E x \in S : place[x] = k
  <2> HIDE DEF place, all
  <2> QED
    BY <1>8 DEF Surjection
<1> QED
  BY <1>1, <1>2, <1>3, <1>4, <1>5, <1>9

\* The pairs of a list in the order of g_list_sort().
LEMMA RankBijective ==
  ASSUME NEW S \in SUBSET (Int \X Int), IsFiniteSet(S)
  PROVE  /\ Cardinality(S) \in Nat
         /\ \A x \in S : Rank(x, S) \in 0..(Cardinality(S) - 1)
         /\ \A x, y \in S : Precedes(x, y) <=> Rank(x, S) < Rank(y, S)
         /\ \A x, y \in S : Rank(x, S) = Rank(y, S) => x = y
         /\ \A k \in 0..(Cardinality(S) - 1) : \E x \in S : Rank(x, S) = k
<1> DEFINE R == {p \in S \X S : Precedes(p[1], p[2])}
<1>1. \A x, y \in S : <<x, y>> \in R <=> Precedes(x, y)
  OBVIOUS
<1>2. \A x \in S : x[1] \in Int /\ x[2] \in Int /\ x = <<x[1], x[2]>>
  OBVIOUS
<1>3. /\ \A x \in S : ~Precedes(x, x)
      /\ \A x, y \in S : x # y => Precedes(x, y) \/ Precedes(y, x)
      /\ \A x, y, z \in S : Precedes(x, y) /\ Precedes(y, z) => Precedes(x, z)
  <2>1. ASSUME NEW x \in S, NEW y \in S, x # y
        PROVE  Precedes(x, y) \/ Precedes(y, x)
    <3>1. x[1] # y[1] \/ x[2] # y[2]
      BY <1>2, <2>1
    <3> QED
      BY <1>2, <3>1 DEF Precedes
  <2>2. ASSUME NEW x \in S, NEW y \in S, NEW z \in S, Precedes(x, y), Precedes(y, z)
        PROVE  Precedes(x, z)
    BY <1>2, <2>2 DEF Precedes
  <2>3. \A x \in S : ~Precedes(x, x)
    BY <1>2 DEF Precedes
  <2> QED
    BY <2>1, <2>2, <2>3
<1> HIDE DEF R
<1>4. StrictOrder(R, S)
  BY <1>1, <1>3 DEF StrictOrder
<1>5. ASSUME NEW x \in S PROVE Place(x, S, R) = Rank(x, S)
  <2>1. {y \in S : <<y, x>> \in R} = {y \in S : Precedes(y, x)}
    BY <1>1
  <2> QED
    BY <2>1 DEF Place, Rank
<1>6. /\ Cardinality(S) \in Nat
      /\ \A x \in S : Place(x, S, R) \in 0..(Cardinality(S) - 1)
      /\ \A x, y \in S : <<x, y>> \in R <=> Place(x, S, R) < Place(y, S, R)
      /\ \A x, y \in S : Place(x, S, R) = Place(y, S, R) => x = y
      /\ \A k \in 0..(Cardinality(S) - 1) : \E x \in S : Place(x, S, R) = k
  BY <1>4, PlaceBijective
<1> QED
  BY <1>1, <1>5, <1>6

\* Ranked() has every element once, in the order.
LEMMA RankedFacts ==
  ASSUME NEW S \in SUBSET (Int \X Int), IsFiniteSet(S)
  PROVE  /\ Cardinality(S) \in Nat
         /\ Ranked(S) \in [1..Cardinality(S) -> S]
         /\ \A k \in 1..Cardinality(S) : Rank(Ranked(S)[k], S) = k - 1
         /\ \A x \in S : \E k \in 1..Cardinality(S) : Ranked(S)[k] = x
<1> DEFINE n == Cardinality(S)
<1>1. n \in Nat
  BY FS_CardinalityType
<1>2. ASSUME NEW k \in 1..n
      PROVE  Ranked(S)[k] \in S /\ Rank(Ranked(S)[k], S) = k - 1
  <2>1. k - 1 \in 0..(n - 1)
    BY <1>1
  <2>2. \E x \in S : Rank(x, S) = k - 1
    BY <2>1, RankBijective
  <2> QED
    BY <2>2 DEF Ranked
<1>3. ASSUME NEW x \in S PROVE \E k \in 1..n : Ranked(S)[k] = x
  <2>1. Rank(x, S) \in 0..(n - 1)
    BY RankBijective
  <2>2. PICK k \in 1..n : Rank(x, S) = k - 1
    <3> HIDE DEF n
    <3>1. \A r \in 0..(n - 1) : r + 1 \in 1..n /\ r = (r + 1) - 1
      BY <1>1
    <3> QED
      BY <2>1, <3>1
  <2> QED
    BY <1>2, <2>2, RankBijective
<1>4. Ranked(S) \in [1..n -> S]
  BY <1>2 DEF Ranked
<1> QED
  BY <1>1, <1>2, <1>3, <1>4

-----------------------------------------------------------------------------
\* Finitely many numbers have a smallest and a largest one.
LEMMA MinFacts ==
  ASSUME NEW S \in SUBSET Int, IsFiniteSet(S), S # {}
  PROVE  Min(S) \in S /\ \A x \in S : Min(S) <= x
<1> DEFINE R == {p \in S \X S : p[1] < p[2]}
<1>1. StrictOrder(R, S)
  BY DEF StrictOrder
<1>2. \A x, y \in S : <<x, y>> \in R <=> x < y
  OBVIOUS
<1>3. Cardinality(S) \in Nat /\ 0 \in 0..(Cardinality(S) - 1)
  BY FS_CardinalityType, FS_EmptySet
<1>4. PICK x \in S : Place(x, S, R) = 0
  <2> HIDE DEF R
  <2> QED
    BY <1>1, <1>3, PlaceBijective
<1>5. ASSUME NEW y \in S PROVE x <= y
  <2>1. Place(y, S, R) \in 0..(Cardinality(S) - 1) /\ (y < x => Place(y, S, R) < Place(x, S, R))
    <3> HIDE DEF R
    <3> QED
      BY <1>1, <1>2, PlaceBijective
  <2> QED
    BY <1>3, <1>4, <2>1
<1> QED
  BY <1>5 DEF Min

LEMMA MaxFacts ==
  ASSUME NEW S \in SUBSET Int, IsFiniteSet(S), S # {}
  PROVE  Max(S) \in S /\ \A x \in S : Max(S) >= x
<1> DEFINE R == {p \in S \X S : p[1] > p[2]}
<1>1. StrictOrder(R, S)
  BY DEF StrictOrder
<1>2. \A x, y \in S : <<x, y>> \in R <=> x > y
  OBVIOUS
<1>3. Cardinality(S) \in Nat /\ 0 \in 0..(Cardinality(S) - 1)
  BY FS_CardinalityType, FS_EmptySet
<1>4. PICK x \in S : Place(x, S, R) = 0
  <2> HIDE DEF R
  <2> QED
    BY <1>1, <1>3, PlaceBijective
<1>5. ASSUME NEW y \in S PROVE x >= y
  <2>1. Place(y, S, R) \in 0..(Cardinality(S) - 1) /\ (y > x => Place(y, S, R) < Place(x, S, R))
    <3> HIDE DEF R
    <3> QED
      BY <1>1, <1>2, PlaceBijective
  <2> QED
    BY <1>3, <1>4, <2>1
<1> QED
  BY <1>5 DEF Max

\* An interval's part is finite.
LEMMA RangeFinite ==
  ASSUME NEW a \in Int, NEW b \in Int, NEW S \in SUBSET (a..b)
  PROVE  IsFiniteSet(S) /\ S \subseteq Int
<1> DEFINE interval == a..b
<1>1. IsFiniteSet(interval) /\ S \in SUBSET interval /\ interval \subseteq Int
  BY FS_Interval
<1> HIDE DEF interval
<1>2. IsFiniteSet(S)
  BY <1>1, FS_Subset
<1> QED
  BY <1>1, <1>2
\* So it is for the places up to some limit.
Within(S, n) == n \in Nat /\ S \in SUBSET (0..n)

LEMMA WithinFacts ==
  ASSUME NEW S, NEW n, Within(S, n)
  PROVE  /\ IsFiniteSet(S) /\ S \in SUBSET Int
         /\ S # {} => Min(S) \in S /\ Max(S) \in S
<1>1. n \in Int /\ 0 \in Int /\ S \in SUBSET (0..n)
  BY DEF Within
<1>2. IsFiniteSet(S) /\ S \in SUBSET Int
  BY <1>1, RangeFinite
<1> QED
  BY <1>2, MinFacts, MaxFacts
=============================================================================
