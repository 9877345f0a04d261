--------------------------- MODULE CacheListProofs ---------------------------
(***************************************************************************)
(* Proofs about CacheList.tla.                                             *)
(***************************************************************************)
EXTENDS CacheList, WellFoundedInduction, TLAPS

\* What insertion before position k does to a list of rows.
LEMMA InsertAtElements ==
  ASSUME NEW s \in Seq(Row), NEW e \in Row, NEW k \in 1..(Len(s) + 1)
  PROVE  /\ InsertAt(s, k, e) \in Seq(Row)
         /\ Len(InsertAt(s, k, e)) = Len(s) + 1
         /\ \A j \in 1..(Len(s) + 1) :
              InsertAt(s, k, e)[j] = IF j < k THEN s[j]
                                     ELSE IF j = k THEN e ELSE s[j - 1]
<1> DEFINE front == SubSeq(s, 1, k - 1)
           head == front \o <<e>>
           back == SubSeq(s, k, Len(s))
           joined == head \o back
<1>1. /\ front \in Seq(Row)
      /\ Len(front) = k - 1
      /\ \A j \in 1..(k - 1) : front[j] = s[j]
  OBVIOUS
<1>2. /\ back \in Seq(Row)
      /\ Len(back) = Len(s) + 1 - k
      /\ \A j \in 1..(Len(s) + 1 - k) : back[j] = s[k + j - 1]
  OBVIOUS
<1>3. /\ head \in Seq(Row)
      /\ Len(head) = k
      /\ \A j \in 1..k : head[j] = IF j < k THEN s[j] ELSE e
  <2> HIDE DEF front
  <2> QED  BY <1>1
<1>4. /\ joined \in Seq(Row)
      /\ Len(joined) = Len(s) + 1
      /\ \A j \in 1..(Len(s) + 1) :
           joined[j] = IF j <= k THEN head[j] ELSE back[j - k]
  <2> HIDE DEF head, back
  <2>1. joined \in Seq(Row) /\ Len(joined) = Len(s) + 1
    BY <1>2, <1>3
  <2>2. ASSUME NEW j \in 1..(Len(s) + 1)
        PROVE  joined[j] = IF j <= k THEN head[j] ELSE back[j - k]
    <3>1. j \in 1..(Len(head) + Len(back))
      BY <1>2, <1>3
    <3>2. (head \o back)[j] = IF j <= Len(head) THEN head[j] ELSE back[j - Len(head)]
      BY <1>2, <1>3, <3>1
    <3> QED  BY <1>3, <3>2
  <2> QED  BY <2>1, <2>2
<1>5. InsertAt(s, k, e) = joined
  BY DEF InsertAt
<1>6. \A j \in 1..(Len(s) + 1) :
        joined[j] = IF j < k THEN s[j] ELSE IF j = k THEN e ELSE s[j - 1]
  <2> HIDE DEF head, back, joined
  <2>1. TAKE j \in 1..(Len(s) + 1)
  <2>2. CASE j <= k
    BY <1>3, <1>4, <2>2
  <2>3. CASE j > k
    <3>1. j - k \in 1..(Len(s) + 1 - k)
      BY <2>3
    <3>2. back[j - k] = s[k + (j - k) - 1]
      BY <1>2, <3>1
    <3> QED  BY <1>4, <2>3, <3>2
  <2> QED  BY <2>2, <2>3
<1> QED  BY <1>4, <1>5, <1>6

\* A set of naturals that is not empty has a least element.
LEMMA LeastNatural ==
  ASSUME NEW T, T \subseteq Nat, T # {}
  PROVE  \E n \in T : \A i \in T : n <= i
<1>1. \E n \in T : \A i \in T : <<i, n>> \notin OpToRel(<, Nat)
  BY WFMin, NatLessThanWellFounded, Zenon
<1>2. \A i, n \in Nat : <<i, n>> \notin OpToRel(<, Nat) => ~(i < n)
  BY Zenon DEF OpToRel
<1>3. \A i, n \in Nat : ~(i < n) => n <= i
  OBVIOUS
<1> QED  BY <1>1, <1>2, <1>3

LEMMA RowFields ==
  ASSUME NEW c \in Row
  PROVE  c.rating \in Int /\ c.time \in Nat
BY ListAssumption DEF Row

\* Where the first loop of add_to_cache_list() stops.
LEMMA FirstNotBetterStops ==
  ASSUME NEW s \in Seq(Row), NEW c \in Row
  PROVE  LET h == FirstNotBetter(s, c)
         IN  /\ h \in 1..(Len(s) + 1)
             /\ \A i \in 1..(h - 1) : s[i].rating > c.rating
             /\ h <= Len(s) => s[h].rating <= c.rating
<1> DEFINE T == {i \in DOMAIN s : s[i].rating <= c.rating}
<1> DOMAIN s = 1..Len(s) /\ Len(s) \in Nat
  OBVIOUS
<1>1. \A i \in DOMAIN s : ~(s[i].rating <= c.rating) => s[i].rating > c.rating
  BY RowFields
<1>2. CASE T = {}
  BY <1>1, <1>2 DEF FirstNotBetter
<1>3. CASE T # {}
  <2>0. T \subseteq Nat
    OBVIOUS
  <2>1. PICK n \in T : \A i \in T : n <= i
    <3> HIDE DEF T
    <3> QED  BY <1>3, <2>0, LeastNatural
  <2>2. \A j \in 1..(n - 1) : s[j].rating > c.rating
    BY <1>1, <2>1
  <2> DEFINE First(i) == /\ s[i].rating <= c.rating
                         /\ \A j \in 1..(i - 1) : s[j].rating > c.rating
  <2>3. n \in DOMAIN s /\ First(n)
    BY <2>1, <2>2
  <2>4. /\ (CHOOSE i \in DOMAIN s : First(i)) \in DOMAIN s
        /\ First(CHOOSE i \in DOMAIN s : First(i))
    <3> HIDE DEF First
    <3> QED  BY <2>3
  <2>5. FirstNotBetter(s, c) = CHOOSE i \in DOMAIN s : First(i)
    BY <2>3 DEF FirstNotBetter
  <2> HIDE DEF FirstNotBetter
  <2> QED  BY <2>4, <2>5
<1> QED  BY <1>2, <1>3

\* A row that is not older than the listed ones goes before the first one that is not
\* rated better: the second loop never starts.
LEMMA TimelyPlace ==
  ASSUME NEW s \in Seq(Row), NEW c \in Row,
         \A i \in DOMAIN s : s[i].time <= c.time
  PROVE  Place(s, c) = FirstNotBetter(s, c)
<1> DEFINE h == FirstNotBetter(s, c)
           Stop(k) == WalkEnds(s, c, h, k) /\ \A i \in h..(k - 1) : ~WalkEnds(s, c, h, i)
<1> DOMAIN s = 1..Len(s) /\ Len(s) \in Nat
  OBVIOUS
<1>1. h \in 1..(Len(s) + 1)
  BY FirstNotBetterStops
<1>2. CASE h = Len(s) + 1
  BY <1>2 DEF Place
<1>3. CASE h # Len(s) + 1
  <2> HIDE DEF h
  <2>1. ~Younger(s[h], c)
    BY <1>1, <1>3, RowFields DEF Younger
  <2>2. WalkEnds(s, c, h, h)
    BY <1>1, <1>3, <2>1 DEF WalkEnds
  <2>3. h \in h..(Len(s) + 1) /\ Stop(h)
    BY <1>1, <2>2
  <2>4. \A k \in h..(Len(s) + 1) : Stop(k) => k = h
    BY <1>1, <2>2
  <2>5. (CHOOSE k \in h..(Len(s) + 1) : Stop(k)) = h
    <3> HIDE DEF Stop
    <3> QED  BY <2>3, <2>4
  <2> QED  BY <1>3, <2>5 DEF Place, h
<1> QED  BY <1>2, <1>3

\* The second loop stops somewhere, whatever is listed.
LEMMA WalkStops ==
  ASSUME NEW s \in Seq(Row), NEW c \in Row, NEW h \in 1..Len(s)
  PROVE  \E k \in h..(Len(s) + 1) : WalkEnds(s, c, h, k)
<1> DEFINE Leaves(k) == \/ k = Len(s) + 1
                        \/ s[k].rating # s[h].rating
                        \/ ~Younger(s[k], c)
           T == {k \in h..(Len(s) + 1) : Leaves(k)}
<1> Len(s) \in Nat
  OBVIOUS
<1>1. PICK m \in T : \A i \in T : m <= i
  <2>1. T \subseteq Nat /\ Len(s) + 1 \in T
    OBVIOUS
  <2> HIDE DEF T
  <2> QED  BY <2>1, LeastNatural
<1>2. \A i \in h..(m - 1) : s[i].rating = s[h].rating /\ Younger(s[i], c)
  BY <1>1
<1>3. CASE m = Len(s) + 1
  BY <1>1, <1>2, <1>3 DEF WalkEnds
<1>4. CASE m # Len(s) + 1 /\ s[m].rating = s[h].rating
  BY <1>1, <1>2, <1>4 DEF WalkEnds
<1>5. CASE m # Len(s) + 1 /\ s[m].rating # s[h].rating
  <2>1. m - 1 \in h..(Len(s) + 1) /\ m - 1 < Len(s) /\ (m - 1) + 1 = m
    BY <1>1, <1>5
  <2>2. WalkEnds(s, c, h, m - 1)
    BY <1>2, <1>5, <2>1 DEF WalkEnds
  <2> QED  BY <2>1, <2>2
<1> QED  BY <1>3, <1>4, <1>5

\* Where add_to_cache_list() puts a row.
LEMMA PlaceStops ==
  ASSUME NEW s \in Seq(Row), NEW c \in Row
  PROVE  LET h == FirstNotBetter(s, c)
         IN  /\ Place(s, c) \in 1..(Len(s) + 1)
             /\ h <= Len(s) => WalkEnds(s, c, h, Place(s, c))
<1> DEFINE h == FirstNotBetter(s, c)
           T == {k \in h..(Len(s) + 1) : WalkEnds(s, c, h, k)}
           Stop(k) == WalkEnds(s, c, h, k) /\ \A i \in h..(k - 1) : ~WalkEnds(s, c, h, i)
<1> Len(s) \in Nat
  OBVIOUS
<1>1. h \in 1..(Len(s) + 1)
  BY FirstNotBetterStops
<1>2. CASE h = Len(s) + 1
  BY <1>1, <1>2 DEF Place
<1>3. CASE h # Len(s) + 1
  <2> HIDE DEF h
  <2>1. h \in 1..Len(s)
    BY <1>1, <1>3
  <2>2. \E k \in h..(Len(s) + 1) : WalkEnds(s, c, h, k)
    BY <2>1, WalkStops
  <2>3. T \subseteq Nat /\ T # {}
    BY <2>1, <2>2
  <2>4. PICK n \in T : \A i \in T : n <= i
    <3> HIDE DEF T
    <3> QED  BY <2>3, LeastNatural
  <2>5. n \in h..(Len(s) + 1) /\ Stop(n)
    BY <1>1, <2>4
  <2>6. /\ (CHOOSE k \in h..(Len(s) + 1) : Stop(k)) \in h..(Len(s) + 1)
        /\ Stop(CHOOSE k \in h..(Len(s) + 1) : Stop(k))
    <3> HIDE DEF Stop
    <3> QED  BY <2>5
  <2>7. Place(s, c) = CHOOSE k \in h..(Len(s) + 1) : Stop(k)
    BY <1>3 DEF Place, h
  <2>8. Place(s, c) \in h..(Len(s) + 1) /\ Stop(Place(s, c))
    BY <2>6, <2>7
  <2> QED  BY <1>1, <2>8 DEF h
<1> QED  BY <1>2, <1>3

\* Adding a row gives a list of rows that is one longer.
LEMMA AddedElements ==
  ASSUME NEW s \in Seq(Row), NEW c \in Row
  PROVE  LET p == Place(s, c)
         IN  /\ p \in 1..(Len(s) + 1)
             /\ Added(s, c) \in Seq(Row)
             /\ Len(Added(s, c)) = Len(s) + 1
             /\ \A j \in 1..(Len(s) + 1) :
                  Added(s, c)[j] = IF j < p THEN s[j] ELSE IF j = p THEN c ELSE s[j - 1]
<1>1. Place(s, c) \in 1..(Len(s) + 1)
  BY PlaceStops
<1>2. Added(s, c) = InsertAt(s, Place(s, c), c)
  BY DEF Added
<1> DEFINE p == Place(s, c)
<1>3. p \in 1..(Len(s) + 1)
  BY <1>1
<1> HIDE DEF p
<1>4. /\ InsertAt(s, p, c) \in Seq(Row)
      /\ Len(InsertAt(s, p, c)) = Len(s) + 1
      /\ \A j \in 1..(Len(s) + 1) :
           InsertAt(s, p, c)[j] = IF j < p THEN s[j] ELSE IF j = p THEN c ELSE s[j - 1]
  BY <1>3, InsertAtElements
<1> QED  BY <1>1, <1>2, <1>4 DEF p

LEMMA Reversal ==
  ASSUME NEW s \in Seq(Row)
  PROVE  Prepended(s) \in Seq(Row) /\ Len(Prepended(s)) = Len(s)
BY DEF Prepended, Reverse

-----------------------------------------------------------------------------
LEMMA TypeInit == Init => TypeOK
BY ListAssumption DEF Init, TypeOK

LEMMA TypeStep == TypeOK /\ [Next]_vars => TypeOK'
<1> SUFFICES ASSUME TypeOK, [Next]_vars
             PROVE  TypeOK'
  OBVIOUS
<1> USE ListAssumption DEF TypeOK
<1>1. ASSUME NEW c \in Row, SelectRow(c)
      PROVE  TypeOK'
  <2>1. Added(list, c) \in Seq(Row) /\ Len(Added(list, c)) = Len(list) + 1
    BY AddedElements
  <2>2. Len(list) + 1 <= Number
    BY <1>1 DEF SelectRow, Room
  <2> QED  BY <1>1, <2>1, <2>2 DEF SelectRow
<1>2. CASE LookupEnds
  BY <1>2 DEF LookupEnds
<1>3. CASE ProviderConverts
  BY <1>3, Reversal DEF ProviderConverts
<1>4. CASE OfflineAccepts
  BY <1>4, Reversal DEF OfflineAccepts
<1>5. CASE Commit
  BY <1>5, Reversal DEF Commit
<1>6. CASE UNCHANGED vars
  BY <1>6 DEF vars
<1> QED  BY <1>1, <1>2, <1>3, <1>4, <1>5, <1>6 DEF Next, Pass

\* The list always consists of rows, and of at most query->number of them.
THEOREM ListTypes == Spec => []TypeOK
<1> QED  BY TypeInit, TypeStep, PTL DEF Spec

-----------------------------------------------------------------------------
\* The invariant of lookups whose rows come in the order of their times.
SortInv == TypeOK /\ LookupSorted

\* A row that is not older than the listed ones keeps the list sorted.
LEMMA TimelyAdd ==
  ASSUME NEW s \in Seq(Row), NEW c \in Row, Sorted(s),
         \A i \in DOMAIN s : s[i].time <= c.time
  PROVE  Sorted(Added(s, c))
<1> DEFINE h == FirstNotBetter(s, c)
           t == Added(s, c)
<1> Len(s) \in Nat /\ DOMAIN s = 1..Len(s)
  OBVIOUS
<1>1. /\ h \in 1..(Len(s) + 1)
      /\ \A i \in 1..(h - 1) : s[i].rating > c.rating
      /\ h <= Len(s) => s[h].rating <= c.rating
  BY FirstNotBetterStops
<1>2. /\ DOMAIN t = 1..(Len(s) + 1)
      /\ \A j \in 1..(Len(s) + 1) :
           t[j] = IF j < h THEN s[j] ELSE IF j = h THEN c ELSE s[j - 1]
  <2>1. Place(s, c) = h
    BY TimelyPlace
  <2>2. /\ t \in Seq(Row)
        /\ Len(t) = Len(s) + 1
        /\ \A j \in 1..(Len(s) + 1) :
             t[j] = IF j < h THEN s[j] ELSE IF j = h THEN c ELSE s[j - 1]
    BY <2>1, AddedElements
  <2> HIDE DEF t
  <2> QED  BY <2>2
<1> HIDE DEF h, t
<1>3. \A i \in 1..Len(s) : s[i].rating \in Int /\ s[i].time \in Nat
  BY RowFields
<1>4. c.rating \in Int /\ c.time \in Nat
  BY RowFields
<1>5. \A i \in 1..Len(s) : h <= i => s[i].rating <= c.rating
  BY <1>1, <1>3, <1>4 DEF Sorted
<1>6. ASSUME NEW i \in DOMAIN t, NEW j \in DOMAIN t, i < j
      PROVE  \/ t[i].rating > t[j].rating
             \/ t[i].rating = t[j].rating /\ t[i].time >= t[j].time
  <2>1. CASE j < h
    BY <1>1, <1>2, <1>6, <2>1 DEF Sorted
  <2>2. CASE j = h
    BY <1>1, <1>2, <1>6, <2>2
  <2>3. CASE i < h /\ h < j
    <3>1. t[i] = s[i] /\ t[j] = s[j - 1] /\ i \in 1..Len(s) /\ j - 1 \in 1..Len(s) /\ i < j - 1
      BY <1>1, <1>2, <1>6, <2>3
    <3> QED  BY <3>1 DEF Sorted
  <2>4. CASE i = h
    <3>1. t[i] = c /\ t[j] = s[j - 1] /\ j - 1 \in 1..Len(s) /\ h <= j - 1
      BY <1>1, <1>2, <1>6, <2>4
    <3>2. s[j - 1].rating <= c.rating /\ s[j - 1].time <= c.time
      BY <1>5, <3>1
    <3> QED  BY <1>3, <1>4, <3>1, <3>2
  <2>5. CASE h < i
    <3>1. t[i] = s[i - 1] /\ t[j] = s[j - 1] /\ i - 1 \in 1..Len(s) /\ j - 1 \in 1..Len(s) /\ i - 1 < j - 1
      BY <1>1, <1>2, <1>6, <2>5
    <3> QED  BY <3>1 DEF Sorted
  <2> QED  BY <1>1, <1>2, <1>6, <2>1, <2>2, <2>3, <2>4, <2>5
<1> QED  BY <1>6 DEF Sorted, t

LEMMA SortStep == SortInv /\ [Next]_vars => SortInv'
<1> SUFFICES ASSUME SortInv, [Next]_vars
             PROVE  SortInv'
  OBVIOUS
<1>1. TypeOK'
  BY TypeStep DEF SortInv
<1>2. LookupSorted'
  <2> USE DEF SortInv, LookupSorted
  <2>1. ASSUME NEW c \in Row, SelectRow(c)
        PROVE  LookupSorted'
    <3>1. timely' => Sorted(Added(list, c))
      BY <2>1, TimelyAdd DEF TypeOK, SelectRow
    <3> QED  BY <2>1, <3>1 DEF SelectRow
  <2>2. CASE LookupEnds
    BY <2>2 DEF LookupEnds
  <2>3. CASE ProviderConverts \/ OfflineAccepts \/ Commit
    BY <2>3 DEF ProviderConverts, OfflineAccepts, Commit
  <2>4. CASE UNCHANGED vars
    BY <2>4 DEF vars
  <2> QED  BY <2>1, <2>2, <2>3, <2>4 DEF Next, Pass
<1> QED  BY <1>1, <1>2 DEF SortInv

\* If SQLite hands out the rows in the order of their timestamps, what glyr_db_lookup()
\* returns is sorted by rating and, within a rating, by time.
THEOREM TimelyLookupSorted == Spec => []LookupSorted
<1>1. Init => SortInv
  BY TypeInit DEF Init, SortInv, LookupSorted, Sorted
<1>2. SortInv => LookupSorted
  BY DEF SortInv
<1> QED  BY <1>1, <1>2, SortStep, PTL DEF Spec

-----------------------------------------------------------------------------
Unrated(s) == \A i, j \in DOMAIN s : s[i].rating = s[j].rating

\* The invariant of a lookup whose rows come in any order.
UnratedInv ==
  /\ TypeOK
  /\ stage = "lookup" => (Unrated(list) => Sorted(list))
  /\ Unrated(found) => Sorted(found)

\* Among equal ratings the place of a row depends on the times only.
LEMMA UnratedAdd ==
  ASSUME NEW s \in Seq(Row), NEW c \in Row, Unrated(s) => Sorted(s),
         Unrated(Added(s, c))
  PROVE  Sorted(Added(s, c))
<1> DEFINE h == FirstNotBetter(s, c)
           p == Place(s, c)
           t == Added(s, c)
<1> Len(s) \in Nat /\ DOMAIN s = 1..Len(s)
  OBVIOUS
<1>1. /\ p \in 1..(Len(s) + 1)
      /\ h <= Len(s) => WalkEnds(s, c, h, p)
  BY PlaceStops
<1>2. /\ DOMAIN t = 1..(Len(s) + 1)
      /\ \A j \in 1..(Len(s) + 1) :
           t[j] = IF j < p THEN s[j] ELSE IF j = p THEN c ELSE s[j - 1]
  <2>1. /\ t \in Seq(Row)
        /\ Len(t) = Len(s) + 1
        /\ \A j \in 1..(Len(s) + 1) :
             t[j] = IF j < p THEN s[j] ELSE IF j = p THEN c ELSE s[j - 1]
    BY AddedElements
  <2> HIDE DEF t
  <2> QED  BY <2>1
<1>3. /\ h \in 1..(Len(s) + 1)
      /\ \A i \in 1..(h - 1) : s[i].rating > c.rating
  BY FirstNotBetterStops
<1>4. Unrated(t)
  OBVIOUS
<1> HIDE DEF h, p, t
<1>5. \A i \in 1..Len(s) : s[i].rating \in Int /\ s[i].time \in Nat
  BY RowFields
<1>6. c.rating \in Int /\ c.time \in Nat
  BY RowFields
<1>7. \A i \in 1..Len(s) : s[i].rating = c.rating
  <2>1. TAKE i \in 1..Len(s)
  <2>2. \E j \in DOMAIN t : t[j] = s[i]
    <3>1. CASE i < p
      BY <1>1, <1>2, <3>1
    <3>2. CASE ~(i < p)
      <4>1. i + 1 \in 1..(Len(s) + 1) /\ ~(i + 1 < p) /\ i + 1 # p /\ (i + 1) - 1 = i
        BY <1>1, <3>2
      <4> QED  BY <1>2, <4>1
    <3> QED  BY <3>1, <3>2
  <2>3. p \in DOMAIN t /\ t[p] = c
    BY <1>1, <1>2
  <2> QED  BY <1>4, <2>2, <2>3 DEF Unrated
<1>8. Sorted(s)
  BY <1>7 DEF Unrated
<1>9. h = 1
  <2>1. SUFFICES ASSUME h # 1
                 PROVE  FALSE
    OBVIOUS
  <2>2. 1 \in 1..(h - 1) /\ 1 \in 1..Len(s)
    BY <1>3, <2>1
  <2> QED  BY <1>3, <1>6, <1>7, <2>2
<1>10. \A i \in 1..(p - 1) : s[i].time > c.time
  BY <1>1, <1>9 DEF WalkEnds, Younger
<1>11. \A i \in p..Len(s) : s[i].time <= c.time
  <2>1. TAKE i \in p..Len(s)
  <2>2. ~Younger(s[p], c)
    <3>1. WalkEnds(s, c, 1, p) /\ p \in 1..Len(s) /\ 1 \in 1..Len(s)
      BY <1>1, <1>9
    <3>2. p < Len(s) => s[p + 1].rating = s[1].rating
      BY <1>7, <3>1
    <3> QED  BY <3>1, <3>2 DEF WalkEnds
  <2>3. s[p].time <= c.time
    BY <1>1, <1>5, <1>6, <2>2 DEF Younger
  <2>4. s[p].time >= s[i].time
    BY <1>1, <1>5, <1>7, <1>8 DEF Sorted
  <2> QED  BY <1>1, <1>5, <1>6, <2>3, <2>4
<1>12. ASSUME NEW i \in DOMAIN t, NEW j \in DOMAIN t, i < j
      PROVE  t[i].rating = t[j].rating /\ t[i].time >= t[j].time
  <2>1. t[i].rating = t[j].rating
    BY <1>4 DEF Unrated
  <2>2. CASE j < p
    BY <1>1, <1>2, <1>5, <1>7, <1>8, <1>12, <2>2 DEF Sorted
  <2>3. CASE j = p
    <3>1. t[i] = s[i] /\ t[j] = c /\ i \in 1..(p - 1) /\ i \in 1..Len(s)
      BY <1>1, <1>2, <1>12, <2>3
    <3>2. s[i].time > c.time
      BY <1>10, <3>1
    <3>3. s[i].time >= c.time
      BY <1>5, <1>6, <3>1, <3>2
    <3> QED  BY <2>1, <3>1, <3>3
  <2>4. CASE i < p /\ p < j
    <3>1. t[i] = s[i] /\ t[j] = s[j - 1] /\ i \in 1..Len(s) /\ j - 1 \in 1..Len(s) /\ i < j - 1
      BY <1>1, <1>2, <1>12, <2>4
    <3> QED  BY <1>5, <1>7, <1>8, <2>1, <3>1 DEF Sorted
  <2>5. CASE i = p
    <3>1. t[i] = c /\ t[j] = s[j - 1] /\ j - 1 \in p..Len(s) /\ j - 1 \in 1..Len(s)
      BY <1>1, <1>2, <1>12, <2>5
    <3>2. s[j - 1].time <= c.time
      BY <1>11, <3>1
    <3>3. c.time >= s[j - 1].time
      BY <1>5, <1>6, <3>1, <3>2
    <3> QED  BY <2>1, <3>1, <3>3
  <2>6. CASE p < i
    <3>1. t[i] = s[i - 1] /\ t[j] = s[j - 1] /\ i - 1 \in 1..Len(s) /\ j - 1 \in 1..Len(s) /\ i - 1 < j - 1
      BY <1>1, <1>2, <1>12, <2>6
    <3> QED  BY <1>5, <1>7, <1>8, <2>1, <3>1 DEF Sorted
  <2> QED  BY <1>1, <1>2, <1>12, <2>1, <2>2, <2>3, <2>4, <2>5, <2>6
<1>13. Sorted(t)
  BY <1>12 DEF Sorted
<1> QED  BY <1>13 DEF t

LEMMA UnratedStep == UnratedInv /\ [Next]_vars => UnratedInv'
<1> SUFFICES ASSUME UnratedInv, [Next]_vars
             PROVE  UnratedInv'
  OBVIOUS
<1>1. TypeOK'
  BY TypeStep DEF UnratedInv
<1>2. (/\ stage = "lookup" => (Unrated(list) => Sorted(list))
       /\ Unrated(found) => Sorted(found))'
  <2> USE DEF UnratedInv
  <2>1. ASSUME NEW c \in Row, SelectRow(c)
        PROVE  (/\ stage = "lookup" => (Unrated(list) => Sorted(list))
                /\ Unrated(found) => Sorted(found))'
    <3>1. Unrated(Added(list, c)) => Sorted(Added(list, c))
      BY <2>1, UnratedAdd DEF TypeOK, SelectRow
    <3> QED  BY <2>1, <3>1 DEF SelectRow
  <2>2. CASE LookupEnds
    BY <2>2 DEF LookupEnds
  <2>3. CASE ProviderConverts \/ OfflineAccepts \/ Commit
    BY <2>3 DEF ProviderConverts, OfflineAccepts, Commit
  <2>4. CASE UNCHANGED vars
    BY <2>4 DEF vars
  <2> QED  BY <2>1, <2>2, <2>3, <2>4 DEF Next, Pass
<1> QED  BY <1>1, <1>2 DEF UnratedInv

\* If all caches are rated alike, which is so for an application that never rates, what
\* glyr_db_lookup() returns is sorted by time in whatever order SQLite hands out the rows.
THEOREM UnratedLookupSorted == Spec => []UnratedSorted
<1>1. Init => UnratedInv
  BY TypeInit DEF Init, UnratedInv, Sorted
<1>2. UnratedInv => UnratedSorted
  BY DEF UnratedInv, UnratedSorted, Unrated
<1> QED  BY <1>1, <1>2, UnratedStep, PTL DEF Spec

-----------------------------------------------------------------------------
LEMMA TwiceReversed ==
  ASSUME NEW s \in Seq(Row)
  PROVE  Reverse(Reverse(s)) = s
<1>1. /\ s = [i \in 1..Len(s) |-> s[i]]
      /\ Len(s) \in Nat
  OBVIOUS
<1>2. Reverse(s) = [i \in 1..Len(s) |-> s[Len(s) - i + 1]]
  BY DEF Reverse
<1>3. Reverse(s) \in Seq(Row) /\ Len(Reverse(s)) = Len(s)
  BY <1>1, <1>2
<1>4. Reverse(Reverse(s)) = [i \in 1..Len(s) |-> Reverse(s)[Len(s) - i + 1]]
  BY <1>3 DEF Reverse
<1>5. \A i \in 1..Len(s) : Reverse(s)[Len(s) - i + 1] = s[i]
  <2> TAKE i \in 1..Len(s)
  <2>1. Len(s) - i + 1 \in 1..Len(s) /\ Len(s) - (Len(s) - i + 1) + 1 = i
    BY <1>1
  <2> QED  BY <1>2, <2>1
<1> QED  BY <1>1, <1>4, <1>5

\* Which way round the list is, by who holds it.
TurnInv ==
  /\ TypeOK
  /\ stage \in {"provider", "commit"} => list = found
  /\ stage \in {"offline", "answer"} => list = Reverse(found)

LEMMA TurnStep == TurnInv /\ [Next]_vars => TurnInv'
<1> SUFFICES ASSUME TurnInv, [Next]_vars
             PROVE  TurnInv'
  OBVIOUS
<1> USE DEF TurnInv
<1>1. TypeOK'
  BY TypeStep
<1>2. Reverse(Reverse(found)) = found
  BY TwiceReversed DEF TypeOK
<1>3. ASSUME NEW c \in Row, SelectRow(c)
      PROVE  TurnInv'
  BY <1>1, <1>3 DEF SelectRow
<1>4. CASE LookupEnds
  BY <1>1, <1>4 DEF LookupEnds
<1>5. CASE ProviderConverts \/ OfflineAccepts \/ Commit
  BY <1>1, <1>2, <1>5 DEF ProviderConverts, OfflineAccepts, Commit, Prepended
<1>6. CASE UNCHANGED vars
  BY <1>1, <1>6 DEF vars
<1> QED  BY <1>3, <1>4, <1>5, <1>6 DEF Next, Pass

\* What glyr_get() answers from the database is the list of the lookup backwards: three
\* loops turn it around.
THEOREM AnswerIsReversed == Spec => []AnswerReversed
<1>1. Init => TurnInv
  BY TypeInit DEF Init, TurnInv
<1>2. TurnInv => AnswerReversed
  BY DEF TurnInv, AnswerReversed
<1> QED  BY <1>1, <1>2, TurnStep, PTL DEF Spec
=============================================================================
