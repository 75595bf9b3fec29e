--------------------------- MODULE SegmentProofs ---------------------------
(***************************************************************************)
(* What the SSTable's files and levels return, and what merge_sort takes   *)
(* from its buffers, for segments of any number and length and every size of*)
(* the read buffers (storage_engine/sstable/level.rs, level/segment.rs).   *)
(*                                                                         *)
(* First lookups: SegmentIndex::find with its binary search, Segment::get, *)
(* the get of a level.  Then merge_sort: a round takes from the front of its*)
(* buffers, and of one or two buffers each call takes something (Served).  *)
(***************************************************************************)
EXTENDS Merge, OrderingProofs, SequenceTheorems, WellFoundedInduction, TLAPS

-----------------------------------------------------------------------------
(* Sets of naturals have a least element, bounded ones a greatest.         *)

LEMMA LeastExists ==
    ASSUME NEW S \in SUBSET Nat, S # {}
    PROVE  \E m \in S : \A i \in S : m <= i
<1>1. PICK m \in S : \A i \in S : ~(<<i, m>> \in OpToRel(<, Nat))
  BY WFMin, NatLessThanWellFounded
<1>2. ASSUME NEW i \in S PROVE m <= i
  <2>1. i \in Nat /\ m \in Nat
    OBVIOUS
  <2>2. ~(<<i, m>> \in OpToRel(<, Nat))
    BY <1>1
  <2>3. ~(i < m)
    BY <2>1, <2>2 DEF OpToRel
  <2> QED  BY <2>1, <2>3
<1> QED  BY <1>2

LEMMA MinLeast ==
    ASSUME NEW S \in SUBSET Nat, S # {}
    PROVE  Min(S) \in S /\ \A i \in S : Min(S) <= i
BY LeastExists DEF Min

LEMMA GreatestExists ==
    ASSUME NEW n \in Nat, NEW S \in SUBSET (0 .. n), S # {}
    PROVE  \E m \in S : \A i \in S : i <= m
<1> DEFINE T == {n - i : i \in S}
<1>1. T \subseteq Nat /\ T # {}
  <2>1. \A i \in S : n - i \in Nat
    OBVIOUS
  <2> QED  BY <2>1
<1>2. PICK d \in T : \A e \in T : d <= e
  <2> HIDE DEF T
  <2> QED  BY <1>1, LeastExists
<1>3. PICK m \in S : d = n - m
  OBVIOUS
<1>4. ASSUME NEW i \in S PROVE i <= m
  <2>1. n - i \in T
    OBVIOUS
  <2> HIDE DEF T
  <2> QED  BY <1>2, <1>3, <2>1
<1> QED  BY <1>4

-----------------------------------------------------------------------------
(* Sorted segments                                                          *)

EntryType == [key : Nat, seq : Nat, size : Nat]

Sorted(entries) ==
    \A i, j \in 1 .. Len(entries) : i < j => entries[i].key < entries[j].key

(* A segment file as its writers leave it.                                   *)
SortedSegment(s) ==
    /\ s.entries \in Seq(EntryType)
    /\ Sorted(s.entries)
    /\ s.index \in Seq(1 .. Len(s.entries))
    /\ \A i, j \in 1 .. Len(s.index) : i < j => s.index[i] < s.index[j]

LEMMA AscendingSorted ==
    ASSUME NEW e, Len(e) \in Nat, \A i \in 1 .. Len(e) : e[i].key \in Nat, Ascending(e)
    PROVE  Sorted(e)
<1> SUFFICES ASSUME NEW i \in 1 .. Len(e), NEW k \in 1 .. Len(e), i < k, ~(e[i].key < e[k].key)
             PROVE  FALSE
  BY DEF Sorted
<1> DEFINE bad == {j \in 1 .. Len(e) : i < j /\ ~(e[i].key < e[j].key)}
<1>1. bad \in SUBSET Nat /\ k \in bad
  OBVIOUS
<1>2. PICK j \in bad : \A m \in bad : j <= m
  <2> HIDE DEF bad
  <2> QED  BY <1>1, LeastExists
<1>3. j \in 1 .. Len(e) /\ i < j /\ ~(e[i].key < e[j].key) /\ j - 1 \notin bad
  BY <1>2
<1>4. j - 1 \in 1 .. Len(e) - 1 /\ e[j - 1].key < e[j].key
  BY <1>3 DEF Ascending
<1>5. e[i].key < e[j - 1].key \/ j - 1 = i
  BY <1>3, <1>4
<1>6. e[i].key \in Nat /\ e[j].key \in Nat /\ e[j - 1].key \in Nat
  BY <1>3, <1>4
<1> QED  BY <1>3, <1>4, <1>5, <1>6

-----------------------------------------------------------------------------
(* The binary search                                                        *)

(* The equation that defines the search of binary_search.                    *)
SearchEquation(f, s, key) ==
    f = [b \in (1 .. Len(s.index)) \X (1 .. Len(s.index)) |->
            LET m == (b[1] + b[2] - 2) \div 2 + 2 IN
            IF b[1] >= b[2] THEN b[1]
            ELSE IF IndexKey(s, m) <= key THEN f[<<m, b[2]>>]
            ELSE f[<<b[1], m - 1>>]]

(* What the search is to find between l and r: the last indexed key that is  *)
(* not larger, or l.                                                         *)
FoundBetween(s, key, j, l, r) ==
    /\ j \in l .. r
    /\ j = l \/ IndexKey(s, j) <= key
    /\ j < r => key < IndexKey(s, j + 1)

(* A segment with an index, whose keys then ascend.                          *)
LEMMA IndexAscends ==
    ASSUME NEW s, SortedSegment(s)
    PROVE  /\ Len(s.index) \in Nat
           /\ \A i \in 1 .. Len(s.index) : IndexKey(s, i) \in Nat
           /\ \A i, j \in 1 .. Len(s.index) : i < j => IndexKey(s, i) < IndexKey(s, j)
<1>1. \A i \in 1 .. Len(s.index) : s.index[i] \in 1 .. Len(s.entries)
  BY DEF SortedSegment
<1>2. ASSUME NEW i \in 1 .. Len(s.entries) PROVE s.entries[i].key \in Nat
  <2>1. s.entries[i] \in EntryType
    BY DEF SortedSegment
  <2> QED  BY <2>1 DEF EntryType
<1>3. \A i \in 1 .. Len(s.index) : IndexKey(s, i) \in Nat
  BY <1>1, <1>2 DEF IndexKey
<1>4. ASSUME NEW i \in 1 .. Len(s.index), NEW j \in 1 .. Len(s.index), i < j
      PROVE  IndexKey(s, i) < IndexKey(s, j)
  <2>1. s.index[i] < s.index[j]
    BY <1>4 DEF SortedSegment
  <2> QED  BY <1>1, <2>1 DEF SortedSegment, Sorted, IndexKey
<1>5. Len(s.index) \in Nat
  BY DEF SortedSegment
<1> QED  BY <1>3, <1>4, <1>5

LEMMA FoundExists ==
    ASSUME NEW s, SortedSegment(s), NEW key \in Nat,
           NEW l \in 1 .. Len(s.index), NEW r \in 1 .. Len(s.index), l <= r
    PROVE  \E j : FoundBetween(s, key, j, l, r)
<1> DEFINE low == {j \in l .. r : j = l \/ IndexKey(s, j) <= key}
<1>1. r \in Nat /\ low \in SUBSET (0 .. r) /\ l \in low
  OBVIOUS
<1>2. PICK j \in low : \A i \in low : i <= j
  <2> HIDE DEF low
  <2> QED  BY <1>1, GreatestExists
<1>3. j < r => j + 1 \notin low /\ j + 1 \in l .. r /\ j + 1 # l
  BY <1>2
<1>4. j < r => IndexKey(s, j + 1) \in Nat /\ ~(IndexKey(s, j + 1) <= key)
  BY <1>3, IndexAscends
<1>5. j \in l .. r /\ (j = l \/ IndexKey(s, j) <= key)
  OBVIOUS
<1>6. j < r => key < IndexKey(s, j + 1)
  BY <1>4
<1> QED  BY <1>5, <1>6 DEF FoundBetween

LEMMA FoundUnique ==
    ASSUME NEW s, SortedSegment(s), NEW key \in Nat,
           NEW l \in 1 .. Len(s.index), NEW r \in 1 .. Len(s.index), l <= r,
           NEW i, FoundBetween(s, key, i, l, r), NEW j, FoundBetween(s, key, j, l, r)
    PROVE  i = j
<1>1. ASSUME NEW a, FoundBetween(s, key, a, l, r), NEW b, FoundBetween(s, key, b, l, r), a < b
      PROVE  FALSE
  <2>1. /\ a \in 1 .. Len(s.index) /\ b \in 1 .. Len(s.index) /\ a + 1 \in 1 .. Len(s.index)
        /\ IndexKey(s, b) <= key /\ key < IndexKey(s, a + 1)
    BY <1>1, IndexAscends DEF FoundBetween
  <2>2. a + 1 = b \/ IndexKey(s, a + 1) < IndexKey(s, b)
    BY <1>1, <2>1, IndexAscends
  <2> QED  BY <2>1, <2>2, IndexAscends
<1>2. i \in Int /\ j \in Int
  BY IndexAscends DEF FoundBetween
<1>3. ~(i < j) /\ ~(j < i)
  BY <1>1
<1> QED  BY <1>2, <1>3

(* Halving the interval on the side of the key finds the same place.         *)
LEMMA FoundHalf ==
    ASSUME NEW s, SortedSegment(s), NEW key \in Nat,
           NEW l \in 1 .. Len(s.index), NEW r \in 1 .. Len(s.index), l < r,
           NEW m, m = (l + r - 2) \div 2 + 2
    PROVE  /\ m \in l + 1 .. r /\ m \in 1 .. Len(s.index) /\ m - 1 \in 1 .. Len(s.index)
           /\ IndexKey(s, m) <= key =>
                 \A j : FoundBetween(s, key, j, m, r) => FoundBetween(s, key, j, l, r)
           /\ ~(IndexKey(s, m) <= key) =>
                 \A j : FoundBetween(s, key, j, l, m - 1) => FoundBetween(s, key, j, l, r)
<1>1. m \in l + 1 .. r /\ m \in 1 .. Len(s.index) /\ m - 1 \in 1 .. Len(s.index)
  BY IndexAscends
<1>2. ASSUME IndexKey(s, m) <= key, NEW j, FoundBetween(s, key, j, m, r)
      PROVE  FoundBetween(s, key, j, l, r)
  BY <1>1, <1>2 DEF FoundBetween
<1>3. ASSUME ~(IndexKey(s, m) <= key), NEW j, FoundBetween(s, key, j, l, m - 1)
      PROVE  FoundBetween(s, key, j, l, r)
  <2>1. key < IndexKey(s, m)
    BY <1>1, <1>3, IndexAscends
  <2> QED  BY <1>1, <1>3, <2>1 DEF FoundBetween
<1> QED  BY <1>1, <1>2, <1>3

(* The equation has a solution, so that binary_search satisfies it.          *)
LEMMA SearchSolved ==
    ASSUME NEW s, SortedSegment(s), NEW key \in Nat
    PROVE  \E f : SearchEquation(f, s, key)
<1> DEFINE D == (1 .. Len(s.index)) \X (1 .. Len(s.index))
           Place(l, r) == CHOOSE j : FoundBetween(s, key, j, l, r)
           g == [b \in D |-> IF b[1] >= b[2] THEN b[1] ELSE Place(b[1], b[2])]
<1>1. ASSUME NEW l \in 1 .. Len(s.index), NEW r \in 1 .. Len(s.index), l <= r
      PROVE  FoundBetween(s, key, g[<<l, r>>], l, r)
  <2>1. CASE l = r
    <3>1. g[<<l, r>>] = l
      BY <2>1
    <3> HIDE DEF g
    <3> QED  BY <2>1, <3>1 DEF FoundBetween
  <2>2. CASE l < r
    <3>1. FoundBetween(s, key, Place(l, r), l, r)
      BY <1>1, FoundExists
    <3>2. g[<<l, r>>] = Place(l, r)
      BY <2>2
    <3> HIDE DEF g, Place
    <3> QED  BY <3>1, <3>2
  <2> QED  BY <1>1, <2>1, <2>2
<1> DEFINE Half(b) == (b[1] + b[2] - 2) \div 2 + 2
           Step(b) == IF b[1] >= b[2] THEN b[1]
                      ELSE IF IndexKey(s, Half(b)) <= key THEN g[<<Half(b), b[2]>>]
                      ELSE g[<<b[1], Half(b) - 1>>]
<1>2. ASSUME NEW l \in 1 .. Len(s.index), NEW r \in 1 .. Len(s.index)
      PROVE  g[<<l, r>>] = Step(<<l, r>>)
  <2>1. CASE l >= r
    BY <2>1
  <2>2. CASE l < r
    <3> DEFINE m == (l + r - 2) \div 2 + 2
    <3>1. /\ m \in l + 1 .. r /\ m \in 1 .. Len(s.index) /\ m - 1 \in 1 .. Len(s.index)
          /\ IndexKey(s, m) <= key =>
                \A j : FoundBetween(s, key, j, m, r) => FoundBetween(s, key, j, l, r)
          /\ ~(IndexKey(s, m) <= key) =>
                \A j : FoundBetween(s, key, j, l, m - 1) => FoundBetween(s, key, j, l, r)
      BY <2>2, FoundHalf
    <3>2. Step(<<l, r>>) = IF IndexKey(s, m) <= key THEN g[<<m, r>>] ELSE g[<<l, m - 1>>]
      <4> HIDE DEF g
      <4> QED  BY <2>2
    <3> HIDE DEF g, m, Step
    <3>3. FoundBetween(s, key, g[<<l, r>>], l, r)
      BY <1>1, <2>2
    <3>4. CASE IndexKey(s, m) <= key
      <4>1. FoundBetween(s, key, g[<<m, r>>], l, r)
        BY <1>1, <3>1, <3>4
      <4> QED  BY <2>2, <3>2, <3>3, <3>4, <4>1, FoundUnique
    <3>5. CASE ~(IndexKey(s, m) <= key)
      <4>1. FoundBetween(s, key, g[<<l, m - 1>>], l, r)
        BY <1>1, <3>1, <3>5
      <4> QED  BY <2>2, <3>2, <3>3, <3>5, <4>1, FoundUnique
    <3> QED  BY <3>4, <3>5
  <2> QED  BY <2>1, <2>2
<1>3. g = [b \in D |-> Step(b)]
  <2>1. \A b \in D : g[b] = Step(b)
    <3> HIDE DEF g, Step
    <3> QED  BY <1>2
  <2>2. g = [b \in D |-> g[b]]
    OBVIOUS
  <2> HIDE DEF g, Step, D
  <2> QED  BY <2>1, <2>2
<1>4. SearchEquation(g, s, key)
  <2> HIDE DEF g
  <2> QED  BY <1>3 DEF SearchEquation
<1> QED  BY <1>4

(* Every solution finds the place, by induction on the length of the         *)
(* interval.                                                                 *)
LEMMA SearchFinds ==
    ASSUME NEW s, SortedSegment(s), NEW key \in Nat, NEW f, SearchEquation(f, s, key),
           NEW l \in 1 .. Len(s.index), NEW r \in 1 .. Len(s.index), l <= r
    PROVE  FoundBetween(s, key, f[<<l, r>>], l, r)
<1> DEFINE Bad(d) == \E a, b \in 1 .. Len(s.index) :
                         /\ a <= b /\ d = b - a
                         /\ ~FoundBetween(s, key, f[<<a, b>>], a, b)
           bad == {d \in Nat : Bad(d)}
<1>1. CASE bad = {}
  <2>1. r - l \in Nat
    BY IndexAscends
  <2>2. r - l \notin bad
    BY <1>1, Zenon
  <2>3. ~Bad(r - l)
    BY <2>1, <2>2
  <2> QED  BY <2>3
<1>2. CASE bad # {}
  <2>1. PICK d \in bad : \A e \in bad : d <= e
    <3>1. bad \in SUBSET Nat
      OBVIOUS
    <3> HIDE DEF bad
    <3> QED  BY <1>2, <3>1, LeastExists
  <2>2. PICK a \in 1 .. Len(s.index), b \in 1 .. Len(s.index) :
          a <= b /\ d = b - a /\ ~FoundBetween(s, key, f[<<a, b>>], a, b)
    OBVIOUS
  <2>3. ASSUME NEW i \in 1 .. Len(s.index), NEW j \in 1 .. Len(s.index), i <= j, j - i < d
        PROVE  FoundBetween(s, key, f[<<i, j>>], i, j)
    <3>1. j - i \in Nat /\ d \in Nat
      BY <2>1, <2>3, IndexAscends
    <3>2. ~(d <= j - i)
      <4> HIDE DEF bad
      <4> QED  BY <2>3, <3>1
    <3>3. j - i \notin bad
      <4> HIDE DEF bad
      <4> QED  BY <2>1, <3>2
    <3>4. ~Bad(j - i)
      BY <3>1, <3>3
    <3> QED  BY <2>3, <3>4
  <2> HIDE DEF bad
  <2> DEFINE m == (a + b - 2) \div 2 + 2
  <2>4. f[<<a, b>>] = IF a >= b THEN a
                      ELSE IF IndexKey(s, m) <= key THEN f[<<m, b>>] ELSE f[<<a, m - 1>>]
    BY DEF SearchEquation
  <2>5. a \in Nat /\ b \in Nat /\ d = b - a
    BY <2>2, IndexAscends
  <2>6. CASE a = b
    BY <2>2, <2>4, <2>6 DEF FoundBetween
  <2>7. CASE a < b
    <3>1. /\ m \in a + 1 .. b /\ m \in 1 .. Len(s.index) /\ m - 1 \in 1 .. Len(s.index)
          /\ IndexKey(s, m) <= key =>
                \A j : FoundBetween(s, key, j, m, b) => FoundBetween(s, key, j, a, b)
          /\ ~(IndexKey(s, m) <= key) =>
                \A j : FoundBetween(s, key, j, a, m - 1) => FoundBetween(s, key, j, a, b)
      BY <2>7, FoundHalf
    <3> HIDE DEF m
    <3>2. CASE IndexKey(s, m) <= key
      <4>0. m <= b /\ b - m < d
        BY <2>5, <3>1
      <4>1. FoundBetween(s, key, f[<<m, b>>], m, b)
        BY <2>3, <3>1, <4>0
      <4> QED  BY <2>2, <2>4, <2>7, <3>1, <3>2, <4>1
    <3>3. CASE ~(IndexKey(s, m) <= key)
      <4>0. a <= m - 1 /\ (m - 1) - a < d
        BY <2>5, <3>1
      <4>1. FoundBetween(s, key, f[<<a, m - 1>>], a, m - 1)
        BY <2>3, <3>1, <4>0
      <4> QED  BY <2>2, <2>4, <2>7, <3>1, <3>3, <4>1
    <3> QED  BY <3>2, <3>3
  <2> QED  BY <2>2, <2>6, <2>7
<1> QED  BY <1>1, <1>2

LEMMA BinarySearch ==
    ASSUME NEW s, SortedSegment(s), NEW key \in Nat, Len(s.index) > 0
    PROVE  FoundBetween(s, key, binary_search(s, key), 1, Len(s.index))
<1> DEFINE f == CHOOSE g : SearchEquation(g, s, key)
<1>1. SearchEquation(f, s, key)
  BY SearchSolved
<1>2. binary_search(s, key) = f[<<1, Len(s.index)>>]
  BY Zenon DEF binary_search, SearchEquation
<1> HIDE DEF f
<1>3. 1 \in 1 .. Len(s.index) /\ Len(s.index) \in 1 .. Len(s.index) /\ 1 <= Len(s.index)
  BY IndexAscends
<1> QED  BY <1>1, <1>2, <1>3, SearchFinds

-----------------------------------------------------------------------------
(* Segment::get                                                             *)

(* SegmentIndex::find returns a range of the file that holds the key, if the *)
(* file does.                                                                *)
LEMMA FindRange ==
    ASSUME NEW s, SortedSegment(s), NEW key \in Nat
    PROVE  LET r == find(s, key) IN
           /\ r.first \in 1 .. Len(s.entries) + 1 /\ r.end \in 1 .. Len(s.entries) + 1
           /\ r.match => r.first \in 1 .. Len(s.entries) /\ s.entries[r.first].key = key
           /\ \A i \in 1 .. Len(s.entries) :
                 s.entries[i].key = key => r.first <= i /\ i < r.end
<1>1. Len(s.entries) \in Nat /\ \A i \in 1 .. Len(s.entries) : s.entries[i].key \in Nat
  <2>1. ASSUME NEW i \in 1 .. Len(s.entries) PROVE s.entries[i] \in EntryType
    BY DEF SortedSegment
  <2>2. Len(s.entries) \in Nat
    BY DEF SortedSegment
  <2> QED  BY <2>1, <2>2 DEF EntryType
<1>2. \A i \in 1 .. Len(s.index) : s.index[i] \in 1 .. Len(s.entries)
  BY DEF SortedSegment
<1>3. ASSUME NEW i \in 1 .. Len(s.entries), NEW j \in 1 .. Len(s.entries)
      PROVE  s.entries[i].key < s.entries[j].key => i < j
  <2>1. j < i => s.entries[j].key < s.entries[i].key
    BY DEF SortedSegment, Sorted
  <2>2. i \in Nat /\ j \in Nat /\ s.entries[i].key \in Nat /\ s.entries[j].key \in Nat
    BY <1>1
  <2> QED  BY <2>1, <2>2
<1>4. ASSUME NEW i \in 1 .. Len(s.entries), NEW j \in 1 .. Len(s.entries)
      PROVE  s.entries[i].key <= s.entries[j].key => i <= j
  <2>1. j < i => s.entries[j].key < s.entries[i].key
    BY DEF SortedSegment, Sorted
  <2>2. i \in Nat /\ j \in Nat /\ s.entries[i].key \in Nat /\ s.entries[j].key \in Nat
    BY <1>1
  <2> QED  BY <2>1, <2>2
<1>5. CASE s.index = <<>>
  <2>1. find(s, key) = [match |-> FALSE, first |-> 1, end |-> Len(s.entries) + 1]
    BY <1>5 DEF find
  <2> QED  BY <1>1, <2>1
<1>6. CASE s.index # <<>> /\ key < IndexKey(s, 1)
  <2>1. find(s, key) = [match |-> FALSE, first |-> 1, end |-> s.index[1]]
    BY <1>6 DEF find
  <2>2. s.index[1] \in 1 .. Len(s.entries) /\ key < s.entries[s.index[1]].key
    BY <1>2, <1>6 DEF SortedSegment, IndexKey
  <2> QED  BY <1>1, <1>3, <2>1, <2>2
<1>7. CASE s.index # <<>> /\ ~(key < IndexKey(s, 1))
  <2> DEFINE hit == binary_search(s, key)
  <2>1. find(s, key) = [match |-> IndexKey(s, hit) = key, first |-> s.index[hit],
                        end |-> IF hit < Len(s.index) THEN s.index[hit + 1]
                                ELSE Len(s.entries) + 1]
    BY <1>7, Zenon DEF find
  <2>2. Len(s.index) \in Nat /\ Len(s.index) > 0
    BY <1>7 DEF SortedSegment
  <2>3. FoundBetween(s, key, hit, 1, Len(s.index))
    BY <2>2, BinarySearch
  <2> HIDE DEF hit
  <2>4. hit \in 1 .. Len(s.index) /\ (hit < Len(s.index) => hit + 1 \in 1 .. Len(s.index))
    BY <2>2, <2>3 DEF FoundBetween
  <2>5. IndexKey(s, hit) <= key
    BY <1>7, <2>2, <2>3, IndexAscends DEF FoundBetween
  <2>6. s.index[hit] \in 1 .. Len(s.entries) /\ s.entries[s.index[hit]].key <= key
    BY <1>2, <2>4, <2>5 DEF IndexKey
  <2>7. CASE hit < Len(s.index)
    <3>1. find(s, key) = [match |-> IndexKey(s, hit) = key, first |-> s.index[hit],
                          end |-> s.index[hit + 1]]
      BY <2>1, <2>7
    <3>2. /\ s.index[hit + 1] \in 1 .. Len(s.entries)
          /\ key < s.entries[s.index[hit + 1]].key
      BY <1>2, <2>3, <2>4, <2>7 DEF FoundBetween, IndexKey
    <3>3. IndexKey(s, hit) = s.entries[s.index[hit]].key
      BY DEF IndexKey
    <3>4. \A i \in 1 .. Len(s.entries) :
             s.entries[i].key = key => s.index[hit] <= i /\ i < s.index[hit + 1]
      BY <1>3, <1>4, <2>6, <3>2
    <3>5. find(s, key).match = (IndexKey(s, hit) = key)
      BY <3>1
    <3>6. find(s, key).match => IndexKey(s, hit) = key
      BY <3>5, Zenon
    <3>7. find(s, key).first = s.index[hit] /\ find(s, key).end = s.index[hit + 1]
      BY <3>1
    <3> QED  BY <1>1, <2>6, <3>2, <3>3, <3>4, <3>6, <3>7
  <2>8. CASE ~(hit < Len(s.index))
    <3>1. find(s, key) = [match |-> IndexKey(s, hit) = key, first |-> s.index[hit],
                          end |-> Len(s.entries) + 1]
      BY <2>1, <2>8
    <3>3. IndexKey(s, hit) = s.entries[s.index[hit]].key
      BY DEF IndexKey
    <3>4. \A i \in 1 .. Len(s.entries) : s.entries[i].key = key => s.index[hit] <= i
      BY <1>4, <2>6
    <3>5. find(s, key).match = (IndexKey(s, hit) = key)
      BY <3>1
    <3>6. find(s, key).match => IndexKey(s, hit) = key
      BY <3>5, Zenon
    <3>7. find(s, key).first = s.index[hit] /\ find(s, key).end = Len(s.entries) + 1
      BY <3>1
    <3> QED  BY <1>1, <2>6, <3>3, <3>4, <3>6, <3>7
  <2> QED  BY <2>7, <2>8
<1> QED  BY <1>5, <1>6, <1>7

(* Segment::get returns the entry with the key, or no entry when the file    *)
(* has none with it.                                                         *)
LEMMA SegmentLookup ==
    ASSUME NEW s, SortedSegment(s), NEW key \in Nat
    PROVE  \/ \E i \in 1 .. Len(s.entries) : s.entries[i].key = key /\ get(s, key) = s.entries[i]
           \/ /\ \A i \in 1 .. Len(s.entries) : s.entries[i].key # key
              /\ get(s, key) = NoEntry
<1> DEFINE r == find(s, key)
           stops == {i \in r.first .. r.end - 1 : s.entries[i].key >= key}
<1>1. /\ r.first \in 1 .. Len(s.entries) + 1 /\ r.end \in 1 .. Len(s.entries) + 1
      /\ r.match => r.first \in 1 .. Len(s.entries) /\ s.entries[r.first].key = key
      /\ \A i \in 1 .. Len(s.entries) :
            s.entries[i].key = key => r.first <= i /\ i < r.end
  BY FindRange
<1>2. get(s, key) = IF r.match THEN s.entries[r.first]
                    ELSE IF stops # {} /\ s.entries[Min(stops)].key = key
                    THEN s.entries[Min(stops)]
                    ELSE NoEntry
  BY Zenon DEF get
<1>3. Len(s.entries) \in Nat /\ \A i \in 1 .. Len(s.entries) : s.entries[i].key \in Nat
  <2>1. ASSUME NEW i \in 1 .. Len(s.entries) PROVE s.entries[i] \in EntryType
    BY DEF SortedSegment
  <2>2. Len(s.entries) \in Nat
    BY DEF SortedSegment
  <2> QED  BY <2>1, <2>2 DEF EntryType
<1> HIDE DEF r
<1>4. CASE r.match
  BY <1>1, <1>2, <1>4
<1>5. CASE ~r.match
  <2>1. stops \subseteq 1 .. Len(s.entries) /\ stops \in SUBSET Nat
    BY <1>1, <1>3
  <2>2. \A i \in 1 .. Len(s.entries) : s.entries[i].key = key => i \in stops
    BY <1>1, <1>3
  <2>3. \A i \in stops : s.entries[i].key >= key
    OBVIOUS
  <2> HIDE DEF stops
  <2>4. CASE stops = {}
    BY <1>2, <1>5, <2>2, <2>4
  <2>5. CASE stops # {}
    <3> DEFINE least == Min(stops)
    <3>1. least \in stops /\ \A i \in stops : least <= i
      BY <2>1, <2>5, MinLeast
    <3> HIDE DEF least
    <3>2. least \in 1 .. Len(s.entries) /\ s.entries[least].key >= key
      BY <2>1, <2>3, <3>1
    <3>3. get(s, key) = IF s.entries[least].key = key THEN s.entries[least] ELSE NoEntry
      BY <1>2, <1>5, <2>5 DEF least
    <3>4. CASE s.entries[least].key = key
      BY <3>2, <3>3, <3>4
    <3>5. CASE s.entries[least].key # key
      <4>1. ASSUME NEW i \in 1 .. Len(s.entries), s.entries[i].key = key
            PROVE  FALSE
        <5>1. least <= i
          BY <2>2, <3>1, <4>1
        <5>2. least = i \/ s.entries[least].key < s.entries[i].key
          BY <1>3, <3>2, <5>1 DEF SortedSegment, Sorted
        <5> QED  BY <1>3, <3>2, <3>5, <4>1, <5>2
      <4> QED  BY <3>3, <3>5, <4>1
    <3> QED  BY <3>4, <3>5
  <2> QED  BY <2>4, <2>5
<1> QED  BY <1>4, <1>5

-----------------------------------------------------------------------------
(* Both ways of indexing                                                     *)

LEMMA TimesAscends ==
    ASSUME NEW a \in Nat, NEW b \in Nat, NEW f \in Nat \ {0}
    PROVE  /\ a <= b => a * f <= b * f
           /\ a < b => a * f < b * f
<1>1. ASSUME NEW d \in Nat, b = a + d
      PROVE  b * f = a * f + d * f /\ d * f \in Nat /\ (d > 0 => d * f > 0)
  BY <1>1
<1>2. a <= b => b - a \in Nat /\ b = a + (b - a)
  OBVIOUS
<1>3. a * f \in Nat /\ b * f \in Nat
  OBVIOUS
<1>4. CASE a <= b
  <2>1. PICK d \in Nat : b = a + d
    BY <1>2, <1>4
  <2>2. b * f = a * f + d * f /\ d * f \in Nat /\ (d > 0 => d * f > 0)
    BY <1>1, <2>1
  <2> QED  BY <1>3, <2>1, <2>2
<1> QED  BY <1>4

LEMMA DivTimes ==
    ASSUME NEW n \in Nat, NEW f \in Nat \ {0}
    PROVE  n \div f \in Nat /\ (n \div f) * f <= n
OBVIOUS

(* Every index_sparsity_factor gives an ascending index into the file, as    *)
(* segment_file_from_memtable counts and as write_entry does.                *)
LEMMA IndexInside ==
    ASSUME NEW n \in Nat, NEW f \in Nat \ {0}, NEW index,
           index = FlushedIndex(n, f) \/ index = WrittenIndex(n, f)
    PROVE  /\ index \in Seq(1 .. n)
           /\ \A i, j \in 1 .. Len(index) : i < j => index[i] < index[j]
<1>1. CASE index = WrittenIndex(n, f)
  <2> DEFINE k == n \div f
  <2>1. k \in Nat /\ k * f <= n
    BY DivTimes
  <2> HIDE DEF k
  <2>2. index = [j \in 1 .. k |-> j * f]
    BY <1>1 DEF WrittenIndex, k
  <2>3. ASSUME NEW j \in 1 .. k PROVE j * f \in 1 .. n
    <3>1. j * f <= k * f /\ j * f \in Nat /\ j * f > 0 /\ k * f \in Nat
      BY <2>1, TimesAscends
    <3> QED  BY <2>1, <3>1
  <2>4. ASSUME NEW i \in 1 .. k, NEW j \in 1 .. k, i < j PROVE i * f < j * f
    BY <2>1, <2>4, TimesAscends
  <2>5. index \in Seq(1 .. n) /\ Len(index) = k
    BY <2>1, <2>2, <2>3
  <2> QED  BY <2>2, <2>4, <2>5
<1>2. CASE index = FlushedIndex(n, f)
  <2> DEFINE k == (n + f - 1) \div f
  <2>1. k \in Nat /\ k * f <= n + f - 1
    <3>1. n + f - 1 \in Nat
      OBVIOUS
    <3> QED  BY <3>1, DivTimes
  <2> HIDE DEF k
  <2>2. index = [j \in 1 .. k |-> (j - 1) * f + 1]
    BY <1>2 DEF FlushedIndex, k
  <2>3. ASSUME NEW j \in 1 .. k PROVE (j - 1) * f + 1 \in 1 .. n
    <3>1. j - 1 \in Nat /\ k - 1 \in Nat
      BY <2>1
    <3>2. (j - 1) * f <= (k - 1) * f /\ (j - 1) * f \in Nat
      BY <2>1, <3>1, TimesAscends
    <3>3. (k - 1) * f = k * f - f /\ k * f \in Nat
      BY <2>1, <3>1
    <3> QED  BY <2>1, <3>2, <3>3
  <2>4. ASSUME NEW i \in 1 .. k, NEW j \in 1 .. k, i < j
        PROVE  (i - 1) * f + 1 < (j - 1) * f + 1
    <3>1. i - 1 \in Nat /\ j - 1 \in Nat /\ i - 1 < j - 1
      BY <2>1, <2>4
    <3>2. (i - 1) * f < (j - 1) * f /\ (i - 1) * f \in Nat /\ (j - 1) * f \in Nat
      BY <3>1, TimesAscends
    <3> QED  BY <3>2
  <2>5. index \in Seq(1 .. n) /\ Len(index) = k
    BY <2>1, <2>2, <2>3
  <2> QED  BY <2>2, <2>4, <2>5
<1> QED  BY <1>1, <1>2

(* The files the level and its input begin with are sorted segments.         *)
LEMMA FilesSorted ==
    ASSUME NEW content \in Contents, NEW age \in Nat, NEW number, NEW factor \in Factors, NEW s,
           LET e == SortedEntries(content, age) IN
           s = flushed_segment(number, e, factor) \/ s = written_segment(1, number, e, factor)
    PROVE  SortedSegment(s)
<1>1. PICK n \in Nat : content \in [1 .. n -> [key : Keys, size : Sizes]] /\ Ascending(content)
  BY DEF Contents
<1> DEFINE e == SortedEntries(content, age)
<1>2. e = [i \in 1 .. n |-> [key |-> content[i].key, seq |-> age * 100 + content[i].key,
                             size |-> content[i].size]]
  BY <1>1 DEF SortedEntries
<1>3. ASSUME NEW i \in 1 .. n
      PROVE  content[i].key \in Nat /\ content[i].size \in Nat
  <2>1. content[i] \in [key : Keys, size : Sizes]
    BY <1>1
  <2> QED  BY <2>1, MergeAssumption
<1>4. ASSUME NEW i \in 1 .. n
      PROVE  e[i] \in EntryType /\ e[i].key = content[i].key
  BY <1>2, <1>3 DEF EntryType
<1>5. e \in Seq(EntryType) /\ Len(e) = n
  <2> HIDE DEF e
  <2>1. e = [i \in 1 .. n |-> e[i]]
    BY <1>2
  <2> QED  BY <1>1, <1>4, <2>1
<1>6. Len(content) = n
  BY <1>1
<1> HIDE DEF e
<1>7. Ascending(e)
  BY <1>1, <1>4, <1>5, <1>6 DEF Ascending
<1>8. Sorted(e)
  BY <1>3, <1>4, <1>5, <1>7, AscendingSorted
<1>9. factor \in Nat \ {0}
  BY MergeAssumption
<1>10. s.entries = e /\ (s.index = FlushedIndex(n, factor) \/ s.index = WrittenIndex(n, factor))
  BY <1>5 DEF flushed_segment, written_segment, from_file, e
<1>11. /\ s.index \in Seq(1 .. n)
       /\ \A i, j \in 1 .. Len(s.index) : i < j => s.index[i] < s.index[j]
  BY <1>9, <1>10, IndexInside
<1> QED  BY <1>5, <1>8, <1>10, <1>11 DEF SortedSegment

-----------------------------------------------------------------------------
(* The theorem                                                               *)

LEMMA LookupNewest ==
    ASSUME NEW s, SortedSegment(s), NEW key \in Nat
    PROVE  get(s, key) = NewestOf(ToSet(s.entries), key)
<1> DEFINE with == {e \in ToSet(s.entries) : e.key = key}
<1>1. DOMAIN s.entries = 1 .. Len(s.entries) /\ Len(s.entries) \in Nat
  BY DEF SortedSegment
<1>2. NewestOf(ToSet(s.entries), key) = Newest(with)
  BY DEF NewestOf
<1>3. CASE /\ \A i \in 1 .. Len(s.entries) : s.entries[i].key # key
           /\ get(s, key) = NoEntry
  <2>1. with = {}
    BY <1>1, <1>3 DEF ToSet
  <2> QED  BY <1>2, <1>3, <2>1 DEF Newest
<1>4. ASSUME NEW i \in 1 .. Len(s.entries), s.entries[i].key = key, get(s, key) = s.entries[i]
      PROVE  get(s, key) = NewestOf(ToSet(s.entries), key)
  <2>1. ASSUME NEW j \in 1 .. Len(s.entries), s.entries[j].key = key PROVE j = i
    <3>1. s.entries[i] \in EntryType
      BY DEF SortedSegment
    <3>2. key \in Nat /\ ~(key < key)
      BY <1>4, <3>1 DEF EntryType
    <3>3. ~(i < j) /\ ~(j < i)
      BY <1>4, <2>1, <3>2 DEF SortedSegment, Sorted
    <3> QED  BY <1>1, <3>3
  <2>2. with = {s.entries[i]}
    BY <1>1, <1>4, <2>1 DEF ToSet
  <2>3. s.entries[i].seq <= s.entries[i].seq
    <3>1. s.entries[i] \in EntryType
      BY DEF SortedSegment
    <3> QED  BY <3>1 DEF EntryType
  <2>4. Newest({s.entries[i]}) = s.entries[i]
    BY <2>3 DEF Newest
  <2> HIDE DEF with
  <2> QED  BY <1>2, <1>4, <2>2, <2>4
<1> QED  BY <1>3, <1>4, SegmentLookup

(* Segments of a partitioned level: none is empty, and all keys of one are   *)
(* below those of the segments behind it.                                    *)
Apart(segments) ==
    /\ \A i \in DOMAIN segments : Len(segments[i].entries) > 0
    /\ \A i, j \in DOMAIN segments : i < j =>
          \A k \in 1 .. Len(segments[i].entries), m \in 1 .. Len(segments[j].entries) :
             segments[i].entries[k].key < segments[j].entries[m].key

(* The keys of the entries of a sorted segment are naturals.                 *)
LEMMA SegmentKeys ==
    ASSUME NEW s, SortedSegment(s)
    PROVE  /\ DOMAIN s.entries = 1 .. Len(s.entries) /\ Len(s.entries) \in Nat
           /\ \A i \in 1 .. Len(s.entries) : s.entries[i].key \in Nat
<1>1. ASSUME NEW i \in 1 .. Len(s.entries) PROVE s.entries[i] \in EntryType
  BY DEF SortedSegment
<1>2. DOMAIN s.entries = 1 .. Len(s.entries) /\ Len(s.entries) \in Nat
  BY DEF SortedSegment
<1> QED  BY <1>1, <1>2 DEF EntryType

(* The keys of a segment lie between its first and its last.                 *)
LEMMA SegmentBounds ==
    ASSUME NEW s, SortedSegment(s), Len(s.entries) > 0
    PROVE  /\ first_key(s) = s.entries[1].key /\ last_key(s) = s.entries[Len(s.entries)].key
           /\ \A i \in 1 .. Len(s.entries) :
                 first_key(s) <= s.entries[i].key /\ s.entries[i].key <= last_key(s)
<1>1. Len(s.entries) \in Nat /\ \A i \in 1 .. Len(s.entries) : s.entries[i].key \in Nat
  BY SegmentKeys
<1>2. first_key(s) = s.entries[1].key /\ last_key(s) = s.entries[Len(s.entries)].key
  BY <1>1 DEF SortedSegment, first_key, last_key, Last
<1>3. ASSUME NEW i \in 1 .. Len(s.entries)
      PROVE  /\ s.entries[1].key <= s.entries[i].key
             /\ s.entries[i].key <= s.entries[Len(s.entries)].key
  <2>1. 1 = i \/ s.entries[1].key < s.entries[i].key
    BY <1>1 DEF SortedSegment, Sorted
  <2>2. i = Len(s.entries) \/ s.entries[i].key < s.entries[Len(s.entries)].key
    BY <1>1 DEF SortedSegment, Sorted
  <2> QED  BY <1>1, <2>1, <2>2
<1> QED  BY <1>2, <1>3

(* PartitionedLevel::get: the first segment that may hold the key is the     *)
(* only one that does.                                                       *)
LEMMA PartitionedLookup ==
    ASSUME NEW l, NEW n \in Nat, DOMAIN l.segments = 1 .. n,
           \A i \in 1 .. n : SortedSegment(l.segments[i]), Apart(l.segments), NEW key \in Nat
    PROVE  PartitionedGet(l, key) = NewestOf(EntriesOf(l.segments), key)
<1> DEFINE holding == {i \in DOMAIN l.segments : first_key(l.segments[i]) <= key
                                                  /\ key <= last_key(l.segments[i])}
           has(i) == \E k \in 1 .. Len(l.segments[i].entries) : l.segments[i].entries[k].key = key
<1>1. PartitionedGet(l, key) = IF holding = {} THEN NoEntry ELSE get(l.segments[Min(holding)], key)
  BY Zenon DEF PartitionedGet
<1>2. holding \subseteq 1 .. n /\ holding \in SUBSET Nat
  OBVIOUS
<1>3. ASSUME NEW i \in 1 .. n
      PROVE  /\ Len(l.segments[i].entries) > 0 /\ Len(l.segments[i].entries) \in Nat
             /\ DOMAIN l.segments[i].entries = 1 .. Len(l.segments[i].entries)
             /\ \A k \in 1 .. Len(l.segments[i].entries) : l.segments[i].entries[k].key \in Nat
  BY SegmentKeys DEF Apart
<1>4. ASSUME NEW i \in 1 .. n, has(i) PROVE i \in holding
  BY <1>3, <1>4, SegmentBounds
<1>5. ASSUME NEW i \in holding, NEW j \in 1 .. n, has(j) PROVE i = j
  <2>1. PICK k \in 1 .. Len(l.segments[j].entries) : l.segments[j].entries[k].key = key
    BY <1>5
  <2> DEFINE e == l.segments[i].entries
  <2>2. i \in 1 .. n /\ e[1].key <= key /\ key <= e[Len(e)].key
    BY <1>2, <1>3, SegmentBounds
  <2>3. 1 \in 1 .. Len(e) /\ Len(e) \in 1 .. Len(e) /\ e[1].key \in Nat /\ e[Len(e)].key \in Nat
    <3>1. Len(e) \in Nat /\ Len(e) > 0
      BY <1>3, <2>2
    <3>2. 1 \in 1 .. Len(e) /\ Len(e) \in 1 .. Len(e)
      BY <3>1
    <3> QED  BY <1>3, <2>2, <3>2
  <2> HIDE DEF holding, has
  <2>4. i < j => e[Len(e)].key < key
    BY <2>1, <2>2, <2>3 DEF Apart
  <2>5. j < i => key < e[1].key
    BY <2>1, <2>2, <2>3 DEF Apart
  <2>6. i \in Int /\ j \in Int
    BY <2>2
  <2> HIDE DEF e
  <2>7. ~(i < j)
    BY <2>2, <2>3, <2>4
  <2>8. ~(j < i)
    BY <2>2, <2>3, <2>5
  <2> QED  BY <2>6, <2>7, <2>8
<1>6. ASSUME NEW i \in 1 .. n, \A j \in 1 .. n : has(j) => j = i
      PROVE  {e \in EntriesOf(l.segments) : e.key = key}
                 = {e \in ToSet(l.segments[i].entries) : e.key = key}
  <2> HIDE DEF holding
  <2> QED  BY <1>3, <1>6, SMTT(30) DEF EntriesOf, ToSet
<1>7. CASE holding = {}
  <2>1. \A j \in 1 .. n : ~has(j)
    BY <1>4, <1>7
  <2>2. {e \in EntriesOf(l.segments) : e.key = key} = {}
    BY <1>3, <2>1 DEF EntriesOf, ToSet
  <2>3. NewestOf(EntriesOf(l.segments), key) = NoEntry
    BY <2>2 DEF NewestOf, Newest
  <2> QED  BY <1>1, <1>7, <2>3
<1>8. CASE holding # {}
  <2> DEFINE i == Min(holding)
  <2> HIDE DEF holding
  <2>1. i \in holding
    BY <1>2, <1>8, MinLeast
  <2> HIDE DEF i
  <2>2. i \in 1 .. n /\ \A j \in 1 .. n : has(j) => j = i
    BY <1>2, <1>5, <2>1
  <2> HIDE DEF has
  <2>3. NewestOf(EntriesOf(l.segments), key) = NewestOf(ToSet(l.segments[i].entries), key)
    BY <1>6, <2>2 DEF NewestOf
  <2>4. get(l.segments[i], key) = NewestOf(ToSet(l.segments[i].entries), key)
    BY <2>2, LookupNewest
  <2>5. PartitionedGet(l, key) = get(l.segments[i], key)
    BY <1>1, <1>8 DEF i
  <2> QED  BY <2>3, <2>4, <2>5
<1> QED  BY <1>7, <1>8

(* OverlappingLevel::get compares exactly the entries with the key.          *)
LEMMA OverlappingLookup ==
    ASSUME NEW l, \A i \in DOMAIN l.segments : SortedSegment(l.segments[i]), NEW key \in Nat \ {0}
    PROVE  OverlappingGet(l, key) = NewestOf(EntriesOf(l.segments), key)
<1> DEFINE found == {get(l.segments[i], key) : i \in DOMAIN l.segments} \ {NoEntry}
           with == {e \in EntriesOf(l.segments) : e.key = key}
<1>1. ASSUME NEW x \in found PROVE x \in with
  <2>1. PICK i \in DOMAIN l.segments : x = get(l.segments[i], key) /\ x # NoEntry
    OBVIOUS
  <2>2. PICK k \in 1 .. Len(l.segments[i].entries) :
           l.segments[i].entries[k].key = key /\ x = l.segments[i].entries[k]
    BY <2>1, SegmentLookup
  <2>3. x \in ToSet(l.segments[i].entries)
    BY <2>2, SegmentKeys DEF ToSet
  <2> QED  BY <2>2, <2>3 DEF EntriesOf
<1>2. ASSUME NEW x \in with PROVE x \in found
  <2>1. PICK i \in DOMAIN l.segments : x \in ToSet(l.segments[i].entries)
    BY DEF EntriesOf
  <2> DEFINE e == l.segments[i].entries
  <2>2. SortedSegment(l.segments[i]) /\ DOMAIN e = 1 .. Len(e) /\ Len(e) \in Nat
    BY SegmentKeys
  <2>3. PICK k \in 1 .. Len(e) : x = e[k] /\ e[k].key = key
    BY <2>1, <2>2 DEF ToSet
  <2>4. PICK m \in 1 .. Len(e) : e[m].key = key /\ get(l.segments[i], key) = e[m]
    BY <2>2, <2>3, SegmentLookup
  <2>5. m = k
    <3>1. ~(m < k) /\ ~(k < m)
      BY <2>2, <2>3, <2>4 DEF SortedSegment, Sorted
    <3> QED  BY <2>2, <3>1
  <2>6. x # NoEntry
    BY <2>3 DEF NoEntry
  <2> QED  BY <2>3, <2>4, <2>5, <2>6
<1>3. found = with
  BY <1>1, <1>2
<1>4. OverlappingGet(l, key) = Newest(found) /\ NewestOf(EntriesOf(l.segments), key) = Newest(with)
  BY Zenon DEF OverlappingGet, NewestOf
<1> QED  BY <1>3, <1>4, Zenon

(* Every file of the level and of the merge's input is a sorted segment, and *)
(* those of the level follow one another.                                    *)
FilesOK ==
    /\ \E n \in Nat : DOMAIN level.segments = 1 .. n
    /\ \A i \in DOMAIN level.segments : SortedSegment(level.segments[i])
    /\ Apart(level.segments)
    /\ DOMAIN level = {"number", "target", "factor", "segments"}
    /\ \A i \in DOMAIN incoming : SortedSegment(incoming[i])

LEMMA ContentsForm ==
    ASSUME NEW c \in Contents
    PROVE  \E len \in Nat : len > 0 /\ c \in [1 .. len -> [key : Keys, size : Sizes]]
<1>1. PICK n \in 1 .. Cardinality(Keys) : c \in [1 .. n -> [key : Keys, size : Sizes]]
  BY DEF Contents
<1> DEFINE card == Cardinality(Keys)
<1>2. n \in 1 .. card
  OBVIOUS
<1> HIDE DEF card
<1>3. n \in Nat /\ n > 0
  BY <1>2
<1> QED  BY <1>1, <1>3

(* Files whose contents follow one another, each the next, follow one        *)
(* another altogether.                                                       *)
LEMMA PartitionApart ==
    ASSUME NEW n \in Nat, NEW old \in [1 .. n -> Contents], Partition(old),
           NEW i \in 1 .. n, NEW j \in 1 .. n, i < j,
           NEW k \in 1 .. Len(old[i]), NEW m \in 1 .. Len(old[j])
    PROVE  old[i][k].key < old[j][m].key
<1> DEFINE bad == {c \in 1 .. n : i < c /\ \E d \in 1 .. Len(old[c]) :
                                     ~(old[i][k].key < old[c][d].key)}
<1>1. ASSUME NEW c \in 1 .. n
      PROVE  /\ Len(old[c]) \in Nat /\ Len(old[c]) > 0 /\ DOMAIN old[c] = 1 .. Len(old[c])
             /\ \A d \in 1 .. Len(old[c]) : old[c][d].key \in Nat
  <2>1. old[c] \in Contents
    OBVIOUS
  <2>2. PICK len \in Nat : len > 0 /\ old[c] \in [1 .. len -> [key : Keys, size : Sizes]]
    BY <2>1, ContentsForm
  <2>3. Len(old[c]) = len /\ DOMAIN old[c] = 1 .. len
    BY <2>2
  <2>4. ASSUME NEW d \in 1 .. len PROVE old[c][d].key \in Nat
    <3>1. old[c][d] \in [key : Keys, size : Sizes]
      BY <2>2
    <3> QED  BY <3>1, MergeAssumption
  <2> QED  BY <2>2, <2>3, <2>4
<1>2. ASSUME bad # {} PROVE FALSE
  <2>1. bad \in SUBSET Nat
    OBVIOUS
  <2>2. PICK c \in bad : \A b \in bad : c <= b
    <3> HIDE DEF bad
    <3> QED  BY <1>2, <2>1, LeastExists
  <2>3. PICK d \in 1 .. Len(old[c]) : ~(old[i][k].key < old[c][d].key)
    OBVIOUS
  <2>4. c \in 1 .. n /\ i < c /\ c - 1 \in 1 .. n /\ c - 1 \in 1 .. Len(old) - 1
    BY <2>2
  <2>5. c - 1 \notin bad
    <3>1. ~(c <= c - 1)
      BY <2>4
    <3> HIDE DEF bad
    <3> QED  BY <2>2, <3>1
  <2>6. \A a \in DOMAIN old[c - 1], b \in DOMAIN old[c - 1 + 1] :
           old[c - 1][a].key < old[c - 1 + 1][b].key
    BY <2>4 DEF Partition
  <2>7. c - 1 + 1 = c
    BY <2>4
  <2>8. ASSUME NEW a \in 1 .. Len(old[c - 1]) PROVE old[c - 1][a].key < old[c][d].key
    BY <1>1, <2>4, <2>6, <2>7
  <2>9. CASE c - 1 = i
    BY <2>3, <2>8, <2>9
  <2>10. CASE c - 1 # i
    <3>1. i < c - 1
      BY <2>4, <2>10
    <3>2. 1 \in 1 .. Len(old[c - 1])
      BY <1>1, <2>4
    <3>3. old[i][k].key < old[c - 1][1].key
      BY <2>4, <2>5, <3>1, <3>2
    <3>4. old[c - 1][1].key < old[c][d].key
      BY <2>8, <3>2
    <3>5. old[i][k].key \in Nat /\ old[c - 1][1].key \in Nat /\ old[c][d].key \in Nat
      BY <1>1, <2>4, <3>2
    <3> DEFINE x == old[i][k].key  y == old[c - 1][1].key  z == old[c][d].key
    <3>6. x < y /\ y < z /\ ~(x < z) /\ x \in Nat /\ y \in Nat /\ z \in Nat
      BY <2>3, <3>3, <3>4, <3>5
    <3> HIDE DEF bad, x, y, z
    <3> QED  BY <3>6
  <2> HIDE DEF bad
  <2> QED  BY <2>9, <2>10
<1> QED  BY <1>2

LEMMA InitFiles == Init => FilesOK
<1> SUFFICES ASSUME Init PROVE FilesOK
  OBVIOUS
<1>1. PICK factor \in Factors, n \in 0 .. MaxOld, m \in 1 .. MaxIncoming :
       \E old \in {o \in [1 .. n -> Contents] : Partition(o)}, new \in [1 .. m -> Contents] :
          /\ level = [new_level(1, SegmentSize, factor) EXCEPT !.segments =
                [i \in 1 .. n |-> written_segment(1, i, SortedEntries(old[i], i), factor)]]
          /\ incoming =
                [i \in 1 .. m |-> flushed_segment(i, SortedEntries(new[i], n + i), factor)]
  BY DEF Init
<1>2. PICK old \in [1 .. n -> Contents], new \in [1 .. m -> Contents] :
          /\ Partition(old)
          /\ level = [new_level(1, SegmentSize, factor) EXCEPT !.segments =
                [i \in 1 .. n |-> written_segment(1, i, SortedEntries(old[i], i), factor)]]
          /\ incoming =
                [i \in 1 .. m |-> flushed_segment(i, SortedEntries(new[i], n + i), factor)]
  BY <1>1
<1>3. /\ level.segments =
            [i \in 1 .. n |-> written_segment(1, i, SortedEntries(old[i], i), factor)]
      /\ DOMAIN level = {"number", "target", "factor", "segments"}
      /\ incoming =
            [i \in 1 .. m |-> flushed_segment(i, SortedEntries(new[i], n + i), factor)]
  BY <1>2 DEF new_level
<1>4. n \in Nat /\ m \in Nat
  BY MergeAssumption
<1>5. ASSUME NEW i \in 1 .. n PROVE SortedSegment(level.segments[i])
  <2>1. level.segments[i] = written_segment(1, i, SortedEntries(old[i], i), factor)
    BY <1>3
  <2>2. old[i] \in Contents /\ i \in Nat
    BY <1>2, <1>4
  <2> QED  BY <2>1, <2>2, FilesSorted
<1>6. ASSUME NEW i \in 1 .. m PROVE SortedSegment(incoming[i])
  <2>1. incoming[i] = flushed_segment(i, SortedEntries(new[i], n + i), factor)
    BY <1>3
  <2>2. new[i] \in Contents /\ n + i \in Nat
    BY <1>2, <1>4
  <2> QED  BY <2>1, <2>2, FilesSorted
<1>7. DOMAIN level.segments = 1 .. n /\ DOMAIN incoming = 1 .. m
  BY <1>3
<1>8. ASSUME NEW i \in 1 .. n
      PROVE  LET e == level.segments[i].entries IN
             /\ Len(e) > 0 /\ Len(e) = Len(old[i])
             /\ \A k \in 1 .. Len(e) : e[k].key = old[i][k].key
  <2>1. level.segments[i].entries = SortedEntries(old[i], i)
    BY <1>3 DEF written_segment, from_file
  <2>2. old[i] \in Contents
    BY <1>2
  <2>3. PICK len \in Nat : len > 0 /\ old[i] \in [1 .. len -> [key : Keys, size : Sizes]]
    BY <2>2, ContentsForm
  <2>4. SortedEntries(old[i], i) =
            [k \in 1 .. len |-> [key |-> old[i][k].key, seq |-> i * 100 + old[i][k].key,
                                 size |-> old[i][k].size]]
    BY <2>3 DEF SortedEntries
  <2>5. Len(SortedEntries(old[i], i)) = len /\ Len(old[i]) = len
    BY <2>3, <2>4
  <2>6. \A k \in 1 .. len : SortedEntries(old[i], i)[k].key = old[i][k].key
    BY <2>4
  <2> QED  BY <2>1, <2>3, <2>5, <2>6
<1>9. Apart(level.segments)
  <2>1. ASSUME NEW i \in 1 .. n, NEW j \in 1 .. n, i < j,
               NEW k \in 1 .. Len(level.segments[i].entries),
               NEW q \in 1 .. Len(level.segments[j].entries)
        PROVE  level.segments[i].entries[k].key < level.segments[j].entries[q].key
    <3>1. k \in 1 .. Len(old[i]) /\ q \in 1 .. Len(old[j])
      BY <1>8, <2>1
    <3>2. old[i][k].key < old[j][q].key
      BY <1>2, <1>4, <2>1, <3>1, PartitionApart
    <3> QED  BY <1>8, <2>1, <3>2
  <2> QED  BY <1>7, <1>8, <2>1 DEF Apart
<1> QED  BY <1>3, <1>4, <1>5, <1>6, <1>7, <1>9 DEF FilesOK

LEMMA FilesStay == FilesOK /\ [Next]_vars => FilesOK'
BY DEF FilesOK, Next, DoMerge, vars

(* Segment::get through the sparse index (SegmentIndex::find and its binary  *)
(* search) returns the entry with the key, or nothing when the file has no   *)
(* such entry: for every sorted file of any length, every                    *)
(* index_sparsity_factor, and the index of a flush as well as that of a      *)
(* merge.  A get on a level returns the newest entry of its files: a         *)
(* partitioned level through the one segment find_containing_segment picks,  *)
(* level zero through all of them.                                           *)
THEOREM LookupsExact == Spec => []LookupExact
<1>1. ASSUME FilesOK, NEW key \in Keys, NEW s \in ToSet(level.segments) \cup ToSet(incoming)
      PROVE  get(s, key) = NewestOf(ToSet(s.entries), key)
  <2>1. SortedSegment(s)
    BY <1>1 DEF FilesOK, ToSet
  <2>2. key \in Nat
    BY MergeAssumption
  <2> QED  BY <2>1, <2>2, LookupNewest
<1>2. ASSUME FilesOK, NEW key \in Keys
      PROVE  PartitionedGet(level, key) = NewestOf(EntriesOf(level.segments), key)
  <2>1. PICK n \in Nat : DOMAIN level.segments = 1 .. n
    BY <1>2 DEF FilesOK
  <2>2. key \in Nat
    BY MergeAssumption
  <2> QED  BY <1>2, <2>1, <2>2, PartitionedLookup DEF FilesOK
<1>3. ASSUME FilesOK, NEW key \in Keys
      PROVE  OverlappingGet([level EXCEPT !.segments = incoming], key)
                 = NewestOf(EntriesOf(incoming), key)
  <2> DEFINE l == [level EXCEPT !.segments = incoming]
  <2>1. l.segments = incoming
    BY <1>3 DEF FilesOK
  <2>2. \A i \in DOMAIN l.segments : SortedSegment(l.segments[i])
    BY <1>3, <2>1 DEF FilesOK
  <2>3. key \in Nat \ {0}
    BY MergeAssumption
  <2> HIDE DEF l
  <2>4. OverlappingGet(l, key) = NewestOf(EntriesOf(l.segments), key)
    BY <2>2, <2>3, OverlappingLookup
  <2> QED  BY <2>1, <2>4 DEF l
<1>4. FilesOK => LookupExact
  BY <1>1, <1>2, <1>3 DEF LookupExact
<1> QED  BY <1>4, FilesStay, InitFiles, PTL DEF Spec

-----------------------------------------------------------------------------
(* Sums                                                                     *)

AddStep(c, a, b) == a + b

Adding == INSTANCE Iteration WITH Step <- AddStep

LEMMA SumIs ==
    ASSUME NEW s
    PROVE  SumOf(s) = Adding!Result(0, 0, s)
BY DEF SumOf, Adding!Result, AddStep, FoldLeft, MapThenFoldSet,
       Adding!FoldLeft, Adding!MapThenFoldSet, Adding!Max, Max

LEMMA SumAppend ==
    ASSUME NEW s \in Seq(Nat), NEW x \in Nat
    PROVE  SumOf(Append(s, x)) = SumOf(s) + x
BY SumIs, Adding!FoldAppend DEF AddStep

LEMMA SumEmpty == SumOf(<<>>) = 0
BY SumIs, Adding!FoldEmpty

LEMMA SumNat ==
    ASSUME NEW s \in Seq(Nat)
    PROVE  SumOf(s) \in Nat
<1>1. PICK f : Adding!IsRun(f, 0, 0, s) /\ Adding!Result(0, 0, s) = f[Len(s)]
  BY Adding!FoldRuns
<1> DEFINE P == {i \in Nat : i <= Len(s) => f[i] \in Nat}
<1>2. Len(s) \in Nat /\ \A i \in 1 .. Len(s) : s[i] \in Nat
  BY LenProperties, ElementOfSeq
<1>3. 0 \in P
  BY <1>1 DEF Adding!IsRun
<1>4. ASSUME NEW i \in Nat, i \in P PROVE i + 1 \in P
  <2> SUFFICES ASSUME i + 1 <= Len(s) PROVE f[i + 1] \in Nat
    OBVIOUS
  <2>1. f[i] \in Nat /\ i + 1 \in 1 .. Len(s) /\ (i + 1) - 1 = i
    BY <1>2, <1>4
  <2>2. f[i + 1] = f[i] + s[i + 1]
    BY <1>1, <2>1 DEF Adding!IsRun, AddStep
  <2>3. s[i + 1] \in Nat
    BY <1>2, <2>1
  <2> QED  BY <2>1, <2>2, <2>3
<1>5. \A i \in Nat : i \in P
  <2> HIDE DEF P
  <2> QED  BY <1>3, <1>4, Adding!SetInduction
<1> QED  BY <1>1, <1>2, <1>5, SumIs

LEMMA Associates == \A S : \A a, b, c \in Seq(S) : (a \o b) \o c = a \o (b \o c)
<1> SUFFICES ASSUME NEW S, NEW a \in Seq(S), NEW b \in Seq(S), NEW c \in Seq(S)
             PROVE  (a \o b) \o c = a \o (b \o c)
  OBVIOUS
<1> QED  BY ConcatAssociative

LEMMA NatAssociates == \A a, b, c \in Seq(Nat) : (a \o b) \o c = a \o (b \o c)
<1> DEFINE N == Nat
<1> HIDE DEF N
<1>1. \A a, b, c \in Seq(N) : (a \o b) \o c = a \o (b \o c)
  BY Associates
<1> QED  BY <1>1 DEF N

LEMMA EntriesAssociate == \A a, b, c \in Seq(EntryType) : (a \o b) \o c = a \o (b \o c)
BY Associates

LEMMA Between ==
    ASSUME NEW a \in Nat, NEW b \in Nat, NEW c \in Nat, NEW p \in Nat, a < p, p <= b, b <= c
    PROVE  p \in 1 .. c
OBVIOUS

LEMMA SumConcat ==
    ASSUME NEW s \in Seq(Nat), NEW t \in Seq(Nat)
    PROVE  SumOf(s \o t) = SumOf(s) + SumOf(t)
<1> DEFINE T(i) == SumOf(s \o SubSeq(t, 1, i)) = SumOf(s) + SumOf(SubSeq(t, 1, i))
           P == {i \in Nat : i <= Len(t) => T(i)}
<1>1. 0 \in P
  <2>1. SubSeq(t, 1, 0) = <<>> /\ s \o <<>> = s
    BY SubSeqEmpty, ConcatEmptySeq
  <2>2. SumOf(s) \in Nat /\ SumOf(s) + 0 = SumOf(s)
    BY SumNat
  <2>3. T(0)
    BY <2>1, <2>2, SumEmpty, Zenon
  <2> HIDE DEF T
  <2> QED  BY <2>3
<1>2. ASSUME NEW i \in Nat, i \in P PROVE i + 1 \in P
  <2> SUFFICES ASSUME i + 1 <= Len(t) PROVE T(i + 1)
    <3> HIDE DEF T
    <3> QED  OBVIOUS
  <2> DEFINE u == SubSeq(t, 1, i)
             x == t[i + 1]
  <2>1. Len(t) \in Nat /\ i + 1 \in 1 .. Len(t) /\ x \in Nat
    BY LenProperties, ElementOfSeq
  <2>2. u \in Seq(Nat) /\ SubSeq(t, 1, i + 1) = Append(u, x)
    <3>1. u \in Seq(Nat)
      BY <2>1, SubSeqProperties, ElementOfSeq
    <3>2. SubSeq(t, 1, i + 1) = u \o <<x>>
      BY <2>1, SubSeqRecursiveSecond
    <3> HIDE DEF u, x
    <3>3. Append(u, x) = u \o <<x>>
      BY <3>1, <2>1, AppendIsConcat
    <3> QED  BY <3>1, <3>2, <3>3
  <2>3. T(i)
    <3> HIDE DEF T
    <3> QED  BY <1>2, <2>1
  <2>4. SumOf(s \o u) = SumOf(s) + SumOf(u)
    BY <2>3
  <2> HIDE DEF u, x, P
  <2>5. s \o Append(u, x) = Append(s \o u, x) /\ s \o u \in Seq(Nat)
    <3>1. s \o u \in Seq(Nat)
      BY <2>2, ConcatProperties
    <3>2. \A a, b, c \in Seq(Nat) : (a \o b) \o c = a \o (b \o c)
      BY NatAssociates
    <3>3. \A a \in Seq(Nat) : Append(a, x) = a \o <<x>>
      <4>1. ASSUME NEW a \in Seq(Nat), NEW y \in Nat PROVE Append(a, y) = a \o <<y>>
        BY AppendIsConcat
      <4> QED  BY <2>1, <4>1, Zenon
    <3>4. <<x>> \in Seq(Nat)
      BY <2>1
    <3>5. (s \o u) \o <<x>> = s \o (u \o <<x>>)
      <4> DEFINE one == <<x>>
      <4>1. one \in Seq(Nat)
        BY <3>4
      <4> HIDE DEF one
      <4>2. \A c \in Seq(Nat) : (s \o u) \o c = s \o (u \o c)
        BY <2>2, <3>2, Zenon
      <4>3. (s \o u) \o one = s \o (u \o one)
        BY <4>1, <4>2, Zenon
      <4> QED  BY <4>3 DEF one
    <3>6. Append(u, x) = u \o <<x>> /\ Append(s \o u, x) = (s \o u) \o <<x>>
      BY <2>2, <3>1, <3>3, Zenon
    <3> QED  BY <3>1, <3>5, <3>6, Zenon
  <2>6. SumOf(Append(s \o u, x)) = SumOf(s \o u) + x /\ SumOf(Append(u, x)) = SumOf(u) + x
    BY <2>1, <2>2, <2>5, SumAppend
  <2>7. SumOf(s) \in Nat /\ SumOf(u) \in Nat
    BY <2>2, SumNat
  <2>8. (SumOf(s) + SumOf(u)) + x = SumOf(s) + (SumOf(u) + x)
    BY <2>1, <2>7
  <2>9. SumOf(s \o Append(u, x)) = SumOf(s) + SumOf(Append(u, x))
    BY <2>4, <2>5, <2>6, <2>8, Zenon
  <2> QED  BY <2>2, <2>9, Zenon
<1>3. \A i \in Nat : i \in P
  <2> HIDE DEF P
  <2> QED  BY <1>1, <1>2, Adding!SetInduction
<1>4. Len(t) \in Nat /\ T(Len(t))
  <2> HIDE DEF T
  <2> QED  BY <1>3, LenProperties
<1>5. SumOf(s \o SubSeq(t, 1, Len(t))) = SumOf(s) + SumOf(SubSeq(t, 1, Len(t)))
  BY <1>4
<1> QED  BY <1>5, SubSeqFull

SizesOf(entries) == [i \in DOMAIN entries |-> entries[i].size]

LEMMA SizesTyped ==
    ASSUME NEW e \in Seq(EntryType)
    PROVE  SizesOf(e) \in Seq(Nat) /\ DataSize(e) = SumOf(SizesOf(e)) /\ DataSize(e) \in Nat
<1>1. Len(e) \in Nat /\ DOMAIN e = 1 .. Len(e) /\ \A i \in 1 .. Len(e) : e[i].size \in Nat
  <2>1. \A i \in 1 .. Len(e) : e[i] \in EntryType
    BY ElementOfSeq
  <2>2. \A x \in EntryType : x.size \in Nat
    BY DEF EntryType
  <2> QED  BY <2>1, <2>2, LenProperties
<1>2. SizesOf(e) \in Seq(Nat)
  <2>1. SizesOf(e) \in [1 .. Len(e) -> Nat]
    BY <1>1 DEF SizesOf
  <2> QED  BY <1>1, <2>1, SeqDef
<1>3. DataSize(e) = SumOf(SizesOf(e))
  BY DEF DataSize, SizesOf
<1> QED  BY <1>2, <1>3, SumNat

LEMMA DataConcat ==
    ASSUME NEW d \in Seq(EntryType), NEW e \in Seq(EntryType)
    PROVE  DataSize(d \o e) = DataSize(d) + DataSize(e)
<1>1. /\ SizesOf(d) \in Seq(Nat) /\ DataSize(d) = SumOf(SizesOf(d))
      /\ SizesOf(e) \in Seq(Nat) /\ DataSize(e) = SumOf(SizesOf(e))
  BY SizesTyped
<1>2. d \o e \in Seq(EntryType)
  BY ConcatProperties
<1>3. SizesOf(d \o e) \in Seq(Nat) /\ DataSize(d \o e) = SumOf(SizesOf(d \o e))
  <2>1. \A x \in Seq(EntryType) : SizesOf(x) \in Seq(Nat) /\ DataSize(x) = SumOf(SizesOf(x))
    BY SizesTyped
  <2> QED  BY <1>2, <2>1, Zenon
<1>4. SizesOf(d \o e) = SizesOf(d) \o SizesOf(e)
  <2>1. \A x \in Seq(EntryType) :
           Len(x) \in Nat /\ DOMAIN x = 1 .. Len(x) /\ Len(SizesOf(x)) = Len(x)
    <3>1. ASSUME NEW x \in Seq(EntryType)
          PROVE  Len(x) \in Nat /\ DOMAIN x = 1 .. Len(x) /\ Len(SizesOf(x)) = Len(x)
      <4>1. Len(x) \in Nat /\ DOMAIN x = 1 .. Len(x)
        BY LenProperties
      <4>2. SizesOf(x) \in Seq(Nat) /\ DOMAIN SizesOf(x) = 1 .. Len(x)
        BY <4>1, SizesTyped DEF SizesOf
      <4>3. DOMAIN SizesOf(x) = 1 .. Len(SizesOf(x)) /\ Len(SizesOf(x)) \in Nat
        BY <4>2, LenProperties
      <4> QED  BY <4>1, <4>2, <4>3
    <3> QED  BY <3>1
  <2>2. /\ Len(d \o e) = Len(d) + Len(e)
        /\ \A i \in 1 .. Len(d) + Len(e) : (d \o e)[i] = IF i <= Len(d) THEN d[i] ELSE e[i - Len(d)]
    BY ConcatProperties
  <2> DEFINE c == d \o e
             u == SizesOf(d) \o SizesOf(e)
  <2>3. /\ u \in Seq(Nat) /\ Len(u) = Len(d) + Len(e)
        /\ \A i \in 1 .. Len(d) + Len(e) :
              u[i] = IF i <= Len(d) THEN SizesOf(d)[i] ELSE SizesOf(e)[i - Len(d)]
    <3>1. Len(SizesOf(d)) = Len(d) /\ Len(SizesOf(e)) = Len(e)
      BY <2>1
    <3>2. /\ u \in Seq(Nat) /\ Len(u) = Len(SizesOf(d)) + Len(SizesOf(e))
          /\ \A i \in 1 .. Len(SizesOf(d)) + Len(SizesOf(e)) :
               u[i] = IF i <= Len(SizesOf(d)) THEN SizesOf(d)[i] ELSE SizesOf(e)[i - Len(SizesOf(d))]
      BY <1>1, ConcatProperties
    <3> HIDE DEF u
    <3> QED  BY <3>1, <3>2
  <2>4. /\ c \in Seq(EntryType) /\ SizesOf(c) \in Seq(Nat) /\ Len(c) = Len(d) + Len(e)
        /\ \A i \in 1 .. Len(d) + Len(e) : c[i] = IF i <= Len(d) THEN d[i] ELSE e[i - Len(d)]
    BY <1>2, <1>3, <2>2
  <2> HIDE DEF c, u
  <2>5. ASSUME NEW i \in 1 .. Len(d) + Len(e) PROVE SizesOf(c)[i] = u[i]
    <3>1. SizesOf(c)[i] = c[i].size
      BY <2>1, <2>4 DEF SizesOf
    <3>2. CASE i <= Len(d)
      <4>1. i \in 1 .. Len(d) /\ 1 .. Len(d) = DOMAIN d
        BY <2>1, <3>2
      <4>2. SizesOf(d)[i] = d[i].size
        BY <4>1 DEF SizesOf
      <4> QED  BY <2>3, <2>4, <3>1, <3>2, <4>2
    <3>3. CASE ~(i <= Len(d))
      <4>1. i - Len(d) \in 1 .. Len(e) /\ 1 .. Len(e) = DOMAIN e
        BY <2>1, <3>3
      <4>2. SizesOf(e)[i - Len(d)] = e[i - Len(d)].size
        BY <4>1 DEF SizesOf
      <4> QED  BY <2>3, <2>4, <3>1, <3>3, <4>2
    <3> QED  BY <3>2, <3>3
  <2>6. Len(SizesOf(c)) = Len(c)
    BY <2>1, <2>4
  <2>7. SizesOf(c) = u
    BY <2>3, <2>4, <2>5, <2>6, SeqEqual
  <2> QED  BY <2>7 DEF c, u
<1> QED  BY <1>1, <1>3, <1>4, SumConcat

LEMMA DataFew ==
    /\ DataSize(<<>>) = 0
    /\ \A e \in EntryType : DataSize(<<e>>) = e.size
<1>1. <<>> \in Seq(EntryType) /\ SizesOf(<<>>) = <<>>
  BY EmptySeq DEF SizesOf
<1>2. ASSUME NEW e \in EntryType PROVE DataSize(<<e>>) = e.size
  <2>1. e.size \in Nat /\ <<>> \in Seq(Nat) /\ SumOf(<<>>) = 0
    BY SumEmpty, EmptySeq DEF EntryType
  <2>2. SizesOf(<<e>>) = Append(<<>>, e.size)
    BY DEF SizesOf
  <2>3. SumOf(Append(<<>>, e.size)) = e.size
    <3>1. \A x \in Nat : SumOf(Append(<<>>, x)) = SumOf(<<>>) + x
      BY <2>1, SumAppend
    <3>2. SumOf(Append(<<>>, e.size)) = 0 + e.size /\ 0 + e.size = e.size
      BY <2>1, <3>1
    <3> QED  BY <3>2
  <2>4. DataSize(<<e>>) = SumOf(SizesOf(<<e>>))
    BY DEF DataSize, SizesOf
  <2> QED  BY <2>2, <2>3, <2>4, Zenon
<1>3. DataSize(<<>>) = 0
  BY <1>1, SizesTyped, SumEmpty
<1> QED  BY <1>2, <1>3

-----------------------------------------------------------------------------
(* Positions                                                                *)

LEMMA MaxGreatest ==
    ASSUME NEW n \in Nat, NEW S \in SUBSET (0 .. n), S # {}
    PROVE  Max(S) \in S /\ \A i \in S : i <= Max(S)
<1>1. \E m \in S : \A i \in S : m >= i
  BY GreatestExists
<1> QED  BY <1>1 DEF Max

(* What is picked from a sequence: every position once, in order.            *)
Picks(f, k, P) ==
    /\ \A j \in 1 .. k : f[j] \in P
    /\ \A i, j \in 1 .. k : i < j => f[i] < f[j]
    /\ \A p \in P : \E j \in 1 .. k : f[j] = p

PickedBy(s, P, f, k) == Picked(s, P) = [j \in 1 .. k |-> s[f[j]]] /\ Picks(f, k, P)

LEMMA PickedIs ==
    ASSUME NEW n \in Nat, NEW s, NEW P \in SUBSET (1 .. n)
    PROVE  \E f : \E k \in Nat : PickedBy(s, P, f, k)
<1>1. P \in SUBSET Nat /\ IsFiniteSet(P)
  <2>1. IsFiniteSet(1 .. n)
    BY FS_Interval
  <2>2. IsFiniteSet(P)
    BY <2>1, FS_Subset
  <2> QED  BY <2>2
<1> DEFINE f == InOrder(P)
           k == Cardinality(P)
<1>2. k \in Nat /\ (\A i \in 1 .. k : f[i] \in P) /\ \A p \in P : \E i \in 1 .. k : f[i] = p
  BY <1>1, InOrderEnumerates
<1>3. \A i, j \in 1 .. k : i < j => f[i] < f[j]
  BY <1>1, InOrderAscends
<1>4. Picked(s, P) = [j \in 1 .. k |-> s[f[j]]]
  BY DEF Picked
<1> HIDE DEF f, k
<1>5. Picks(f, k, P)
  BY <1>2, <1>3 DEF Picks
<1>6. PickedBy(s, P, f, k)
  BY <1>4, <1>5 DEF PickedBy
<1> QED  BY <1>2, <1>6

(* The elements of a sequence behind the m-th, up to the n-th.               *)
Cut(s, m, n) == SubSeq(s, m + 1, n)

IsCut(u, S, s, m, n) ==
    u \in Seq(S) /\ Len(u) = n - m /\ \A p \in 1 .. n - m : u[p] = s[m + p]

LEMMA CutIs ==
    ASSUME NEW S, NEW s \in Seq(S), NEW m \in Nat, NEW n \in Nat, m <= n, n <= Len(s)
    PROVE  IsCut(Cut(s, m, n), S, s, m, n)
<1>1. Len(s) \in Nat /\ \A p \in 1 .. Len(s) : s[p] \in S
  BY LenProperties, ElementOfSeq
<1>2. m + 1 \in Int /\ n \in Int /\ \A p \in m + 1 .. n : s[p] \in S
  BY <1>1
<1> DEFINE u == Cut(s, m, n)
<1>3. /\ u \in Seq(S) /\ Len(u) = IF m + 1 <= n THEN n - (m + 1) + 1 ELSE 0
      /\ \A p \in 1 .. n - (m + 1) + 1 : u[p] = s[(m + 1) + p - 1]
  BY <1>2, SubSeqProperties DEF Cut
<1> HIDE DEF u
<1>4. Len(u) = n - m
  BY <1>3
<1>5. ASSUME NEW p \in 1 .. n - m PROVE u[p] = s[m + p]
  <2>1. p \in 1 .. n - (m + 1) + 1 /\ (m + 1) + p - 1 = m + p
    OBVIOUS
  <2> QED  BY <1>3, <2>1
<1> QED  BY <1>3, <1>4, <1>5 DEF u, IsCut

-----------------------------------------------------------------------------
(* merge_sort                                                               *)

(* Buffers whose entries are all different.                                  *)
BufsOK(bufs) ==
    /\ bufs \in Seq(Seq(EntryType))
    /\ \A i, j \in 1 .. Len(bufs) : \A k \in 1 .. Len(bufs[i]), m \in 1 .. Len(bufs[j]) :
          bufs[i][k] = bufs[j][m] => i = j /\ k = m

(* What is left of the buffers when k[i] entries have been taken from the    *)
(* i-th.                                                                     *)
Remaining(bufs, k) == [i \in 1 .. Len(bufs) |-> Cut(bufs[i], k[i], Len(bufs[i]))]

Counts(bufs, k) == k \in [1 .. Len(bufs) -> Nat] /\ \A i \in 1 .. Len(bufs) : k[i] <= Len(bufs[i])

(* The entries between two counts are written as out: each at most once, and *)
(* none is left out but for one with the same key that is not older.         *)
Wrote(bufs, k, l, out) ==
    /\ out \in Seq(EntryType)
    /\ \A a, b \in 1 .. Len(out) : out[a] = out[b] => a = b
    /\ \A a \in 1 .. Len(out) :
          \E i \in 1 .. Len(bufs), p \in Nat : k[i] < p /\ p <= l[i] /\ out[a] = bufs[i][p]
    /\ \A i \in 1 .. Len(bufs), p \in Nat : k[i] < p /\ p <= l[i] =>
          \E a \in 1 .. Len(out) : out[a].key = bufs[i][p].key /\ bufs[i][p].seq <= out[a].seq

Nothing(bufs) == [i \in 1 .. Len(bufs) |-> 0]

LEMMA WroteMore ==
    ASSUME NEW bufs, BufsOK(bufs), NEW k, Counts(bufs, k), NEW l, Counts(bufs, l),
           NEW z, Counts(bufs, z),
           \A i \in 1 .. Len(bufs) : z[i] <= k[i] /\ k[i] <= l[i],
           NEW out, Wrote(bufs, z, k, out), NEW more, Wrote(bufs, k, l, more)
    PROVE  Wrote(bufs, z, l, out \o more)
<1> DEFINE u == out \o more
<1>1. /\ out \in Seq(EntryType) /\ more \in Seq(EntryType) /\ Len(out) \in Nat /\ Len(more) \in Nat
      /\ \A i \in 1 .. Len(bufs) : z[i] \in Nat /\ k[i] \in Nat /\ l[i] \in Nat
      /\ \A i \in 1 .. Len(bufs) : Len(bufs[i]) \in Nat /\ k[i] <= Len(bufs[i]) /\ l[i] <= Len(bufs[i])
  <2>1. out \in Seq(EntryType) /\ more \in Seq(EntryType)
    BY DEF Wrote
  <2>2. bufs \in Seq(Seq(EntryType))
    BY DEF BufsOK
  <2>3. \A i \in 1 .. Len(bufs) : bufs[i] \in Seq(EntryType)
    BY <2>2, ElementOfSeq
  <2>4. \A i \in 1 .. Len(bufs) : Len(bufs[i]) \in Nat
    BY <2>3, LenProperties
  <2> QED  BY <2>1, <2>4, LenProperties DEF Counts
<1>2. /\ u \in Seq(EntryType) /\ Len(u) = Len(out) + Len(more)
      /\ \A a \in 1 .. Len(out) + Len(more) : u[a] = IF a <= Len(out) THEN out[a] ELSE more[a - Len(out)]
  BY <1>1, ConcatProperties
<1> HIDE DEF u
<1>3. \A a \in 1 .. Len(out) : \E i \in 1 .. Len(bufs), p \in Nat :
         z[i] < p /\ p <= k[i] /\ out[a] = bufs[i][p]
  BY DEF Wrote
<1>4. \A a \in 1 .. Len(more) : \E i \in 1 .. Len(bufs), p \in Nat :
         k[i] < p /\ p <= l[i] /\ more[a] = bufs[i][p]
  BY DEF Wrote
<1>5. \A a \in 1 .. Len(out), b \in 1 .. Len(more) : out[a] # more[b]
  <2> SUFFICES ASSUME NEW a \in 1 .. Len(out), NEW b \in 1 .. Len(more), out[a] = more[b]
               PROVE  FALSE
    OBVIOUS
  <2>1. PICK i \in 1 .. Len(bufs), p \in Nat : z[i] < p /\ p <= k[i] /\ out[a] = bufs[i][p]
    BY <1>3
  <2>2. PICK j \in 1 .. Len(bufs), q \in Nat : k[j] < q /\ q <= l[j] /\ more[b] = bufs[j][q]
    BY <1>4
  <2>3. p \in 1 .. Len(bufs[i]) /\ q \in 1 .. Len(bufs[j])
    <3>1. z[i] \in Nat /\ k[i] \in Nat /\ Len(bufs[i]) \in Nat /\ k[i] <= Len(bufs[i])
      BY <1>1
    <3>2. k[j] \in Nat /\ l[j] \in Nat /\ Len(bufs[j]) \in Nat /\ l[j] <= Len(bufs[j])
      BY <1>1
    <3>3. z[i] < p /\ p <= k[i] /\ k[j] < q /\ q <= l[j]
      BY <2>1, <2>2
    <3>4. p \in 1 .. Len(bufs[i])
      BY <3>1, <3>3, Between, Zenon
    <3>5. q \in 1 .. Len(bufs[j])
      BY <3>2, <3>3, Between, Zenon
    <3> QED  BY <3>4, <3>5
  <2>4. bufs[i][p] = bufs[j][q]
    BY <2>1, <2>2
  <2>5. i = j /\ p = q
    BY <2>3, <2>4 DEF BufsOK
  <2>6. k[i] \in Nat
    BY <1>1
  <2> QED  BY <2>1, <2>2, <2>5, <2>6
<1>6. \A a, b \in 1 .. Len(u) : u[a] = u[b] => a = b
  <2> SUFFICES ASSUME NEW a \in 1 .. Len(u), NEW b \in 1 .. Len(u), u[a] = u[b]
               PROVE  a = b
    OBVIOUS
  <2>0. /\ \A x, y \in 1 .. Len(out) : out[x] = out[y] => x = y
        /\ \A x, y \in 1 .. Len(more) : more[x] = more[y] => x = y
    BY DEF Wrote
  <2>1. CASE a <= Len(out) /\ b <= Len(out)
    <3>1. a \in 1 .. Len(out) /\ b \in 1 .. Len(out)
      BY <1>1, <1>2, <2>1
    <3>2. out[a] = out[b]
      BY <1>1, <1>2, <2>1
    <3> QED  BY <2>0, <3>1, <3>2
  <2>2. CASE ~(a <= Len(out)) /\ ~(b <= Len(out))
    <3>1. a - Len(out) \in 1 .. Len(more) /\ b - Len(out) \in 1 .. Len(more)
      BY <1>1, <1>2, <2>2
    <3>2. more[a - Len(out)] = more[b - Len(out)]
      BY <1>1, <1>2, <2>2
    <3>3. a - Len(out) = b - Len(out)
      BY <2>0, <3>1, <3>2
    <3> QED  BY <1>1, <1>2, <3>3
  <2>3. CASE a <= Len(out) /\ ~(b <= Len(out))
    <3>1. a \in 1 .. Len(out) /\ b - Len(out) \in 1 .. Len(more)
      BY <1>1, <1>2, <2>3
    <3> QED  BY <1>1, <1>2, <1>5, <2>3, <3>1
  <2>4. CASE ~(a <= Len(out)) /\ b <= Len(out)
    <3>1. b \in 1 .. Len(out) /\ a - Len(out) \in 1 .. Len(more)
      BY <1>1, <1>2, <2>4
    <3> QED  BY <1>1, <1>2, <1>5, <2>4, <3>1
  <2> QED  BY <2>1, <2>2, <2>3, <2>4
<1>7. ASSUME NEW a \in 1 .. Len(u)
      PROVE  \E i \in 1 .. Len(bufs), p \in Nat : z[i] < p /\ p <= l[i] /\ u[a] = bufs[i][p]
  <2>1. CASE a <= Len(out)
    <3>1. a \in 1 .. Len(out) /\ u[a] = out[a]
      BY <1>1, <1>2, <2>1
    <3>2. PICK i \in 1 .. Len(bufs), p \in Nat : z[i] < p /\ p <= k[i] /\ out[a] = bufs[i][p]
      BY <1>3, <3>1
    <3>3. p <= l[i]
      BY <1>1, <3>2
    <3> QED  BY <3>1, <3>2, <3>3
  <2>2. CASE ~(a <= Len(out))
    <3>1. a - Len(out) \in 1 .. Len(more) /\ u[a] = more[a - Len(out)]
      BY <1>1, <1>2, <2>2
    <3>2. PICK i \in 1 .. Len(bufs), p \in Nat :
             k[i] < p /\ p <= l[i] /\ more[a - Len(out)] = bufs[i][p]
      BY <1>4, <3>1
    <3>3. z[i] < p
      BY <1>1, <3>2
    <3> QED  BY <3>1, <3>2, <3>3
  <2> QED  BY <2>1, <2>2
<1>8. ASSUME NEW i \in 1 .. Len(bufs), NEW p \in Nat, z[i] < p, p <= l[i]
      PROVE  \E a \in 1 .. Len(u) : u[a].key = bufs[i][p].key /\ bufs[i][p].seq <= u[a].seq
  <2>1. CASE p <= k[i]
    <3>1. PICK a \in 1 .. Len(out) : out[a].key = bufs[i][p].key /\ bufs[i][p].seq <= out[a].seq
      BY <1>8, <2>1 DEF Wrote
    <3>2. a \in 1 .. Len(u) /\ u[a] = out[a]
      BY <1>1, <1>2
    <3> QED  BY <3>1, <3>2
  <2>2. CASE ~(p <= k[i])
    <3>0. k[i] < p
      BY <1>1, <2>2
    <3>1. PICK a \in 1 .. Len(more) : more[a].key = bufs[i][p].key /\ bufs[i][p].seq <= more[a].seq
      BY <1>8, <3>0 DEF Wrote
    <3>2. a + Len(out) \in 1 .. Len(out) + Len(more) /\ ~(a + Len(out) <= Len(out))
          /\ (a + Len(out)) - Len(out) = a
      BY <1>1
    <3>3. a + Len(out) \in 1 .. Len(u) /\ u[a + Len(out)] = more[a]
      BY <1>2, <3>2
    <3> QED  BY <3>1, <3>3
  <2> QED  BY <2>1, <2>2
<1> QED  BY <1>2, <1>6, <1>7, <1>8 DEF Wrote, u

(* A state of merge_sort after some rounds over the buffers.                 *)
AccType == [out : Seq(EntryType), bufs : Seq(Seq(EntryType)), result : {"ok", "spins"}]

ServedTo(bufs, k, acc) ==
    /\ acc \in AccType /\ Counts(bufs, k)
    /\ acc.bufs = Remaining(bufs, k)
    /\ Wrote(bufs, Nothing(bufs), k, acc.out)

Served(bufs, acc) == \E k : ServedTo(bufs, k, acc)

LEMMA BufsTyped ==
    ASSUME NEW bufs, BufsOK(bufs)
    PROVE  /\ Len(bufs) \in Nat /\ DOMAIN bufs = 1 .. Len(bufs)
           /\ \A i \in 1 .. Len(bufs) :
                 /\ bufs[i] \in Seq(EntryType) /\ Len(bufs[i]) \in Nat
                 /\ \A p \in 1 .. Len(bufs[i]) : bufs[i][p] \in EntryType
<1>1. bufs \in Seq(Seq(EntryType))
  BY DEF BufsOK
<1>2. \A i \in 1 .. Len(bufs) : bufs[i] \in Seq(EntryType)
  BY <1>1, ElementOfSeq
<1>3. \A s \in Seq(EntryType) : Len(s) \in Nat /\ \A p \in 1 .. Len(s) : s[p] \in EntryType
  BY LenProperties, ElementOfSeq
<1> QED  BY <1>1, <1>2, <1>3, LenProperties

(* What is left of one buffer.                                               *)
LEMMA RemainingIs ==
    ASSUME NEW bufs, BufsOK(bufs), NEW k, Counts(bufs, k)
    PROVE  /\ Remaining(bufs, k) \in Seq(Seq(EntryType)) /\ Len(Remaining(bufs, k)) = Len(bufs)
           /\ \A i \in 1 .. Len(bufs) :
                 LET r == Remaining(bufs, k)[i] IN
                 /\ r \in Seq(EntryType) /\ Len(r) = Len(bufs[i]) - k[i] /\ k[i] \in 0 .. Len(bufs[i])
                 /\ r = Cut(bufs[i], k[i], Len(bufs[i]))
                 /\ \A p \in 1 .. Len(bufs[i]) - k[i] : r[p] = bufs[i][k[i] + p]
<1> DEFINE R == Remaining(bufs, k)
<1>1. ASSUME NEW i \in 1 .. Len(bufs)
      PROVE  /\ R[i] \in Seq(EntryType) /\ Len(R[i]) = Len(bufs[i]) - k[i] /\ k[i] \in 0 .. Len(bufs[i])
             /\ R[i] = Cut(bufs[i], k[i], Len(bufs[i]))
             /\ \A p \in 1 .. Len(bufs[i]) - k[i] : R[i][p] = bufs[i][k[i] + p]
  <2> DEFINE s == bufs[i]
             a == k[i]
             r == Cut(s, a, Len(s))
  <2>1. s \in Seq(EntryType) /\ Len(s) \in Nat /\ \A p \in 1 .. Len(s) : s[p] \in EntryType
    BY BufsTyped
  <2>2. a \in Nat /\ a <= Len(s) /\ R[i] = r
    BY DEF Counts, Remaining
  <2> HIDE DEF s, a, R
  <2>3. r \in Seq(EntryType) /\ Len(r) = Len(s) - a /\ \A p \in 1 .. Len(s) - a : r[p] = s[a + p]
    <3>1. IsCut(r, EntryType, s, a, Len(s))
      BY <2>1, <2>2, CutIs
    <3> HIDE DEF r
    <3> QED  BY <3>1 DEF IsCut
  <2> HIDE DEF r
  <2>7. R[i] \in Seq(EntryType) /\ Len(R[i]) = Len(s) - a /\ a \in 0 .. Len(s)
        /\ R[i] = r /\ \A p \in 1 .. Len(s) - a : R[i][p] = s[a + p]
    BY <2>1, <2>2, <2>3
  <2> QED  BY <2>7 DEF s, a, r
<1>2. Len(bufs) \in Nat
  BY BufsTyped
<1>3. R \in [1 .. Len(bufs) -> Seq(EntryType)]
  BY <1>1 DEF Remaining
<1> HIDE DEF R
<1>4. R \in Seq(Seq(EntryType)) /\ Len(R) = Len(bufs)
  <2>1. R \in Seq(Seq(EntryType)) /\ DOMAIN R = 1 .. Len(bufs)
    BY <1>2, <1>3, SeqDef
  <2> QED  BY <1>2, <2>1, LenProperties
<1> QED  BY <1>1, <1>4 DEF R

LEMMA ServedStart ==
    ASSUME NEW bufs, BufsOK(bufs)
    PROVE  Served(bufs, [out |-> <<>>, bufs |-> bufs, result |-> "ok"])
<1> DEFINE k == Nothing(bufs)
           acc == [out |-> <<>>, bufs |-> bufs, result |-> "ok"]
<1>1. Counts(bufs, k)
  BY BufsTyped DEF Counts, Nothing
<1>2. Remaining(bufs, k) = bufs
  <2>1. ASSUME NEW i \in 1 .. Len(bufs) PROVE Cut(bufs[i], k[i], Len(bufs[i])) = bufs[i]
    <3>1. k[i] + 1 = 1 /\ bufs[i] \in Seq(EntryType)
      BY BufsTyped DEF Nothing
    <3> QED  BY <3>1, SubSeqFull DEF Cut
  <2>2. DOMAIN bufs = 1 .. Len(bufs) /\ bufs \in Seq(Seq(EntryType))
    BY BufsTyped DEF BufsOK
  <2>3. bufs = [i \in 1 .. Len(bufs) |-> bufs[i]]
    BY <2>2
  <2> HIDE DEF k
  <2>4. Remaining(bufs, k) = [i \in 1 .. Len(bufs) |-> bufs[i]]
    BY <2>1 DEF Remaining
  <2> QED  BY <2>3, <2>4, Zenon
<1>3. acc \in AccType /\ acc.out = <<>> /\ acc.bufs = bufs
  <2>1. <<>> \in Seq(EntryType) /\ bufs \in Seq(Seq(EntryType))
    BY EmptySeq DEF BufsOK
  <2> QED  BY <2>1 DEF AccType
<1>4. Wrote(bufs, Nothing(bufs), k, <<>>)
  <2>1. \A i \in 1 .. Len(bufs), p \in Nat : ~(k[i] < p /\ p <= k[i])
    BY DEF Nothing
  <2>2. <<>> \in Seq(EntryType) /\ 1 .. Len(<<>>) = {}
    BY EmptySeq
  <2> HIDE DEF k
  <2> QED  BY <2>1, <2>2 DEF Wrote, k
<1> HIDE DEF k, acc
<1> QED  BY <1>1, <1>2, <1>3, <1>4 DEF Served, ServedTo, acc

LEMMA ServedMore ==
    ASSUME NEW bufs, BufsOK(bufs), NEW k, NEW acc, ServedTo(bufs, k, acc),
           NEW l, Counts(bufs, l), \A i \in 1 .. Len(bufs) : k[i] <= l[i],
           NEW more, Wrote(bufs, k, l, more), NEW next \in AccType,
           next.out = acc.out \o more, next.bufs = Remaining(bufs, l)
    PROVE  ServedTo(bufs, l, next)
<1>1. Counts(bufs, k) /\ Wrote(bufs, Nothing(bufs), k, acc.out)
  BY DEF ServedTo
<1>2. Counts(bufs, Nothing(bufs)) /\ \A i \in 1 .. Len(bufs) : Nothing(bufs)[i] <= k[i]
  <2>1. \A i \in 1 .. Len(bufs) : Len(bufs[i]) \in Nat /\ k[i] \in Nat
    BY <1>1, BufsTyped DEF Counts
  <2> QED  BY <2>1 DEF Counts, Nothing
<1>3. Wrote(bufs, Nothing(bufs), l, acc.out \o more)
  BY <1>1, <1>2, WroteMore
<1> QED  BY <1>3 DEF ServedTo

(* One more entry of each buffer in a set, or some more of one.              *)
LEMMA RemainingTail ==
    ASSUME NEW bufs, BufsOK(bufs), NEW k, Counts(bufs, k), NEW i \in 1 .. Len(bufs),
           NEW n \in 0 .. Len(bufs[i]) - k[i], NEW s, s = Cut(bufs[i], k[i], Len(bufs[i]))
    PROVE  Cut(s, n, Len(s)) = Cut(bufs[i], k[i] + n, Len(bufs[i]))
<1> DEFINE b == bufs[i]
           a == k[i]
<1>1. b \in Seq(EntryType) /\ Len(b) \in Nat /\ a \in 0 .. Len(b) /\ n \in 0 .. Len(b) - a
      /\ \A p \in 1 .. Len(b) : b[p] \in EntryType
  BY BufsTyped DEF Counts
<1>2. s \in Seq(EntryType) /\ Len(s) = Len(b) - a /\ \A p \in 1 .. Len(b) - a : s[p] = b[a + p]
  <2>1. a \in Nat /\ a <= Len(b) /\ s = Cut(b, a, Len(b))
    BY <1>1
  <2>2. b \in Seq(EntryType) /\ Len(b) \in Nat
    BY <1>1
  <2> HIDE DEF a, b
  <2>3. IsCut(s, EntryType, b, a, Len(b))
    BY <2>1, <2>2, CutIs
  <2> QED  BY <2>3 DEF IsCut
<1> HIDE DEF b, a
<1> DEFINE u == Cut(s, n, Len(s))
           v == Cut(b, a + n, Len(b))
<1>3. /\ u \in Seq(EntryType) /\ Len(u) = Len(b) - a - n
      /\ \A p \in 1 .. Len(b) - a - n : u[p] = b[a + n + p]
  <2>1. n \in Nat /\ Len(s) \in Nat /\ n <= Len(s)
    BY <1>1, <1>2
  <2>2. /\ u \in Seq(EntryType) /\ Len(u) = Len(s) - n
        /\ \A p \in 1 .. Len(s) - n : u[p] = s[n + p]
    <3>1. IsCut(u, EntryType, s, n, Len(s))
      BY <1>2, <2>1, CutIs
    <3> HIDE DEF u
    <3> QED  BY <3>1 DEF IsCut
  <2> HIDE DEF u
  <2>3. Len(u) = Len(b) - a - n
    BY <1>1, <1>2, <2>2
  <2>4. ASSUME NEW p \in 1 .. Len(b) - a - n PROVE u[p] = b[a + n + p]
    <3>1. p \in 1 .. Len(s) - n /\ n + p \in 1 .. Len(b) - a /\ a + (n + p) = a + n + p
      BY <1>1, <1>2
    <3> QED  BY <1>2, <2>2, <3>1
  <2> QED  BY <2>2, <2>3, <2>4
<1>4. /\ v \in Seq(EntryType) /\ Len(v) = Len(b) - a - n
      /\ \A p \in 1 .. Len(b) - a - n : v[p] = b[a + n + p]
  <2>1. a + n \in Nat /\ a + n <= Len(b) /\ Len(b) - (a + n) = Len(b) - a - n
    BY <1>1
  <2>2. /\ v \in Seq(EntryType) /\ Len(v) = Len(b) - (a + n)
        /\ \A p \in 1 .. Len(b) - (a + n) : v[p] = b[(a + n) + p]
    <3>1. IsCut(v, EntryType, b, a + n, Len(b))
      BY <1>1, <2>1, CutIs
    <3> HIDE DEF v
    <3> QED  BY <3>1 DEF IsCut
  <2> HIDE DEF v
  <2> QED  BY <2>1, <2>2
<1> HIDE DEF u, v
<1>5. u = v
  BY <1>3, <1>4, SeqEqual
<1> QED  BY <1>5 DEF u, v, a, b

(* A round with one buffer.                                                  *)
LEMMA ServedOne ==
    ASSUME NEW bufs, BufsOK(bufs), NEW acc, Served(bufs, acc), NEW i \in 1 .. Len(bufs), NEW limit
    PROVE  /\ Served(bufs, TakeFromOne(acc, i, limit))
           /\ TakeFromOne(acc, i, limit).result = acc.result
<1>1. PICK k : ServedTo(bufs, k, acc)
  BY DEF Served
<1> DEFINE s == acc.bufs[i]
           N == {n \in 0 .. Len(s) : \A j \in 1 .. n : s[j].key <= limit}
           n == Max(N)
           taken == Cut(s, 0, n)
           rest == Cut(s, Len(taken), Len(s))
           next == [acc EXCEPT !.out = @ \o taken, !.bufs[i] = rest]
           l == [k EXCEPT ![i] = k[i] + n]
<1>2. /\ acc \in AccType /\ Counts(bufs, k) /\ acc.bufs = Remaining(bufs, k)
      /\ k \in [1 .. Len(bufs) -> Nat]
  BY <1>1 DEF ServedTo, Counts
<1>3. /\ s \in Seq(EntryType) /\ Len(s) = Len(bufs[i]) - k[i] /\ k[i] \in 0 .. Len(bufs[i])
      /\ s = Cut(bufs[i], k[i], Len(bufs[i]))
      /\ (\A p \in 1 .. Len(bufs[i]) - k[i] : s[p] = bufs[i][k[i] + p]) /\ Len(bufs[i]) \in Nat
  BY <1>2, RemainingIs, BufsTyped
<1>4. TakeFromOne(acc, i, limit) = next
  BY DEF TakeFromOne, TakeWhile, Cut
<1> HIDE DEF s
<1>5. n \in 0 .. Len(s)
  <2>1. 0 \in N /\ Len(s) \in Nat /\ N \in SUBSET (0 .. Len(s))
    BY <1>3
  <2> HIDE DEF N
  <2>2. Max(N) \in N
    BY <2>1, MaxGreatest
  <2> QED  BY <2>1, <2>2
<1> HIDE DEF n, N
<1>6. /\ taken \in Seq(EntryType) /\ Len(taken) = n
      /\ \A a \in 1 .. n : taken[a] = s[a]
  <2>1. 0 \in Nat /\ n \in Nat /\ 0 <= n /\ n <= Len(s)
    BY <1>3, <1>5
  <2>2. /\ taken \in Seq(EntryType) /\ Len(taken) = n - 0
        /\ \A p \in 1 .. n - 0 : taken[p] = s[0 + p]
    <3>1. IsCut(taken, EntryType, s, 0, n)
      BY <1>3, <2>1, CutIs
    <3> HIDE DEF taken
    <3> QED  BY <3>1 DEF IsCut
  <2> HIDE DEF taken
  <2> QED  BY <2>1, <2>2
<1>7. Counts(bufs, l) /\ (\A j \in 1 .. Len(bufs) : k[j] <= l[j]) /\ l[i] = k[i] + n
      /\ \A j \in 1 .. Len(bufs) : j # i => l[j] = k[j]
  <2>1. k[i] + n \in Nat /\ k[i] + n <= Len(bufs[i]) /\ k[i] <= k[i] + n
    <3>1. k[i] \in Nat /\ Len(bufs[i]) \in Nat /\ Len(s) = Len(bufs[i]) - k[i] /\ n \in 0 .. Len(s)
      BY <1>3, <1>5
    <3> QED  BY <3>1
  <2>2. \A j \in 1 .. Len(bufs) : k[j] \in Nat /\ k[j] <= Len(bufs[j])
    BY <1>2 DEF Counts
  <2>3. l \in [1 .. Len(bufs) -> Nat] /\ l[i] = k[i] + n
        /\ \A j \in 1 .. Len(bufs) : j # i => l[j] = k[j]
    BY <1>2, <2>1
  <2> HIDE DEF l
  <2>4. ASSUME NEW j \in 1 .. Len(bufs) PROVE k[j] <= l[j] /\ l[j] <= Len(bufs[j])
    <3>1. CASE j = i
      BY <2>1, <2>3, <3>1
    <3>2. CASE j # i
      BY <2>2, <2>3, <3>2
    <3> QED  BY <3>1, <3>2
  <2> QED  BY <2>3, <2>4 DEF Counts
<1>8. rest = Cut(bufs[i], k[i] + n, Len(bufs[i])) /\ rest \in Seq(EntryType)
  <2>1. n \in 0 .. Len(bufs[i]) - k[i] /\ rest = Cut(s, n, Len(s))
    BY <1>3, <1>5, <1>6
  <2>2. Cut(s, n, Len(s)) = Cut(bufs[i], k[i] + n, Len(bufs[i]))
    <3>1. s = Cut(bufs[i], k[i], Len(bufs[i])) /\ n \in 0 .. Len(bufs[i]) - k[i]
      BY <1>3, <2>1
    <3> HIDE DEF taken, rest, next, l
    <3> QED  BY <1>2, <3>1, RemainingTail
  <2>3. \A j \in 1 .. Len(bufs) : Remaining(bufs, l)[j] \in Seq(EntryType)
    BY <1>7, RemainingIs
  <2>4. Remaining(bufs, l)[i] = Cut(bufs[i], k[i] + n, Len(bufs[i]))
    BY <1>7 DEF Remaining
  <2> QED  BY <2>1, <2>2, <2>3, <2>4
<1>9. Wrote(bufs, k, l, taken)
  <2> HIDE DEF taken, rest, next, l
  <2>0. \A a \in 1 .. n : k[i] + a \in 1 .. Len(bufs[i]) /\ taken[a] = bufs[i][k[i] + a]
    <3> SUFFICES ASSUME NEW a \in 1 .. n
                 PROVE  k[i] + a \in 1 .. Len(bufs[i]) /\ taken[a] = bufs[i][k[i] + a]
      OBVIOUS
    <3>1. a \in 1 .. Len(bufs[i]) - k[i] /\ k[i] + a \in 1 .. Len(bufs[i])
      BY <1>3, <1>5
    <3>2. taken[a] = s[a] /\ s[a] = bufs[i][k[i] + a]
      BY <1>3, <1>6, <3>1
    <3> QED  BY <3>1, <3>2
  <2>1. ASSUME NEW a \in 1 .. Len(taken), NEW b \in 1 .. Len(taken), taken[a] = taken[b]
        PROVE  a = b
    <3>1. /\ k[i] + a \in 1 .. Len(bufs[i]) /\ k[i] + b \in 1 .. Len(bufs[i])
          /\ bufs[i][k[i] + a] = bufs[i][k[i] + b]
      BY <1>6, <2>0, <2>1
    <3>2. k[i] + a = k[i] + b
      BY <3>1 DEF BufsOK
    <3> QED  BY <1>3, <3>2
  <2>2. ASSUME NEW a \in 1 .. Len(taken)
        PROVE  \E j \in 1 .. Len(bufs), p \in Nat : k[j] < p /\ p <= l[j] /\ taken[a] = bufs[j][p]
    <3>1. a \in 1 .. n /\ k[i] + a \in Nat /\ k[i] < k[i] + a /\ k[i] + a <= l[i]
      <4>1. a \in 1 .. n /\ l[i] = k[i] + n
        BY <1>6, <1>7
      <4> QED  BY <1>3, <1>5, <4>1
    <3>2. taken[a] = bufs[i][k[i] + a]
      BY <2>0, <3>1
    <3> QED  BY <3>1, <3>2
  <2>3. ASSUME NEW j \in 1 .. Len(bufs), NEW p \in Nat, k[j] < p, p <= l[j]
        PROVE  \E a \in 1 .. Len(taken) :
                  taken[a].key = bufs[j][p].key /\ bufs[j][p].seq <= taken[a].seq
    <3>1. j = i
      BY <1>2, <1>7, <2>3
    <3>2. p - k[i] \in 1 .. n /\ k[i] + (p - k[i]) = p
      BY <1>3, <1>5, <1>7, <2>3, <3>1
    <3>3. taken[p - k[i]] = bufs[i][p] /\ p \in 1 .. Len(bufs[i])
      BY <2>0, <3>2
    <3>4. bufs[i][p].seq \in Nat
      <4>1. bufs[i][p] \in EntryType
        BY <3>3, BufsTyped
      <4> QED  BY <4>1 DEF EntryType
    <3> QED  BY <1>6, <3>1, <3>2, <3>3, <3>4
  <2> QED  BY <1>6, <2>1, <2>2, <2>3 DEF Wrote
<1>10. next.bufs = Remaining(bufs, l) /\ next.out = acc.out \o taken /\ next \in AccType
       /\ next.result = acc.result
  <2> HIDE DEF taken, rest
  <2>1. /\ acc.out \in Seq(EntryType) /\ acc.bufs \in Seq(Seq(EntryType)) /\ acc.result \in {"ok", "spins"}
        /\ acc = [out |-> acc.out, bufs |-> acc.bufs, result |-> acc.result]
    BY <1>2 DEF AccType
  <2>2. /\ next.out = acc.out \o taken /\ next.bufs = [acc.bufs EXCEPT ![i] = rest]
        /\ next.result = acc.result
        /\ next = [out |-> next.out, bufs |-> next.bufs, result |-> next.result]
    <3> DEFINE O == acc.out
               B == acc.bufs
               r == acc.result
    <3>1. acc = [out |-> O, bufs |-> B, result |-> r]
      BY <2>1
    <3> HIDE DEF O, B, r
    <3>2. next = [[out |-> O, bufs |-> B, result |-> r] EXCEPT !.out = @ \o taken, !.bufs[i] = rest]
      BY <3>1
    <3>3. /\ next.out = O \o taken /\ next.bufs = [B EXCEPT ![i] = rest] /\ next.result = r
          /\ DOMAIN next = {"out", "bufs", "result"}
      BY <3>2
    <3> HIDE DEF next
    <3>4. next = [out |-> next.out, bufs |-> next.bufs, result |-> next.result]
      BY <3>2
    <3> QED  BY <3>3, <3>4 DEF O, B, r
  <2>3. [acc.bufs EXCEPT ![i] = rest] = Remaining(bufs, l)
    BY <1>2, <1>7, <1>8 DEF Remaining
  <2>4. Remaining(bufs, l) \in Seq(Seq(EntryType)) /\ acc.out \o taken \in Seq(EntryType)
    BY <1>6, <1>7, <2>1, RemainingIs, ConcatProperties
  <2> HIDE DEF next, l
  <2> QED  BY <2>1, <2>2, <2>3, <2>4 DEF AccType
<1> HIDE DEF next, l, taken, rest
<1>11. ServedTo(bufs, l, next)
  BY <1>1, <1>7, <1>9, <1>10, ServedMore
<1> QED  BY <1>4, <1>10, <1>11 DEF Served

(* One turn of the loop over several buffers.                                *)

(* Of some numbers one is the largest.                                       *)
LEMMA LargestOf ==
    ASSUME NEW n \in Nat, NEW f, \A i \in 1 .. n : f[i] \in Nat, NEW S \in SUBSET (1 .. n), S # {}
    PROVE  \E m \in S : \A i \in S : f[i] <= f[m]
<1> DEFINE P == {k \in Nat : k <= n => \A T \in SUBSET (1 .. k) :
                    T # {} => \E m \in T : \A i \in T : f[i] <= f[m]}
<1>1. 0 \in P
  <2>1. \A T \in SUBSET (1 .. 0) : T = {}
    OBVIOUS
  <2> QED  BY <2>1
<1>2. ASSUME NEW k \in Nat, k \in P PROVE k + 1 \in P
  <2> SUFFICES ASSUME k + 1 <= n, NEW T \in SUBSET (1 .. k + 1), T # {}
               PROVE  \E m \in T : \A i \in T : f[i] <= f[m]
    OBVIOUS
  <2> DEFINE U == T \ {k + 1}
  <2>1. U \in SUBSET (1 .. k) /\ k <= n /\ \A i \in T : f[i] \in Nat
    OBVIOUS
  <2>2. CASE U = {}
    <3>1. \A i \in T : i = k + 1
      BY <2>2
    <3>2. PICK m \in T : TRUE
      OBVIOUS
    <3>3. m = k + 1 /\ f[m] \in Nat
      BY <2>1, <3>1
    <3>4. \A i \in T : f[i] <= f[m]
      BY <3>1, <3>3
    <3> QED  BY <3>4
  <2>3. CASE U # {}
    <3>1. PICK m \in U : \A i \in U : f[i] <= f[m]
      BY <1>2, <2>1, <2>3
    <3>2. CASE k + 1 \notin T
      BY <3>1, <3>2
    <3>3. CASE k + 1 \in T
      <4>1. f[m] \in Nat /\ f[k + 1] \in Nat /\ m \in T
        BY <2>1, <3>3
      <4>2. CASE f[k + 1] <= f[m]
        BY <3>1, <4>1, <4>2
      <4>3. CASE ~(f[k + 1] <= f[m])
        <5>1. \A i \in T : f[i] <= f[k + 1]
          BY <2>1, <3>1, <4>1, <4>3
        <5> QED  BY <3>3, <5>1
      <4> QED  BY <4>2, <4>3
    <3> QED  BY <3>2, <3>3
  <2> QED  BY <2>2, <2>3
<1>3. \A k \in Nat : k \in P
  <2> HIDE DEF P
  <2> QED  BY <1>1, <1>2, Adding!SetInduction
<1>4. n \in P
  <2> HIDE DEF P
  <2> QED  BY <1>3
<1> QED  BY <1>4

(* Newest takes one of the entries, and none of the others is newer.         *)
LEMMA NewestIs ==
    ASSUME NEW n \in Nat, NEW f, \A i \in 1 .. n : f[i] \in EntryType, NEW S \in SUBSET (1 .. n), S # {},
           NEW set, set = {f[i] : i \in S}
    PROVE  \E m \in S : Newest(set) = f[m] /\ \A i \in S : f[i].seq <= f[m].seq
<1> DEFINE g == [i \in 1 .. n |-> f[i].seq]
<1>1. \A i \in 1 .. n : g[i] \in Nat /\ g[i] = f[i].seq
  <2>1. \A x \in EntryType : x.seq \in Nat
    BY DEF EntryType
  <2> QED  BY <2>1
<1> HIDE DEF g
<1>2. PICK m \in S : \A i \in S : g[i] <= g[m]
  BY <1>1, LargestOf
<1>3. \E e \in set : \A d \in set : d.seq <= e.seq
  BY <1>1, <1>2
<1>4. Newest(set) \in set /\ \A d \in set : d.seq <= Newest(set).seq
  BY <1>3 DEF Newest
<1>5. PICK h \in S : Newest(set) = f[h]
  BY <1>4
<1>6. \A i \in S : f[i].seq <= f[h].seq
  BY <1>4, <1>5
<1> QED  BY <1>5, <1>6

(* What is in front of a buffer that is not empty.                           *)
LEMMA FrontIs ==
    ASSUME NEW bufs, BufsOK(bufs), NEW k, Counts(bufs, k), NEW i \in 1 .. Len(bufs),
           Remaining(bufs, k)[i] # <<>>
    PROVE  /\ k[i] + 1 \in 1 .. Len(bufs[i]) /\ k[i] \in Nat
           /\ Head(Remaining(bufs, k)[i]) = bufs[i][k[i] + 1] /\ bufs[i][k[i] + 1] \in EntryType
           /\ FrontKey(Remaining(bufs, k)[i]) \in Nat
           /\ Tail(Remaining(bufs, k)[i]) = Cut(bufs[i], k[i] + 1, Len(bufs[i]))
<1> DEFINE s == Remaining(bufs, k)[i]
<1>1. /\ s \in Seq(EntryType) /\ Len(s) = Len(bufs[i]) - k[i] /\ k[i] \in 0 .. Len(bufs[i])
      /\ s = Cut(bufs[i], k[i], Len(bufs[i]))
      /\ \A p \in 1 .. Len(bufs[i]) - k[i] : s[p] = bufs[i][k[i] + p]
  <2>1. s = Remaining(bufs, k)[i]
    OBVIOUS
  <2> HIDE DEF s
  <2>2. /\ s \in Seq(EntryType) /\ Len(s) = Len(bufs[i]) - k[i] /\ k[i] \in 0 .. Len(bufs[i])
        /\ s = Cut(bufs[i], k[i], Len(bufs[i]))
    BY <2>1, RemainingIs
  <2>3. \A p \in 1 .. Len(bufs[i]) - k[i] : s[p] = bufs[i][k[i] + p]
    BY <2>1, RemainingIs
  <2> QED  BY <2>2, <2>3, Zenon
<1>2. Len(bufs[i]) \in Nat /\ \A p \in 1 .. Len(bufs[i]) : bufs[i][p] \in EntryType
  BY BufsTyped
<1>3. s # <<>>
  OBVIOUS
<1> HIDE DEF s
<1>4. Len(s) \in Nat \ {0} /\ Head(s) = s[1] /\ Tail(s) = Cut(s, 1, Len(s))
  <2>1. Len(s) \in Nat \ {0}
    BY <1>1, <1>3, EmptySeq
  <2>2. Tail(s) = SubSeq(s, 2, Len(s))
    BY <1>1, <1>3, TailIsSubSeq
  <2>3. SubSeq(s, 2, Len(s)) = Cut(s, 1, Len(s))
    <3>1. 1 + 1 = 2
      OBVIOUS
    <3> QED  BY <3>1 DEF Cut
  <2>4. Head(s) = s[1]
    OBVIOUS
  <2> QED  BY <2>1, <2>2, <2>3, <2>4, Zenon
<1>5. k[i] + 1 \in 1 .. Len(bufs[i]) /\ 1 \in 0 .. Len(bufs[i]) - k[i] /\ k[i] \in Nat
      /\ 1 \in 1 .. Len(bufs[i]) - k[i]
  BY <1>1, <1>2, <1>4
<1>6. Head(s) = bufs[i][k[i] + 1] /\ bufs[i][k[i] + 1] \in EntryType
  BY <1>1, <1>2, <1>4, <1>5
<1>7. Cut(s, 1, Len(s)) = Cut(bufs[i], k[i] + 1, Len(bufs[i]))
  BY <1>1, <1>5, RemainingTail
<1>8. FrontKey(s) \in Nat
  BY <1>6 DEF FrontKey, EntryType
<1> QED  BY <1>4, <1>5, <1>6, <1>7, <1>8 DEF s

LEMMA ServedSeveral ==
    ASSUME NEW bufs, BufsOK(bufs), NEW acc, Served(bufs, acc), NEW limit,
           NEW ready, ready \subseteq 1 .. Len(bufs), \A i \in ready : acc.bufs[i] # <<>>
    PROVE  Served(bufs, TakeFromSeveral(acc, ready, limit))
<1>1. PICK k : ServedTo(bufs, k, acc)
  BY DEF Served
<1> DEFINE fronts == {FrontKey(acc.bufs[i]) : i \in ready}
           key == Min(fronts)
           equal == {i \in ready : FrontKey(acc.bufs[i]) = key}
           new == NewestFront(acc.bufs, equal)
           next == [acc EXCEPT !.out = Append(@, new), !.bufs = Popped(@, equal)]
           l == [i \in 1 .. Len(bufs) |-> IF i \in equal THEN k[i] + 1 ELSE k[i]]
           more == <<new>>
<1>2. /\ acc \in AccType /\ Counts(bufs, k) /\ acc.bufs = Remaining(bufs, k)
      /\ k \in [1 .. Len(bufs) -> Nat] /\ Len(bufs) \in Nat
  BY <1>1, BufsTyped DEF ServedTo, Counts
<1>3. \/ TakeFromSeveral(acc, ready, limit) = acc
      \/ TakeFromSeveral(acc, ready, limit) = [acc EXCEPT !.result = "spins"]
      \/ ready # {} /\ TakeFromSeveral(acc, ready, limit) = next
  BY DEF TakeFromSeveral
<1>4. CASE TakeFromSeveral(acc, ready, limit) = acc
  BY <1>4
<1>5. CASE TakeFromSeveral(acc, ready, limit) = [acc EXCEPT !.result = "spins"]
  <2> DEFINE end == [acc EXCEPT !.result = "spins"]
  <2>1. end \in AccType /\ end.out = acc.out /\ end.bufs = acc.bufs
    BY <1>2 DEF AccType
  <2> HIDE DEF end
  <2>2. ServedTo(bufs, k, end)
    BY <1>1, <2>1 DEF ServedTo
  <2> QED  BY <1>5, <2>2 DEF Served, end
<1>6. CASE ready # {} /\ TakeFromSeveral(acc, ready, limit) = next
  <2>1. \A i \in ready :
           /\ i \in 1 .. Len(bufs) /\ k[i] + 1 \in 1 .. Len(bufs[i]) /\ k[i] \in Nat
           /\ Head(acc.bufs[i]) = bufs[i][k[i] + 1] /\ bufs[i][k[i] + 1] \in EntryType
           /\ FrontKey(acc.bufs[i]) \in Nat
           /\ Tail(acc.bufs[i]) = Cut(bufs[i], k[i] + 1, Len(bufs[i]))
    BY <1>2, FrontIs
  <2>2. key \in fronts
    <3>1. fronts \in SUBSET Nat /\ fronts # {}
      BY <1>6, <2>1
    <3> HIDE DEF fronts
    <3> QED  BY <3>1, MinLeast
  <2>3. equal # {} /\ equal \subseteq ready
    BY <2>2
  <2>4. PICK m \in equal : /\ new = bufs[m][k[m] + 1]
                           /\ \A i \in equal : bufs[i][k[i] + 1].seq <= bufs[m][k[m] + 1].seq
    <3> DEFINE e == CHOOSE x : x \in EntryType
               f == [i \in 1 .. Len(bufs) |-> IF i \in equal THEN bufs[i][k[i] + 1] ELSE e]
    <3>1. e \in EntryType /\ \A i \in 1 .. Len(bufs) : f[i] \in EntryType
      <4>1. [key |-> 0, seq |-> 0, size |-> 0] \in EntryType
        BY DEF EntryType
      <4>2. e \in EntryType
        BY <4>1
      <4> HIDE DEF e, equal
      <4> QED  BY <2>1, <2>3, <4>2
    <3>2. \A i \in equal : i \in 1 .. Len(bufs) /\ f[i] = bufs[i][k[i] + 1] /\ f[i] = Head(acc.bufs[i])
      <4> HIDE DEF e, equal
      <4> QED  BY <2>1, <2>3
    <3> HIDE DEF equal, f, e
    <3>3. {Head(acc.bufs[i]) : i \in equal} = {f[i] : i \in equal}
      BY <3>2
    <3>4. equal \in SUBSET (1 .. Len(bufs))
      BY <3>2
    <3>5. \E m \in equal : /\ Newest({Head(acc.bufs[i]) : i \in equal}) = f[m]
                           /\ \A i \in equal : f[i].seq <= f[m].seq
      BY <1>2, <2>3, <3>1, <3>3, <3>4, NewestIs
    <3> QED  BY <3>2, <3>5 DEF NewestFront
  <2>5. \A i \in equal : bufs[i][k[i] + 1].key = key
    BY <2>1 DEF FrontKey
  <2> HIDE DEF key, fronts, new
  <2>6. Counts(bufs, l) /\ \A i \in 1 .. Len(bufs) : k[i] <= l[i]
    <3>1. \A i \in 1 .. Len(bufs) : k[i] \in Nat /\ k[i] <= Len(bufs[i]) /\ Len(bufs[i]) \in Nat
      BY <1>2, BufsTyped DEF Counts
    <3>2. \A i \in equal : k[i] + 1 <= Len(bufs[i])
      BY <2>1, <2>3
    <3> HIDE DEF equal
    <3>3. \A i \in 1 .. Len(bufs) : l[i] \in Nat /\ l[i] <= Len(bufs[i]) /\ k[i] <= l[i]
      BY <3>1, <3>2
    <3>4. l \in [1 .. Len(bufs) -> Nat]
      BY <3>1
    <3> HIDE DEF l
    <3> QED  BY <3>3, <3>4 DEF Counts
  <2> DEFINE pm == k[m] + 1
  <2>7. /\ m \in 1 .. Len(bufs) /\ pm \in Nat /\ k[m] < pm /\ pm <= l[m] /\ new = bufs[m][pm]
        /\ new \in EntryType
    <3>1. m \in ready /\ m \in 1 .. Len(bufs) /\ l[m] = k[m] + 1 /\ k[m] \in Nat
      BY <2>1, <2>3
    <3> QED  BY <2>1, <2>4, <3>1
  <2>8. Wrote(bufs, k, l, more)
    <3> HIDE DEF pm
    <3>1. more \in Seq(EntryType) /\ Len(more) = 1 /\ more[1] = new
      BY <2>7
    <3> HIDE DEF more
    <3>2. ASSUME NEW i \in 1 .. Len(bufs), NEW p \in Nat, k[i] < p, p <= l[i]
          PROVE  \E a \in 1 .. Len(more) : more[a].key = bufs[i][p].key /\ bufs[i][p].seq <= more[a].seq
      <4>1. i \in equal /\ p = k[i] + 1
        <5>1. k[i] \in Nat /\ (i \notin equal => l[i] = k[i]) /\ (i \in equal => l[i] = k[i] + 1)
          BY <1>2
        <5> HIDE DEF l, equal
        <5> QED  BY <3>2, <5>1
      <4>2. bufs[i][p].key = key /\ new.key = key
        BY <2>4, <2>5, <4>1
      <4>3. bufs[i][p].seq <= new.seq
        BY <2>4, <4>1
      <4> QED  BY <3>1, <4>2, <4>3
    <3> HIDE DEF l, equal
    <3>3. \A a \in 1 .. Len(more) :
             \E i \in 1 .. Len(bufs), p \in Nat : k[i] < p /\ p <= l[i] /\ more[a] = bufs[i][p]
      <4>1. \A a \in 1 .. Len(more) : more[a] = bufs[m][pm]
        BY <2>7, <3>1
      <4> QED  BY <2>7, <4>1
    <3>4. \A a, b \in 1 .. Len(more) : more[a] = more[b] => a = b
      BY <3>1
    <3> QED  BY <3>1, <3>2, <3>3, <3>4 DEF Wrote
  <2>9. Popped(acc.bufs, equal) = Remaining(bufs, l)
    <3>1. acc.bufs \in Seq(Seq(EntryType)) /\ Len(acc.bufs) = Len(bufs)
      BY <1>2, RemainingIs
    <3>2. DOMAIN acc.bufs = 1 .. Len(bufs)
      BY <3>1, LenProperties
    <3>3. \A i \in equal : Tail(acc.bufs[i]) = Cut(bufs[i], l[i], Len(bufs[i]))
      <4>1. \A i \in equal : l[i] = k[i] + 1 /\ i \in ready
        BY <2>1, <2>3
      <4> HIDE DEF l, equal
      <4> QED  BY <2>1, <4>1
    <3>4. \A i \in 1 .. Len(bufs) : i \notin equal => acc.bufs[i] = Cut(bufs[i], l[i], Len(bufs[i]))
      <4>1. \A i \in 1 .. Len(bufs) : i \notin equal => l[i] = k[i]
        OBVIOUS
      <4> HIDE DEF l, equal
      <4> QED  BY <1>2, <4>1 DEF Remaining
    <3> HIDE DEF l, equal
    <3> QED  BY <3>2, <3>3, <3>4 DEF Popped, Remaining
  <2>10. next.bufs = Remaining(bufs, l) /\ next.out = acc.out \o more /\ next \in AccType
    <3>1. acc.out \in Seq(EntryType) /\ acc.result \in {"ok", "spins"}
      BY <1>2 DEF AccType
    <3>2. Append(acc.out, new) = acc.out \o more
      BY <2>7, <3>1, AppendIsConcat
    <3>3. Append(acc.out, new) \in Seq(EntryType)
      BY <2>7, <3>1, AppendProperties
    <3>4. Remaining(bufs, l) \in Seq(Seq(EntryType))
      BY <2>6, RemainingIs
    <3> DEFINE N == Append(acc.out, new)
    <3>5. next = [acc EXCEPT !.out = N, !.bufs = Remaining(bufs, l)]
      BY <2>9
    <3> HIDE DEF N, l, equal, next
    <3>6. next.out = N /\ next.bufs = Remaining(bufs, l) /\ next \in AccType
      BY <1>2, <3>3, <3>4, <3>5 DEF AccType, N
    <3> QED  BY <3>2, <3>6 DEF N
  <2> HIDE DEF next, l, more, equal
  <2>11. ServedTo(bufs, l, next)
    BY <1>1, <2>6, <2>8, <2>10, ServedMore
  <2> QED  BY <1>6, <2>11 DEF Served
<1> QED  BY <1>3, <1>4, <1>5, <1>6

LEMMA TurnsTyped ==
    ASSUME NEW n \in Nat
    PROVE  Turns(n) \in Seq(Nat) /\ Len(Turns(n)) = n
<1>1. Turns(n) \in [1 .. n -> Nat]
  BY DEF Turns
<1>2. Turns(n) \in Seq(Nat) /\ DOMAIN Turns(n) = 1 .. n
  BY <1>1, SeqDef
<1>3. Len(Turns(n)) \in Nat /\ DOMAIN Turns(n) = 1 .. Len(Turns(n))
  BY <1>2, LenProperties
<1> QED  BY <1>2, <1>3

LEMMA TotalNat ==
    ASSUME NEW n \in Nat, NEW seqs, DOMAIN seqs = 1 .. n, \A i \in 1 .. n : Len(seqs[i]) \in Nat
    PROVE  TotalLength(seqs) \in Nat
<1> DEFINE s == [i \in DOMAIN seqs |-> Len(seqs[i])]
<1>1. s \in [1 .. n -> Nat]
  OBVIOUS
<1>2. s \in Seq(Nat)
  BY <1>1, SeqDef
<1>3. TotalLength(seqs) = SumOf(s)
  BY DEF TotalLength
<1> HIDE DEF s
<1> QED  BY <1>2, <1>3, SumNat

(* A round with several buffers.                                             *)
SeveralStep(c, a, t) == TakeFromSeveral(a, Ready(a.bufs, c[1], c[2]), c[3])

Several == INSTANCE Iteration WITH Step <- SeveralStep

LEMMA ServedBufs ==
    ASSUME NEW bufs, BufsOK(bufs), NEW acc, Served(bufs, acc)
    PROVE  /\ acc \in AccType /\ acc.bufs \in Seq(Seq(EntryType)) /\ Len(acc.bufs) = Len(bufs)
           /\ Len(bufs) \in Nat /\ DOMAIN acc.bufs = 1 .. Len(bufs)
           /\ \A i \in 1 .. Len(bufs) : acc.bufs[i] \in Seq(EntryType) /\ Len(acc.bufs[i]) \in Nat
<1>1. PICK k : ServedTo(bufs, k, acc)
  BY DEF Served
<1>2. acc \in AccType /\ acc.bufs \in Seq(Seq(EntryType)) /\ Len(acc.bufs) = Len(bufs)
  BY <1>1, RemainingIs DEF ServedTo
<1>3. DOMAIN acc.bufs = 1 .. Len(bufs) /\ Len(bufs) \in Nat
  BY <1>2, LenProperties
<1>4. \A i \in 1 .. Len(bufs) : acc.bufs[i] \in Seq(EntryType)
  BY <1>2, ElementOfSeq
<1>5. \A s \in Seq(EntryType) : Len(s) \in Nat
  BY LenProperties
<1> QED  BY <1>2, <1>3, <1>4, <1>5

LEMMA ServeServes ==
    ASSUME NEW bufs, BufsOK(bufs), NEW acc, Served(bufs, acc),
           NEW group \in SUBSET (1 .. Len(bufs)), NEW limit, NEW final
    PROVE  Served(bufs, Serve(acc, group, limit, final))
<1>1. CASE Cardinality(group) = 1
  <2>1. group # {}
    BY <1>1, FS_EmptySet
  <2> DEFINE i == CHOOSE i \in group : TRUE
  <2>2. i \in 1 .. Len(bufs)
    BY <2>1
  <2>3. Serve(acc, group, limit, final) = TakeFromOne(acc, i, limit)
    BY <1>1 DEF Serve
  <2> HIDE DEF i
  <2> QED  BY <2>2, <2>3, ServedOne
<1>2. CASE Cardinality(group) # 1
  <2> DEFINE c == <<group, final, limit>>
             turns == Turns(TotalLength(acc.bufs))
  <2>1. Serve(acc, group, limit, final) = Several!Result(c, acc, turns)
    BY <1>2 DEF Serve, Several!Result, SeveralStep, FoldLeft, MapThenFoldSet,
                Several!FoldLeft, Several!MapThenFoldSet, Several!Max, Max
  <2>2. turns \in Seq(Nat)
    <3>1. TotalLength(acc.bufs) \in Nat
      BY ServedBufs, TotalNat
    <3> QED  BY <3>1, TurnsTyped
  <2>3. c[1] = group /\ c[2] = final /\ c[3] = limit
    OBVIOUS
  <2> HIDE DEF c, turns
  <2>4. PICK f : Several!IsRun(f, c, acc, turns) /\ Several!Result(c, acc, turns) = f[Len(turns)]
    BY <2>2, Several!FoldRuns
  <2> DEFINE P == {t \in Nat : t <= Len(turns) => Served(bufs, f[t])}
  <2>5. 0 \in P
    BY <2>4 DEF Several!IsRun
  <2>6. ASSUME NEW t \in Nat, t \in P PROVE t + 1 \in P
    <3> SUFFICES ASSUME t + 1 <= Len(turns) PROVE Served(bufs, f[t + 1])
      OBVIOUS
    <3>1. Len(turns) \in Nat
      BY <2>2, LenProperties
    <3>2. Served(bufs, f[t]) /\ t + 1 \in 1 .. Len(turns) /\ (t + 1) - 1 = t
      BY <2>6, <3>1
    <3> DEFINE ready == Ready(f[t].bufs, group, final)
    <3>3. f[t + 1] = TakeFromSeveral(f[t], ready, limit)
      BY <2>3, <2>4, <3>2 DEF Several!IsRun, SeveralStep
    <3>4. ready \subseteq 1 .. Len(bufs) /\ \A i \in ready : f[t].bufs[i] # <<>>
      BY DEF Ready
    <3> HIDE DEF ready, P
    <3> QED  BY <3>2, <3>3, <3>4, ServedSeveral
  <2>7. \A t \in Nat : t \in P
    <3> HIDE DEF P
    <3> QED  BY <2>5, <2>6, Adding!SetInduction
  <2>8. Len(turns) \in Nat
    BY <2>2, LenProperties
  <2> QED  BY <2>1, <2>4, <2>7, <2>8
<1> QED  BY <1>1, <1>2

RoundStep(c, acc, r) == ServeRound(acc, c[1], c[2], r, c[3])

Rounds == INSTANCE Iteration WITH Step <- RoundStep

LEMMA RoundsServe ==
    ASSUME NEW bufs, BufsOK(bufs), NEW rounds, Len(rounds) \in Nat, NEW final
    PROVE  Served(bufs, ServeRounds(bufs, rounds, final))
<1> DEFINE c == <<bufs, rounds, final>>
           turns == Turns(Len(rounds))
           base == [out |-> <<>>, bufs |-> bufs, result |-> "ok"]
<1>1. ServeRounds(bufs, rounds, final) = Rounds!Result(c, base, turns)
  BY DEF ServeRounds, Rounds!Result, RoundStep, FoldLeft, MapThenFoldSet,
         Rounds!FoldLeft, Rounds!MapThenFoldSet, Rounds!Max, Max
<1>2. turns \in Seq(Nat)
  BY TurnsTyped
<1>3. c[1] = bufs /\ c[2] = rounds /\ c[3] = final /\ Served(bufs, base)
  BY ServedStart
<1> HIDE DEF c, turns, base
<1>4. PICK f : Rounds!IsRun(f, c, base, turns) /\ Rounds!Result(c, base, turns) = f[Len(turns)]
  BY <1>2, Rounds!FoldRuns
<1> DEFINE P == {t \in Nat : t <= Len(turns) => Served(bufs, f[t])}
<1>5. 0 \in P
  BY <1>3, <1>4 DEF Rounds!IsRun
<1>6. ASSUME NEW t \in Nat, t \in P PROVE t + 1 \in P
  <2> SUFFICES ASSUME t + 1 <= Len(turns) PROVE Served(bufs, f[t + 1])
    OBVIOUS
  <2>1. Len(turns) \in Nat
    BY <1>2, LenProperties
  <2>2. Served(bufs, f[t]) /\ t + 1 \in 1 .. Len(turns) /\ (t + 1) - 1 = t
    BY <1>6, <2>1
  <2>3. PICK r : f[t + 1] = ServeRound(f[t], bufs, rounds, r, final)
    BY <1>3, <1>4, <2>2 DEF Rounds!IsRun, RoundStep
  <2> DEFINE group == {i \in DOMAIN bufs : FrontKey(bufs[i]) = rounds[r]}
             limit == IF r < Len(rounds) THEN rounds[r + 1] - 1 ELSE final
  <2>4. f[t + 1] = Serve(f[t], group, limit, final)
    BY <2>3 DEF ServeRound
  <2>5. group \in SUBSET (1 .. Len(bufs))
    BY BufsTyped
  <2> HIDE DEF group, limit, P
  <2> QED  BY <2>2, <2>4, <2>5, ServeServes
<1>7. \A t \in Nat : t \in P
  <2> HIDE DEF P
  <2> QED  BY <1>5, <1>6, Adding!SetInduction
<1>8. Len(turns) \in Nat
  BY <1>2, LenProperties
<1> QED  BY <1>1, <1>4, <1>7, <1>8

LEMMA SingleServed ==
    ASSUME NEW bufs, BufsOK(bufs), Len(bufs) = 1
    PROVE  Served(bufs, [out |-> bufs[1], bufs |-> << <<>> >>, result |-> "ok"])
<1> DEFINE b == bufs[1]
           k == [i \in 1 .. Len(bufs) |-> Len(b)]
           acc == [out |-> b, bufs |-> << <<>> >>, result |-> "ok"]
<1>1. b \in Seq(EntryType) /\ Len(b) \in Nat /\ \A i \in 1 .. Len(bufs) : i = 1 /\ bufs[i] = b
  BY BufsTyped
<1> HIDE DEF b
<1>2. Counts(bufs, k)
  BY <1>1 DEF Counts
<1>3. Remaining(bufs, k) = << <<>> >>
  <2>1. Cut(b, Len(b), Len(b)) = <<>>
    BY <1>1, SubSeqEmpty DEF Cut
  <2>2. Remaining(bufs, k) = [i \in 1 .. 1 |-> <<>>]
    BY <1>1, <2>1 DEF Remaining
  <2> QED  BY <2>2
<1>4. acc \in AccType /\ acc.out = b /\ acc.bufs = << <<>> >>
  <2>1. <<>> \in Seq(EntryType)
    BY EmptySeq
  <2>2. << <<>> >> \in Seq(Seq(EntryType))
    BY <2>1
  <2> QED  BY <1>1, <2>2 DEF AccType
<1>5. Wrote(bufs, Nothing(bufs), k, b)
  <2>0. Nothing(bufs)[1] = 0 /\ k[1] = Len(b)
    BY DEF Nothing
  <2>1. \A x, y \in 1 .. Len(b) : b[x] = b[y] => x = y
    BY <1>1 DEF BufsOK
  <2>2. \A a \in 1 .. Len(b) :
           \E i \in 1 .. Len(bufs), p \in Nat : Nothing(bufs)[i] < p /\ p <= k[i] /\ b[a] = bufs[i][p]
    <3> SUFFICES ASSUME NEW a \in 1 .. Len(b)
                 PROVE  \E i \in 1 .. Len(bufs), p \in Nat :
                           Nothing(bufs)[i] < p /\ p <= k[i] /\ b[a] = bufs[i][p]
      OBVIOUS
    <3>1. 1 \in 1 .. Len(bufs) /\ a \in Nat /\ 0 < a /\ a <= Len(b) /\ b[a] = bufs[1][a]
      BY <1>1
    <3> HIDE DEF k
    <3> QED  BY <2>0, <3>1
  <2>3. ASSUME NEW i \in 1 .. Len(bufs), NEW p \in Nat, Nothing(bufs)[i] < p, p <= k[i]
        PROVE  \E a \in 1 .. Len(b) : b[a].key = bufs[i][p].key /\ bufs[i][p].seq <= b[a].seq
    <3>1. i = 1 /\ p \in 1 .. Len(b) /\ bufs[i] = b
      BY <1>1, <2>0, <2>3
    <3>2. b[p] \in EntryType
      BY <1>1, <3>1, ElementOfSeq
    <3>3. b[p].seq \in Nat
      BY <3>2 DEF EntryType
    <3> QED  BY <3>1, <3>3
  <2> QED  BY <1>1, <2>1, <2>2, <2>3 DEF Wrote
<1> HIDE DEF k, acc
<1>6. ServedTo(bufs, k, acc)
  BY <1>2, <1>3, <1>4, <1>5 DEF ServedTo
<1> QED  BY <1>6 DEF Served, acc, b

LEMMA InOrderLength ==
    ASSUME NEW S, IsFiniteSet(S)
    PROVE  Len(InOrder(S)) \in Nat
<1>1. Cardinality(S) \in Nat
  BY FS_CardinalityType
<1>2. Len(InOrder(S)) = Cardinality(S)
  BY <1>1 DEF InOrder
<1> QED  BY <1>1, <1>2

(* merge_sort takes from the buffers only what it writes, or something newer *)
(* with the same key for it, and writes nothing twice.                       *)
LEMMA MergeSortServes ==
    ASSUME NEW bufs, BufsOK(bufs)
    PROVE  Served(bufs, merge_sort(bufs))
<1>1. CASE Len(bufs) = 1
  BY <1>1, SingleServed DEF merge_sort
<1>2. CASE Len(bufs) # 1
  <2> DEFINE keys == {FrontKey(bufs[i]) : i \in DOMAIN bufs}
             S == keys \cap 0 .. SmallestFinalKey(bufs)
  <2>1. merge_sort(bufs) = ServeRounds(bufs, InOrder(S), SmallestFinalKey(bufs))
    BY <1>2 DEF merge_sort
  <2>2. IsFiniteSet(S)
    <3>1. DOMAIN bufs = 1 .. Len(bufs) /\ Len(bufs) \in Nat
      BY BufsTyped
    <3>2. IsFiniteSet(1 .. Len(bufs))
      BY <3>1, FS_Interval
    <3> DEFINE g == [i \in 1 .. Len(bufs) |-> FrontKey(bufs[i])]
    <3>3. g \in Surjection(1 .. Len(bufs), keys)
      BY <3>1 DEF Surjection
    <3>4. IsFiniteSet(keys)
      <4> HIDE DEF g, keys
      <4> QED  BY <3>2, <3>3, FS_Surjection
    <3>5. S \in SUBSET keys
      OBVIOUS
    <3> HIDE DEF keys, S
    <3> QED  BY <3>4, <3>5, FS_Subset
  <2> HIDE DEF S
  <2> QED  BY <2>1, <2>2, InOrderLength, RoundsServe
<1> QED  BY <1>1, <1>2

-----------------------------------------------------------------------------
(* merge_sort of at most two buffers ends, and takes something.              *)

LEMMA OneGrows ==
    ASSUME NEW bufs, BufsOK(bufs), NEW acc, Served(bufs, acc), NEW i \in 1 .. Len(bufs), NEW limit,
           NEW next, next = TakeFromOne(acc, i, limit)
    PROVE  /\ Len(next.out) >= Len(acc.out)
           /\ acc.bufs[i] # <<>> /\ FrontKey(acc.bufs[i]) <= limit => Len(next.out) > 0
<1> DEFINE s == acc.bufs[i]
           N == {n \in 0 .. Len(s) : \A j \in 1 .. n : s[j].key <= limit}
           n == Max(N)
           taken == Cut(s, 0, n)
<1>1. acc \in AccType /\ s \in Seq(EntryType) /\ Len(s) \in Nat /\ acc.out \in Seq(EntryType)
  BY ServedBufs DEF AccType
<1>2. next.out = acc.out \o taken
  <2>1. next = [acc EXCEPT !.out = @ \o taken,
                           !.bufs[i] = SubSeq(s, Len(taken) + 1, Len(s))]
    BY DEF TakeFromOne, TakeWhile, Cut
  <2> HIDE DEF taken, s
  <2> QED  BY <1>1, <2>1 DEF AccType
<1> HIDE DEF s
<1>3. N \in SUBSET (0 .. Len(s)) /\ 0 \in N
  BY <1>1
<1>4. s # <<>> /\ FrontKey(s) <= limit => 1 \in N
  <2> SUFFICES ASSUME s # <<>>, FrontKey(s) <= limit PROVE 1 \in N
    OBVIOUS
  <2>1. Len(s) # 0 /\ Head(s) = s[1]
    BY <1>1, EmptySeq
  <2>2. s[1].key <= limit
    BY <2>1 DEF FrontKey
  <2>3. 1 \in 0 .. Len(s) /\ \A j \in 1 .. 1 : j = 1
    BY <1>1, <2>1
  <2> QED  BY <2>2, <2>3
<1> HIDE DEF N
<1>5. n \in 0 .. Len(s) /\ \A j \in N : j <= n
  BY <1>1, <1>3, MaxGreatest
<1> HIDE DEF n
<1>6. taken \in Seq(EntryType) /\ Len(taken) = n
  <2>1. n \in Nat /\ 0 <= n /\ n <= Len(s) /\ 0 \in Nat
    BY <1>1, <1>5
  <2>2. IsCut(taken, EntryType, s, 0, n)
    BY <1>1, <2>1, CutIs
  <2>3. taken \in Seq(EntryType) /\ Len(taken) = n - 0
    BY <2>2 DEF IsCut
  <2> QED  BY <2>1, <2>3
<1> HIDE DEF taken
<1>7. Len(next.out) = Len(acc.out) + n /\ Len(acc.out) \in Nat /\ n \in Nat
  <2>1. Len(acc.out \o taken) = Len(acc.out) + Len(taken)
    BY <1>1, <1>6, ConcatProperties
  <2>2. Len(acc.out) \in Nat
    BY <1>1, LenProperties
  <2>3. n \in Nat
    BY <1>1, <1>5
  <2> QED  BY <1>2, <1>6, <2>1, <2>2, <2>3, Zenon
<1>8. s # <<>> /\ FrontKey(s) <= limit => n >= 1
  BY <1>4, <1>5
<1> QED  BY <1>7, <1>8 DEF s

(* When the limit of the round is that of all keys, what is ready is taken.   *)
LEMMA SeveralGrows ==
    ASSUME NEW bufs, BufsOK(bufs), NEW acc, Served(bufs, acc), acc.result = "ok",
           NEW group \in SUBSET (1 .. Len(bufs)), NEW limit \in Nat,
           NEW ready, ready = Ready(acc.bufs, group, limit),
           NEW next, next = TakeFromSeveral(acc, ready, limit)
    PROVE  /\ next.result = "ok" /\ Len(next.out) >= Len(acc.out)
           /\ ready # {} => Len(next.out) > 0
<1>1. acc \in AccType /\ acc.out \in Seq(EntryType) /\ Len(acc.out) \in Nat
  BY ServedBufs DEF AccType
<1>2. CASE ready = {}
  BY <1>1, <1>2 DEF TakeFromSeveral
<1>3. CASE ready # {}
  <2> DEFINE fronts == {FrontKey(acc.bufs[i]) : i \in ready}
             key == Min(fronts)
             equal == {i \in ready : FrontKey(acc.bufs[i]) = key}
             new == NewestFront(acc.bufs, equal)
  <2>1. \A i \in ready : FrontKey(acc.bufs[i]) \in Nat /\ FrontKey(acc.bufs[i]) <= limit
    <3>1. PICK k : ServedTo(bufs, k, acc)
      BY DEF Served
    <3>2. Counts(bufs, k) /\ acc.bufs = Remaining(bufs, k)
      BY <3>1 DEF ServedTo
    <3>3. \A i \in ready : i \in 1 .. Len(bufs) /\ acc.bufs[i] # <<>> /\ FrontKey(acc.bufs[i]) <= limit
      BY DEF Ready
    <3>4. ASSUME NEW i \in ready PROVE FrontKey(acc.bufs[i]) \in Nat
      <4>1. i \in 1 .. Len(bufs) /\ Remaining(bufs, k)[i] # <<>>
        BY <3>2, <3>3
      <4>2. FrontKey(Remaining(bufs, k)[i]) \in Nat
        BY <3>2, <4>1, FrontIs
      <4> QED  BY <3>2, <4>2
    <3> QED  BY <3>3, <3>4
  <2>2. key \in fronts
    <3>1. fronts \in SUBSET Nat /\ fronts # {}
      BY <1>3, <2>1
    <3> HIDE DEF fronts
    <3> QED  BY <3>1, MinLeast
  <2>3. ~(key > limit)
    <3>1. key \in Nat /\ key <= limit
      BY <2>1, <2>2
    <3> HIDE DEF key
    <3> QED  BY <3>1
  <2>4. next = [acc EXCEPT !.out = Append(@, new), !.bufs = Popped(@, equal)]
    <3>1. next = IF ready = {} \/ acc.result # "ok" THEN acc
                 ELSE IF key > limit THEN [acc EXCEPT !.result = "spins"]
                 ELSE [acc EXCEPT !.out = Append(@, new), !.bufs = Popped(@, equal)]
      BY DEF TakeFromSeveral
    <3> HIDE DEF key, new, equal
    <3> QED  BY <1>3, <2>3, <3>1
  <2>5. next.result = "ok" /\ next.out = Append(acc.out, new)
    <3> HIDE DEF new, equal
    <3> QED  BY <1>1, <2>4 DEF AccType
  <2>6. Len(next.out) = Len(acc.out) + 1
    <3> HIDE DEF new
    <3>1. next.out = acc.out \o <<new>>
      <4>1. new \in {new} \cup EntryType /\ acc.out \in Seq({new} \cup EntryType)
        BY <1>1
      <4> QED  BY <2>5, <4>1, AppendIsConcat
    <3>2. acc.out \in Seq({new} \cup EntryType) /\ <<new>> \in Seq({new} \cup EntryType) /\ Len(<<new>>) = 1
      BY <1>1
    <3> QED  BY <3>1, <3>2, ConcatProperties
  <2> QED  BY <1>1, <2>5, <2>6
<1> QED  BY <1>2, <1>3

LEMMA SumCovers ==
    ASSUME NEW s \in Seq(Nat), NEW p \in 1 .. Len(s)
    PROVE  s[p] <= SumOf(s)
<1>1. PICK f : Adding!IsRun(f, 0, 0, s) /\ Adding!Result(0, 0, s) = f[Len(s)]
  BY Adding!FoldRuns
<1> DEFINE P == {i \in Nat : i <= Len(s) => f[i] \in Nat /\ \A j \in 1 .. i : s[j] <= f[i]}
<1>2. Len(s) \in Nat /\ \A i \in 1 .. Len(s) : s[i] \in Nat
  BY LenProperties, ElementOfSeq
<1>3. 0 \in P
  <2>1. f[0] = 0 /\ 1 .. 0 = {}
    BY <1>1 DEF Adding!IsRun
  <2> QED  BY <2>1
<1>4. ASSUME NEW i \in Nat, i \in P PROVE i + 1 \in P
  <2> SUFFICES ASSUME i + 1 <= Len(s) PROVE f[i + 1] \in Nat /\ \A j \in 1 .. i + 1 : s[j] <= f[i + 1]
    OBVIOUS
  <2>1. i <= Len(s) /\ i + 1 \in 1 .. Len(s) /\ (i + 1) - 1 = i
    BY <1>2
  <2>2. f[i] \in Nat /\ \A j \in 1 .. i : s[j] <= f[i]
    BY <1>4, <2>1
  <2>3. f[i + 1] = f[i] + s[i + 1] /\ s[i + 1] \in Nat
    BY <1>1, <1>2, <2>1 DEF Adding!IsRun, AddStep
  <2>4. ASSUME NEW j \in 1 .. i + 1 PROVE s[j] <= f[i + 1]
    <3>1. CASE j = i + 1
      BY <2>2, <2>3, <3>1
    <3>2. CASE j # i + 1
      <4>1. j \in 1 .. i /\ j \in 1 .. Len(s)
        BY <2>1, <3>2
      <4>2. s[j] <= f[i] /\ s[j] \in Nat
        BY <1>2, <2>2, <4>1
      <4>3. f[i] \in Nat
        BY <2>2
      <4> QED  BY <2>3, <4>2, <4>3
    <3> QED  BY <3>1, <3>2
  <2> QED  BY <2>2, <2>3, <2>4
<1>5. \A i \in Nat : i \in P
  <2> HIDE DEF P
  <2> QED  BY <1>3, <1>4, Adding!SetInduction
<1>6. s[p] <= f[Len(s)]
  BY <1>2, <1>5
<1> QED  BY <1>1, <1>6, SumIs

LEMMA TotalCovers ==
    ASSUME NEW n \in Nat, NEW seqs, DOMAIN seqs = 1 .. n, \A i \in 1 .. n : Len(seqs[i]) \in Nat,
           NEW i \in 1 .. n
    PROVE  Len(seqs[i]) <= TotalLength(seqs)
<1> DEFINE s == [j \in DOMAIN seqs |-> Len(seqs[j])]
<1>1. s \in [1 .. n -> Nat] /\ s[i] = Len(seqs[i])
  OBVIOUS
<1>2. TotalLength(seqs) = SumOf(s)
  BY DEF TotalLength
<1> HIDE DEF s
<1>3. s \in Seq(Nat) /\ Len(s) = n
  BY <1>1
<1> QED  BY <1>1, <1>2, <1>3, SumCovers

(* Each buffer of the round begins with a key the round may take.            *)
Takes(acc, group, limit) ==
    group # {} /\ \A i \in group : acc.bufs[i] # <<>> /\ FrontKey(acc.bufs[i]) <= limit

(* A round whose limit is that of all keys, or with one buffer.              *)
LEMMA ServeGrows ==
    ASSUME NEW bufs, BufsOK(bufs), NEW acc, Served(bufs, acc), acc.result = "ok",
           NEW group \in SUBSET (1 .. Len(bufs)), NEW limit \in Nat, NEW final \in Nat,
           Cardinality(group) = 1 \/ limit = final,
           NEW next, next = Serve(acc, group, limit, final)
    PROVE  /\ next.result = "ok" /\ Len(next.out) >= Len(acc.out)
           /\ Takes(acc, group, limit) => Len(next.out) > 0
<1> DEFINE H == group # {} /\ \A i \in group : acc.bufs[i] # <<>> /\ FrontKey(acc.bufs[i]) <= limit
<1> SUFFICES /\ next.result = "ok" /\ Len(next.out) >= Len(acc.out)
             /\ H => Len(next.out) > 0
  BY DEF Takes
<1>1. CASE Cardinality(group) = 1
  <2>1. group # {}
    BY <1>1, FS_EmptySet
  <2> DEFINE i == CHOOSE i \in group : TRUE
  <2>2. i \in 1 .. Len(bufs) /\ i \in group
    BY <2>1
  <2>3. next = TakeFromOne(acc, i, limit)
    BY <1>1 DEF Serve
  <2> HIDE DEF i
  <2>4. next.result = "ok"
    BY <2>2, <2>3, ServedOne
  <2>5. /\ Len(next.out) >= Len(acc.out)
        /\ acc.bufs[i] # <<>> /\ FrontKey(acc.bufs[i]) <= limit => Len(next.out) > 0
    BY <2>2, <2>3, OneGrows
  <2> QED  BY <2>2, <2>4, <2>5
<1>2. CASE Cardinality(group) # 1
  <2> DEFINE c == <<group, final, limit>>
             turns == Turns(TotalLength(acc.bufs))
  <2>0. limit = final
    BY <1>2
  <2>1. next = Several!Result(c, acc, turns)
    BY <1>2 DEF Serve, Several!Result, SeveralStep, FoldLeft, MapThenFoldSet,
                Several!FoldLeft, Several!MapThenFoldSet, Several!Max, Max
  <2>2. turns \in Seq(Nat) /\ Len(turns) = TotalLength(acc.bufs) /\ Len(turns) \in Nat
    <3>1. TotalLength(acc.bufs) \in Nat
      BY ServedBufs, TotalNat
    <3> QED  BY <3>1, TurnsTyped
  <2>3. c[1] = group /\ c[2] = final /\ c[3] = limit
    OBVIOUS
  <2> HIDE DEF c, turns
  <2>4. PICK f : Several!IsRun(f, c, acc, turns) /\ Several!Result(c, acc, turns) = f[Len(turns)]
    BY <2>2, Several!FoldRuns
  <2> DEFINE G(t) == /\ Served(bufs, f[t]) /\ f[t].result = "ok" /\ Len(f[t].out) \in Nat
                     /\ Len(f[t].out) >= Len(acc.out)
                     /\ H /\ t > 0 => Len(f[t].out) > 0
             P == {t \in Nat : t <= Len(turns) => G(t)}
  <2>5. Len(acc.out) \in Nat
    BY ServedBufs DEF AccType
  <2>6. f[0] = acc
    BY <2>4 DEF Several!IsRun
  <2>7. 0 \in P
    <3>1. G(0)
      BY <2>5, <2>6
    <3> QED  BY <3>1
  <2>8. ASSUME NEW t \in Nat, t \in P PROVE t + 1 \in P
    <3> SUFFICES ASSUME t + 1 <= Len(turns) PROVE G(t + 1)
      OBVIOUS
    <3>1. G(t) /\ t + 1 \in 1 .. Len(turns) /\ (t + 1) - 1 = t
      BY <2>2, <2>8
    <3> DEFINE a == f[t]
               b == f[t + 1]
               ready == Ready(a.bufs, group, limit)
    <3>2. b = TakeFromSeveral(a, ready, limit)
      BY <2>0, <2>3, <2>4, <3>1 DEF Several!IsRun, SeveralStep
    <3>3. ready \subseteq 1 .. Len(bufs) /\ \A i \in ready : a.bufs[i] # <<>>
      BY DEF Ready
    <3>4. H /\ t = 0 => ready # {}
      <4> SUFFICES ASSUME H, t = 0 PROVE ready # {}
        OBVIOUS
      <4>1. a = acc
        BY <2>6
      <4>2. PICK i \in group : acc.bufs[i] # <<>> /\ FrontKey(acc.bufs[i]) <= limit
        OBVIOUS
      <4> QED  BY <4>1, <4>2 DEF Ready
    <3>5. Served(bufs, a) /\ a.result = "ok" /\ Len(a.out) \in Nat /\ Len(a.out) >= Len(acc.out)
          /\ (H /\ t > 0 => Len(a.out) > 0)
      BY <3>1
    <3>6. ready = Ready(a.bufs, group, limit)
      OBVIOUS
    <3> HIDE DEF a, b, ready, P, H
    <3>7. Served(bufs, b)
      BY <3>2, <3>3, <3>5, ServedSeveral
    <3>8. b.result = "ok" /\ Len(b.out) >= Len(a.out) /\ (ready # {} => Len(b.out) > 0)
      BY <3>2, <3>5, <3>6, SeveralGrows
    <3>9. Len(b.out) \in Nat
      BY <3>7, ServedBufs DEF AccType
    <3>10. H => Len(b.out) > 0
      BY <3>4, <3>5, <3>8, <3>9
    <3>11. Len(b.out) >= Len(acc.out)
      BY <2>5, <3>5, <3>8, <3>9
    <3> QED  BY <3>7, <3>8, <3>9, <3>10, <3>11 DEF b
  <2>9. \A t \in Nat : t \in P
    <3> HIDE DEF P
    <3> QED  BY <2>7, <2>8, Adding!SetInduction
  <2>10. G(Len(turns))
    BY <2>2, <2>9
  <2>11. H => Len(turns) > 0
    <3> SUFFICES ASSUME H PROVE Len(turns) > 0
      OBVIOUS
    <3>1. PICK i \in group : acc.bufs[i] # <<>>
      OBVIOUS
    <3>2. /\ Len(bufs) \in Nat /\ DOMAIN acc.bufs = 1 .. Len(bufs) /\ i \in 1 .. Len(bufs)
          /\ \A j \in 1 .. Len(bufs) : acc.bufs[j] \in Seq(EntryType) /\ Len(acc.bufs[j]) \in Nat
      BY ServedBufs
    <3>3. Len(acc.bufs[i]) # 0
      BY <3>1, <3>2, EmptySeq
    <3>4. Len(acc.bufs[i]) <= TotalLength(acc.bufs)
      BY <3>2, TotalCovers
    <3> QED  BY <2>2, <3>2, <3>3, <3>4
  <2> HIDE DEF H, P
  <2> QED  BY <2>1, <2>4, <2>10, <2>11 DEF H
<1> QED  BY <1>1, <1>2

GroupAt(bufs, key) == {i \in DOMAIN bufs : FrontKey(bufs[i]) = key}

LEMMA RoundsGrow ==
    ASSUME NEW bufs, BufsOK(bufs), NEW rounds, Len(rounds) \in Nat, Len(rounds) > 0, NEW final \in Nat,
           \A i \in 1 .. Len(bufs) : bufs[i] # <<>>,
           \A r \in 1 .. Len(rounds) : rounds[r] \in Nat /\ rounds[r] <= final,
           \A r \in 1 .. Len(rounds) : r < Len(rounds) =>
               rounds[r] < rounds[r + 1] /\ Cardinality(GroupAt(bufs, rounds[r])) = 1,
           GroupAt(bufs, rounds[1]) # {},
           NEW m, m = ServeRounds(bufs, rounds, final)
    PROVE  m.result = "ok" /\ Len(m.out) > 0
<1> DEFINE c == <<bufs, rounds, final>>
           turns == Turns(Len(rounds))
           base == [out |-> <<>>, bufs |-> bufs, result |-> "ok"]
<1>1. m = Rounds!Result(c, base, turns)
  BY DEF ServeRounds, Rounds!Result, RoundStep, FoldLeft, MapThenFoldSet,
         Rounds!FoldLeft, Rounds!MapThenFoldSet, Rounds!Max, Max
<1>2. turns \in Seq(Nat) /\ Len(turns) = Len(rounds) /\ \A r \in 1 .. Len(rounds) : turns[r] = r
  BY TurnsTyped DEF Turns
<1>3. c[1] = bufs /\ c[2] = rounds /\ c[3] = final /\ Served(bufs, base)
  BY ServedStart
<1>4. base.result = "ok" /\ base.bufs = bufs
  OBVIOUS
<1> HIDE DEF c, turns, base
<1>5. PICK f : Rounds!IsRun(f, c, base, turns) /\ Rounds!Result(c, base, turns) = f[Len(turns)]
  BY <1>2, Rounds!FoldRuns
<1> DEFINE G(t) == /\ Served(bufs, f[t]) /\ f[t].result = "ok" /\ Len(f[t].out) \in Nat
                   /\ t > 0 => Len(f[t].out) > 0
           P == {t \in Nat : t <= Len(rounds) => G(t)}
<1>6. f[0] = base
  BY <1>5 DEF Rounds!IsRun
<1>7. 0 \in P
  <2>1. Len(base.out) \in Nat
    BY <1>3, ServedBufs DEF AccType
  <2>2. G(0)
    BY <1>3, <1>4, <1>6, <2>1
  <2> QED  BY <2>2
<1>8. ASSUME NEW t \in Nat, t \in P PROVE t + 1 \in P
  <2> SUFFICES ASSUME t + 1 <= Len(rounds) PROVE G(t + 1)
    OBVIOUS
  <2>1. G(t) /\ t + 1 \in 1 .. Len(rounds) /\ (t + 1) - 1 = t
    BY <1>8
  <2> DEFINE r == t + 1
             a == f[t]
             b == f[r]
             group == GroupAt(bufs, rounds[r])
             limit == IF r < Len(rounds) THEN rounds[r + 1] - 1 ELSE final
  <2>2. b = ServeRound(a, bufs, rounds, r, final)
    BY <1>2, <1>3, <1>5, <2>1 DEF Rounds!IsRun, RoundStep
  <2>3. b = Serve(a, group, limit, final)
    BY <2>2 DEF ServeRound, GroupAt
  <2>4. group \in SUBSET (1 .. Len(bufs)) /\ \A i \in group : FrontKey(bufs[i]) = rounds[r]
    BY BufsTyped DEF GroupAt
  <2>5. r \in 1 .. Len(rounds) /\ r \in Nat /\ r > 0 /\ (t = 0 => r = 1)
    BY <2>1
  <2>6. Served(bufs, a) /\ a.result = "ok" /\ Len(a.out) \in Nat /\ (t > 0 => Len(a.out) > 0)
        /\ (t = 0 => a.bufs = bufs)
    BY <1>4, <1>6, <2>1
  <2> HIDE DEF a, b, P, group, r
  <2>7. limit \in Nat /\ rounds[r] <= limit /\ (Cardinality(group) = 1 \/ limit = final)
    <3>1. CASE r < Len(rounds)
      <4>1. r + 1 \in 1 .. Len(rounds) /\ rounds[r] < rounds[r + 1] /\ Cardinality(group) = 1
        BY <2>5, <3>1 DEF group
      <4>2. rounds[r] \in Nat /\ rounds[r + 1] \in Nat /\ limit = rounds[r + 1] - 1
        BY <2>5, <3>1, <4>1
      <4> HIDE DEF limit
      <4> QED  BY <4>1, <4>2
    <3>2. CASE ~(r < Len(rounds))
      BY <2>5, <3>2
    <3> QED  BY <3>1, <3>2
  <2> HIDE DEF limit
  <2>8. Served(bufs, b)
    BY <2>3, <2>4, <2>6, ServeServes
  <2>9. /\ b.result = "ok" /\ Len(b.out) >= Len(a.out)
        /\ Takes(a, group, limit) => Len(b.out) > 0
    <3>1. group \in SUBSET (1 .. Len(bufs)) /\ limit \in Nat /\ (Cardinality(group) = 1 \/ limit = final)
      BY <2>4, <2>7
    <3>2. Served(bufs, a) /\ a.result = "ok"
      BY <2>6
    <3> QED  BY <2>3, <3>1, <3>2, ServeGrows
  <2>10. Len(b.out) \in Nat
    BY <2>8, ServedBufs DEF AccType
  <2>11. Len(b.out) > 0
    <3>1. CASE t = 0
      <4>1. group # {} /\ a.bufs = bufs
        BY <2>5, <2>6, <3>1 DEF group
      <4>2. \A i \in group : bufs[i] # <<>> /\ FrontKey(bufs[i]) <= limit
        BY <2>4, <2>7
      <4>3. Takes(a, group, limit)
        BY <4>1, <4>2 DEF Takes
      <4> QED  BY <2>9, <4>3
    <3>2. CASE t # 0
      BY <2>6, <2>9, <2>10, <3>2
    <3> QED  BY <3>1, <3>2
  <2>12. b = f[t + 1]
    BY DEF b, r
  <2> QED  BY <2>8, <2>9, <2>10, <2>11, <2>12
<1>9. \A t \in Nat : t \in P
  <2> HIDE DEF P
  <2> QED  BY <1>7, <1>8, Adding!SetInduction
<1>10. G(Len(rounds))
  BY <1>9
<1> QED  BY <1>1, <1>2, <1>5, <1>10

(* The keys that are safe to write: one of two sorted buffers begins with    *)
(* such a key, the one with the smallest last key.                           *)
LEMMA FinalKeyIs ==
    ASSUME NEW bufs, BufsOK(bufs), Len(bufs) > 0,
           \A i \in 1 .. Len(bufs) : bufs[i] # <<>> /\ Sorted(bufs[i])
    PROVE  /\ SmallestFinalKey(bufs) \in Nat
           /\ \A i \in 1 .. Len(bufs) : FrontKey(bufs[i]) \in Nat
           /\ \E i \in 1 .. Len(bufs) : FrontKey(bufs[i]) <= SmallestFinalKey(bufs)
<1> DEFINE finals == {Last(bufs[i]).key : i \in DOMAIN bufs}
<1>1. Len(bufs) \in Nat /\ DOMAIN bufs = 1 .. Len(bufs)
  BY BufsTyped
<1>2. ASSUME NEW i \in 1 .. Len(bufs)
      PROVE  FrontKey(bufs[i]) \in Nat /\ Last(bufs[i]).key \in Nat /\ FrontKey(bufs[i]) <= Last(bufs[i]).key
  <2> DEFINE s == bufs[i]
  <2>1. s \in Seq(EntryType) /\ s # <<>> /\ Sorted(s)
    BY BufsTyped
  <2> HIDE DEF s
  <2>2. Len(s) \in Nat \ {0} /\ Head(s) = s[1]
    BY <2>1, EmptySeq
  <2>3. s[1] \in EntryType /\ s[Len(s)] \in EntryType
    BY <2>1, <2>2
  <2>4. s[1].key \in Nat /\ s[Len(s)].key \in Nat
    BY <2>3 DEF EntryType
  <2>5. s[1].key <= s[Len(s)].key
    <3>1. CASE Len(s) = 1
      BY <2>4, <3>1
    <3>2. CASE Len(s) # 1
      <4>1. 1 \in 1 .. Len(s) /\ Len(s) \in 1 .. Len(s) /\ 1 < Len(s)
        <5> DEFINE n == Len(s)
        <5>1. n \in Nat /\ n # 0 /\ n # 1
          BY <2>2, <3>2
        <5> HIDE DEF n
        <5>2. 1 \in 1 .. n /\ n \in 1 .. n /\ 1 < n
          BY <5>1
        <5> QED  BY <5>2 DEF n
      <4>2. s[1].key < s[Len(s)].key
        BY <2>1, <4>1 DEF Sorted
      <4> QED  BY <2>4, <4>2
    <3> QED  BY <3>1, <3>2
  <2>6. FrontKey(s) = s[1].key /\ Last(s).key = s[Len(s)].key
    BY <2>2 DEF FrontKey, Last
  <2> QED  BY <2>4, <2>5, <2>6 DEF s
<1>3. finals \in SUBSET Nat /\ finals # {}
  <2>1. 1 \in 1 .. Len(bufs)
    BY <1>1
  <2> QED  BY <1>1, <1>2, <2>1
<1>4. Min(finals) \in finals
  <2> HIDE DEF finals
  <2> QED  BY <1>3, MinLeast
<1>5. SmallestFinalKey(bufs) = Min(finals)
  BY DEF SmallestFinalKey
<1>6. PICK i \in 1 .. Len(bufs) : Min(finals) = Last(bufs[i]).key
  BY <1>1, <1>4
<1> HIDE DEF finals
<1> QED  BY <1>2, <1>5, <1>6

LEMMA SortGrows ==
    ASSUME NEW bufs, BufsOK(bufs), Len(bufs) \in {1, 2},
           \A i \in 1 .. Len(bufs) : bufs[i] # <<>> /\ Sorted(bufs[i]),
           NEW m, m = merge_sort(bufs)
    PROVE  m.result = "ok" /\ Len(m.out) > 0
<1>1. CASE Len(bufs) = 1
  <2>1. m = [out |-> bufs[1], bufs |-> << <<>> >>, result |-> "ok"]
    BY <1>1 DEF merge_sort
  <2>2. bufs[1] \in Seq(EntryType) /\ bufs[1] # <<>>
    BY <1>1, BufsTyped
  <2>3. Len(bufs[1]) \in Nat \ {0}
    BY <2>2, EmptySeq
  <2> QED  BY <2>1, <2>3
<1>2. CASE Len(bufs) = 2
  <2> DEFINE final == SmallestFinalKey(bufs)
             keys == {FrontKey(bufs[i]) : i \in DOMAIN bufs}
             S == keys \cap 0 .. final
             rounds == InOrder(S)
  <2>1. m = ServeRounds(bufs, rounds, final)
    BY <1>2 DEF merge_sort
  <2>2. DOMAIN bufs = {1, 2}
    BY <1>2, BufsTyped
  <2>3. /\ final \in Nat /\ \A i \in 1 .. Len(bufs) : FrontKey(bufs[i]) \in Nat
        /\ \E i \in 1 .. Len(bufs) : FrontKey(bufs[i]) <= final
    <3>1. Len(bufs) > 0
      BY <1>2
    <3> QED  BY <3>1, FinalKeyIs
  <2> HIDE DEF final
  <2>4. keys = {FrontKey(bufs[1]), FrontKey(bufs[2])}
    BY <2>2
  <2>5. S \in SUBSET Nat /\ S # {} /\ S \subseteq keys /\ \A k \in S : k <= final
    BY <1>2, <2>2, <2>3
  <2>6. IsFiniteSet(S)
    <3>1. IsFiniteSet(keys)
      <4> DEFINE a == FrontKey(bufs[1])
                 b == FrontKey(bufs[2])
      <4>1. keys = {a} \cup {b}
        BY <2>4
      <4> HIDE DEF keys, a, b
      <4>2. IsFiniteSet({a})
        BY FS_Singleton
      <4> QED  BY <4>1, <4>2, FS_AddElement
    <3> HIDE DEF S, keys
    <3> QED  BY <2>5, <3>1, FS_Subset
  <2>7. \A k \in keys : GroupAt(bufs, k) # {}
    BY DEF GroupAt
  <2> HIDE DEF S, rounds
  <2>8. /\ Len(rounds) = Cardinality(S) /\ Cardinality(S) \in Nat
        /\ \A r \in 1 .. Len(rounds) : rounds[r] \in S
    BY <2>5, <2>6, InOrderEnumerates DEF rounds
  <2>9. Len(rounds) > 0
    BY <2>5, <2>6, <2>8, FS_EmptySet
  <2>10. \A r \in 1 .. Len(rounds) : rounds[r] \in Nat /\ rounds[r] <= final /\ rounds[r] \in keys
    BY <2>5, <2>8
  <2>11. ASSUME NEW r \in 1 .. Len(rounds), r < Len(rounds)
         PROVE  rounds[r] < rounds[r + 1] /\ Cardinality(GroupAt(bufs, rounds[r])) = 1
    <3>1. r + 1 \in 1 .. Len(rounds) /\ r < r + 1
      BY <2>8, <2>11
    <3>2. rounds[r] < rounds[r + 1]
      BY <2>5, <2>6, <2>8, <3>1, InOrderAscends DEF rounds
    <3>3. rounds[r] # rounds[r + 1] /\ rounds[r] \in keys /\ rounds[r + 1] \in keys
      BY <2>10, <3>1, <3>2
    <3> DEFINE g == GroupAt(bufs, rounds[r])
    <3>4. g = {1} \/ g = {2}
      BY <2>2, <2>4, <3>3 DEF GroupAt
    <3> HIDE DEF g
    <3>5. Cardinality(g) = 1
      BY <3>4, FS_Singleton
    <3> QED  BY <3>2, <3>5 DEF g
  <2>12. GroupAt(bufs, rounds[1]) # {}
    <3>1. 1 \in 1 .. Len(rounds)
      BY <2>8, <2>9
    <3> QED  BY <2>7, <2>10, <3>1
  <2>13. Len(rounds) \in Nat
    BY <2>8
  <2> HIDE DEF keys
  <2> QED  BY <2>1, <2>3, <2>9, <2>10, <2>11, <2>12, <2>13, RoundsGrow
<1> QED  BY <1>1, <1>2

=============================================================================
