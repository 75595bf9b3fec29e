--------------------------- MODULE OrderingProofs ---------------------------
(***************************************************************************)
(* What the closed forms of Ordering compute.                                *)
(***************************************************************************)
EXTENDS Ordering, Functions, FunctionTheorems, FiniteSetTheorems, TLAPS

LEMMA RankBounds ==
    ASSUME NEW S \in SUBSET Nat, IsFiniteSet(S), NEW n \in S
    PROVE  Rank(S, n) \in 0 .. Cardinality(S) - 1
<1> DEFINE below == {m \in S : m < n}
<1>1. IsFiniteSet(below) /\ Cardinality(below) \in Nat /\ Cardinality(below) <= Cardinality(S \ {n})
  <2>1. below \in SUBSET (S \ {n})
    OBVIOUS
  <2>2. IsFiniteSet(S \ {n})
    BY FS_RemoveElement
  <2> HIDE DEF below
  <2> QED  BY <2>1, <2>2, FS_Subset, FS_CardinalityType
<1>2. Cardinality(S \ {n}) = Cardinality(S) - 1 /\ Cardinality(S) \in Nat
  BY FS_RemoveElement, FS_CardinalityType
<1> QED  BY <1>1, <1>2 DEF Rank

LEMMA RankGrows ==
    ASSUME NEW S \in SUBSET Nat, IsFiniteSet(S), NEW n \in S, NEW m \in S, n < m
    PROVE  Rank(S, n) < Rank(S, m)
<1> DEFINE low == {k \in S : k < n}
           high == {k \in S : k < m}
<1>1. IsFiniteSet(high) /\ IsFiniteSet(high \ {n})
  <2>1. high \in SUBSET S
    OBVIOUS
  <2> HIDE DEF high
  <2> QED  BY <2>1, FS_Subset, FS_RemoveElement
<1>2. low \in SUBSET (high \ {n}) /\ n \in high
  <2>1. \A k \in S : k \in Nat
    OBVIOUS
  <2>2. \A k \in S : k < n => k < m /\ k # n
    BY <2>1
  <2> QED  BY <2>2
<1> HIDE DEF low, high
<1>3. Cardinality(low) <= Cardinality(high \ {n}) /\ IsFiniteSet(low)
  BY <1>1, <1>2, FS_Subset
<1>4. Cardinality(high \ {n}) = Cardinality(high) - 1
  BY <1>1, <1>2, FS_RemoveElement
<1>5. Cardinality(low) \in Nat /\ Cardinality(high) \in Nat
  BY <1>1, <1>3, FS_CardinalityType
<1> QED  BY <1>3, <1>4, <1>5 DEF Rank, low, high

(* No two elements have the same rank.                                       *)
LEMMA RankInjective ==
    ASSUME NEW S \in SUBSET Nat, IsFiniteSet(S),
           NEW n \in S, NEW m \in S, Rank(S, n) = Rank(S, m)
    PROVE  n = m
<1>1. n \in Nat /\ m \in Nat
  OBVIOUS
<1>2. Rank(S, n) \in 0 .. Cardinality(S) - 1
  BY RankBounds
<1>3. Rank(S, n) \in Int /\ ~(Rank(S, n) < Rank(S, m)) /\ ~(Rank(S, m) < Rank(S, n))
  BY <1>2
<1>4. ~(n < m) /\ ~(m < n)
  BY <1>3, RankGrows
<1> QED  BY <1>1, <1>4

(* Every rank below the cardinality is that of an element.                   *)
LEMMA RankTaken ==
    ASSUME NEW S \in SUBSET Nat, IsFiniteSet(S), NEW r \in 0 .. Cardinality(S) - 1
    PROVE  \E n \in S : Rank(S, n) = r
<1> DEFINE f == [n \in S |-> Rank(S, n)]
           T == 0 .. Cardinality(S) - 1
<1>1. f \in [S -> T]
  <2>1. \A n \in S : Rank(S, n) \in T
    BY RankBounds
  <2> HIDE DEF T
  <2> QED  BY <2>1
<1>2. \A n \in S, m \in S : Rank(S, n) = Rank(S, m) => n = m
  BY RankInjective
<1>3. f \in Injection(S, T)
  BY <1>1, <1>2 DEF Injection, IsInjective
<1>4. Cardinality(S) \in Nat /\ IsFiniteSet(T) /\ Cardinality(T) = Cardinality(S)
  <2>1. Cardinality(S) \in Nat
    BY FS_CardinalityType
  <2>2. 0 \in Int /\ Cardinality(S) - 1 \in Int
    BY <2>1
  <2>3. /\ IsFiniteSet(T)
        /\ Cardinality(T) = IF 0 > Cardinality(S) - 1 THEN 0 ELSE (Cardinality(S) - 1) - 0 + 1
    BY <2>2, FS_Interval
  <2> QED  BY <2>1, <2>3
<1>5. f \in Surjection(S, T)
  <2> HIDE DEF f, T
  <2> QED  BY <1>3, <1>4, FS_Injection
<1>6. PICK n \in S : f[n] = r
  BY <1>5 DEF Surjection
<1> QED  BY <1>6

(* InOrder enumerates the set.                                               *)
LEMMA InOrderEnumerates ==
    ASSUME NEW S \in SUBSET Nat, IsFiniteSet(S)
    PROVE  /\ InOrder(S) \in Seq(S)
           /\ Len(InOrder(S)) = Cardinality(S) /\ Cardinality(S) \in Nat
           /\ \A i \in 1 .. Cardinality(S) : InOrder(S)[i] \in S /\ Rank(S, InOrder(S)[i]) = i - 1
           /\ \A n \in S : \E i \in 1 .. Cardinality(S) : InOrder(S)[i] = n
<1>1. Cardinality(S) \in Nat
  BY FS_CardinalityType
<1>2. ASSUME NEW i \in 1 .. Cardinality(S)
      PROVE  InOrder(S)[i] \in S /\ Rank(S, InOrder(S)[i]) = i - 1
  <2>1. i - 1 \in 0 .. Cardinality(S) - 1
    BY <1>1
  <2>2. \E n \in S : Rank(S, n) = i - 1
    BY <2>1, RankTaken
  <2>3. InOrder(S)[i] = CHOOSE n \in S : Rank(S, n) = i - 1
    BY DEF InOrder
  <2> QED  BY <2>2, <2>3
<1>3. InOrder(S) = [i \in 1 .. Cardinality(S) |-> InOrder(S)[i]]
  BY DEF InOrder
<1>4. InOrder(S) \in Seq(S) /\ Len(InOrder(S)) = Cardinality(S)
  BY <1>1, <1>2, <1>3
<1>5. ASSUME NEW n \in S PROVE \E i \in 1 .. Cardinality(S) : InOrder(S)[i] = n
  <2> DEFINE i == Rank(S, n) + 1
  <2>1. i \in 1 .. Cardinality(S) /\ i - 1 = Rank(S, n) /\ i - 1 \in 0 .. Cardinality(S) - 1
    BY <1>1, RankBounds
  <2>2. InOrder(S)[i] \in S /\ Rank(S, InOrder(S)[i]) = i - 1
    BY <1>2, <2>1
  <2> HIDE DEF i
  <2>3. \A x, y \in S : Rank(S, x) = Rank(S, y) => x = y
    BY RankInjective
  <2>4. InOrder(S)[i] = n
    BY <2>1, <2>2, <2>3
  <2> QED  BY <2>1, <2>4
<1> QED  BY <1>1, <1>2, <1>4, <1>5

(* It is ascending.                                                          *)
LEMMA InOrderAscends ==
    ASSUME NEW S \in SUBSET Nat, IsFiniteSet(S),
           NEW i \in 1 .. Cardinality(S), NEW j \in 1 .. Cardinality(S), i < j
    PROVE  InOrder(S)[i] < InOrder(S)[j]
<1> DEFINE n == InOrder(S)[i]
           m == InOrder(S)[j]
<1>1. n \in S /\ m \in S /\ Rank(S, n) = i - 1 /\ Rank(S, m) = j - 1
  BY InOrderEnumerates
<1> HIDE DEF n, m
<1>2. n \in Nat /\ m \in Nat
  BY <1>1
<1>3. ~(m < n)
  BY <1>1, <1>2, RankGrows
<1>4. n # m
  BY <1>1
<1>5. n < m
  BY <1>2, <1>3, <1>4
<1> QED  BY <1>5 DEF n, m

(* A larger element comes last.                                              *)
LEMMA InOrderAppend ==
    ASSUME NEW S \in SUBSET Nat, IsFiniteSet(S), NEW a \in Nat, \A n \in S : n < a
    PROVE  InOrder(S \cup {a}) = Append(InOrder(S), a)
<1> DEFINE T == S \cup {a}
           k == Cardinality(S)
<1>1. IsFiniteSet(T) /\ Cardinality(T) = k + 1 /\ k \in Nat /\ T \in SUBSET Nat /\ a \notin S
  BY FS_AddElement, FS_CardinalityType
<1>2. ASSUME NEW n \in S PROVE Rank(T, n) = Rank(S, n)
  <2>1. n \in Nat /\ n < a
    OBVIOUS
  <2>2. {m \in T : m < n} = {m \in S : m < n}
    BY <2>1
  <2> QED  BY <2>2 DEF Rank
<1>3. Rank(T, a) = k
  <2>1. ~(a < a)
    OBVIOUS
  <2>2. {m \in T : m < a} = S
    BY <2>1
  <2> QED  BY <2>2 DEF Rank
<1> HIDE DEF T
<1>4. a \in T /\ S \subseteq T
  BY DEF T
<1>5. /\ InOrder(S) \in Seq(S) /\ Len(InOrder(S)) = k
      /\ \A i \in 1 .. k : InOrder(S)[i] \in S /\ Rank(S, InOrder(S)[i]) = i - 1
  BY InOrderEnumerates
<1>6. /\ InOrder(T) \in Seq(T) /\ Len(InOrder(T)) = k + 1
      /\ \A i \in 1 .. k + 1 : InOrder(T)[i] \in T /\ Rank(T, InOrder(T)[i]) = i - 1
  BY <1>1, InOrderEnumerates
<1>7. \A x, y \in T : Rank(T, x) = Rank(T, y) => x = y
  BY <1>1, RankInjective
<1>8. ASSUME NEW i \in 1 .. k PROVE InOrder(T)[i] = InOrder(S)[i]
  <2>1. i \in 1 .. k + 1 /\ i - 1 \in 0 .. Cardinality(T) - 1
    BY <1>1
  <2>2. InOrder(S)[i] \in T /\ Rank(T, InOrder(S)[i]) = i - 1
    BY <1>2, <1>4, <1>5
  <2>3. InOrder(T)[i] \in T /\ Rank(T, InOrder(T)[i]) = i - 1
    BY <1>6, <2>1
  <2>4. Rank(T, InOrder(T)[i]) = Rank(T, InOrder(S)[i])
    BY <2>2, <2>3
  <2> QED  BY <1>7, <2>2, <2>3, <2>4
<1>9. InOrder(T)[k + 1] = a
  <2>1. k + 1 \in 1 .. k + 1 /\ k \in 0 .. Cardinality(T) - 1
    BY <1>1
  <2>2. InOrder(T)[k + 1] \in T /\ Rank(T, InOrder(T)[k + 1]) = k
    BY <1>1, <1>6, <2>1
  <2>3. Rank(T, InOrder(T)[k + 1]) = Rank(T, a)
    BY <1>3, <2>2
  <2> QED  BY <1>4, <1>7, <2>2, <2>3
<1>10. InOrder(T) = Append(InOrder(S), a)
  <2> DEFINE s == InOrder(S)
             t == InOrder(T)
  <2>1. s \in Seq(Nat) /\ t \in Seq(Nat) /\ Len(s) = k /\ Len(t) = k + 1
    <3>1. ASSUME NEW A \in SUBSET Nat, NEW q \in Seq(A) PROVE q \in Seq(Nat)
      <4>1. Len(q) \in Nat /\ q = [i \in 1 .. Len(q) |-> q[i]]
        OBVIOUS
      <4>2. \A i \in 1 .. Len(q) : q[i] \in A
        OBVIOUS
      <4>3. \A i \in 1 .. Len(q) : q[i] \in Nat
        BY <4>2
      <4> QED  BY <4>1, <4>3
    <3> QED  BY <1>1, <1>5, <1>6, <3>1
  <2>2. (\A i \in 1 .. k : t[i] = s[i]) /\ t[k + 1] = a
    BY <1>8, <1>9
  <2> HIDE DEF s, t
  <2>3. t = Append(s, a)
    BY <1>1, <2>1, <2>2
  <2> QED  BY <2>3 DEF s, t
<1> QED  BY <1>10 DEF T

LEMMA InOrderEmpty == InOrder({}) = <<>>
<1>1. Cardinality({}) = 0 /\ IsFiniteSet({})
  BY FS_EmptySet
<1>2. InOrder({}) \in Seq({}) /\ Len(InOrder({})) = 0
  BY <1>1, InOrderEnumerates
<1> QED  BY <1>2
=============================================================================
