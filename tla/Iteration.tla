----------------------------- MODULE Iteration -----------------------------
(***************************************************************************)
(* What FoldLeft computes: the last value of a run that starts with base and *)
(* makes one step for each element of the sequence.  A module that folds an  *)
(* operator of its own instantiates this one with it; c is for whatever the  *)
(* operator takes beside the value so far and the element.                   *)
(***************************************************************************)
EXTENDS Naturals, Sequences, SequencesExt, FiniteSetsExt, WellFoundedInduction, TLAPS

CONSTANT Step(_, _, _)

Result(c, base, s) == FoldLeft(LAMBDA a, x : Step(c, a, x), base, s)

(* f is the run over s.                                                      *)
IsRun(f, c, base, s) ==
    /\ f[0] = base
    /\ \A i \in 1 .. Len(s) : f[i] = Step(c, f[i - 1], s[i])

(* Induction over the naturals, for a set.                                   *)
LEMMA SetInduction ==
    ASSUME NEW P, 0 \in P, \A k \in Nat : k \in P => k + 1 \in P
    PROVE  \A k \in Nat : k \in P
<1> DEFINE B == {k \in Nat : k \notin P}
<1>1. CASE B = {}
  BY <1>1
<1>2. CASE B # {}
  <2>1. PICK m \in B : \A i \in B : ~(<<i, m>> \in OpToRel(<, Nat))
    <3>1. B \subseteq Nat
      OBVIOUS
    <3> HIDE DEF B
    <3> QED  BY <1>2, <3>1, WFMin, NatLessThanWellFounded
  <2>2. m \in Nat /\ m \notin P /\ m # 0
    OBVIOUS
  <2>3. m - 1 \in Nat /\ m - 1 < m /\ (m - 1) + 1 = m
    BY <2>2
  <2>4. m - 1 \notin B
    <3> HIDE DEF B
    <3> QED  BY <2>1, <2>2, <2>3 DEF OpToRel
  <2>5. m - 1 \in P
    BY <2>3, <2>4
  <2> QED  BY <2>2, <2>3, <2>5
<1> QED  BY <1>1, <1>2

(* The largest element of a set that has one.                                *)
LEMMA MaxIs ==
    ASSUME NEW T \in SUBSET Nat, NEW m \in T, \A i \in T : i <= m
    PROVE  Max(T) = m
<1>1. Max(T) \in T /\ \A i \in T : Max(T) >= i
  BY DEF Max
<1>2. Max(T) \in Nat /\ m \in Nat /\ Max(T) >= m /\ m >= Max(T)
  BY <1>1
<1> QED  BY <1>2

(* What FoldLeft recurses over: the sets of positions.                       *)
Body(c, base, s, g, T) == IF T = {} THEN base ELSE Step(c, g[T \ {Max(T)}], s[Max(T)])

Solves(c, base, s, k, g) == g = [T \in SUBSET (1 .. k) |-> Body(c, base, s, g, T)]

LEMMA TopPosition ==
    ASSUME NEW k \in Nat, NEW T \in SUBSET (1 .. k + 1), k + 1 \in T
    PROVE  Max(T) = k + 1 /\ T \ {k + 1} \in SUBSET (1 .. k) /\ T # {}
<1>1. T \in SUBSET Nat /\ \A i \in T : i <= k + 1
  OBVIOUS
<1>2. Max(T) = k + 1
  BY <1>1, MaxIs
<1> QED  BY <1>2

(* There is a function that satisfies the recursion.                         *)
LEMMA FoldSolved ==
    ASSUME NEW c, NEW base, NEW s
    PROVE  \A k \in Nat : \E g : Solves(c, base, s, k, g)
<1> DEFINE P == {k \in Nat : \E g : Solves(c, base, s, k, g)}
<1>1. 0 \in P
  <2> DEFINE g == [T \in SUBSET (1 .. 0) |-> base]
  <2>1. \A T \in SUBSET (1 .. 0) : T = {}
    OBVIOUS
  <2>2. g = [T \in SUBSET (1 .. 0) |-> Body(c, base, s, g, T)]
    BY <2>1 DEF Body
  <2> HIDE DEF g
  <2> QED  BY <2>2 DEF Solves
<1>2. ASSUME NEW k \in Nat, k \in P PROVE k + 1 \in P
  <2>1. PICK g : g = [T \in SUBSET (1 .. k) |-> Body(c, base, s, g, T)]
    BY <1>2 DEF Solves
  <2> DEFINE h == [T \in SUBSET (1 .. k + 1) |->
                      IF k + 1 \in T THEN Step(c, g[T \ {k + 1}], s[k + 1]) ELSE g[T]]
  <2>2. ASSUME NEW T \in SUBSET (1 .. k + 1) PROVE h[T] = Body(c, base, s, h, T)
    <3>1. CASE k + 1 \in T
      <4>1. Max(T) = k + 1 /\ T \ {k + 1} \in SUBSET (1 .. k) /\ T # {}
        BY <3>1, TopPosition
      <4>2. T \ {k + 1} \in SUBSET (1 .. k + 1) /\ k + 1 \notin T \ {k + 1}
        OBVIOUS
      <4>3. h[T \ {k + 1}] = g[T \ {k + 1}]
        BY <4>2
      <4>4. h[T] = Step(c, g[T \ {k + 1}], s[k + 1])
        BY <3>1
      <4> HIDE DEF h
      <4> QED  BY <4>1, <4>3, <4>4 DEF Body
    <3>2. CASE k + 1 \notin T
      <4>1. T \in SUBSET (1 .. k) /\ h[T] = g[T]
        BY <3>2
      <4>2. g[T] = Body(c, base, s, g, T)
        BY <2>1, <4>1
      <4>3. T \ {Max(T)} \in SUBSET (1 .. k + 1) /\ k + 1 \notin T \ {Max(T)}
        <5> HIDE DEF h
        <5> QED  BY <3>2
      <4>4. h[T \ {Max(T)}] = g[T \ {Max(T)}]
        BY <4>3
      <4> HIDE DEF h
      <4> QED  BY <4>1, <4>2, <4>4 DEF Body
    <3> QED  BY <3>1, <3>2
  <2>3. h = [T \in SUBSET (1 .. k + 1) |-> h[T]]
    OBVIOUS
  <2>4. h = [T \in SUBSET (1 .. k + 1) |-> Body(c, base, s, h, T)]
    <3> HIDE DEF h
    <3> QED  BY <2>2, <2>3
  <2> HIDE DEF h
  <2> QED  BY <2>4 DEF Solves
<1>3. \A k \in Nat : k \in P
  <2> HIDE DEF P
  <2> QED  BY <1>1, <1>2, SetInduction
<1> QED  BY <1>3

(* FoldLeft makes a run.                                                     *)
LEMMA FoldRuns ==
    ASSUME NEW c, NEW base, NEW S, NEW s \in Seq(S)
    PROVE  \E f : IsRun(f, c, base, s) /\ Result(c, base, s) = f[Len(s)]
<1> DEFINE n == Len(s)
           g == CHOOSE g : Solves(c, base, s, n, g)
           f == [i \in 0 .. n |-> g[1 .. i]]
<1>1. n \in Nat /\ DOMAIN s = 1 .. n
  OBVIOUS
<1>2. Solves(c, base, s, n, g)
  BY <1>1, FoldSolved
<1>3. Result(c, base, s) = g[1 .. n]
  BY <1>1 DEF Result, FoldLeft, MapThenFoldSet, Solves, Body
<1> HIDE DEF g
<1>4. ASSUME NEW i \in 0 .. n
      PROVE  g[1 .. i] = IF i = 0 THEN base ELSE Step(c, g[1 .. i - 1], s[i])
  <2>1. 1 .. i \in SUBSET (1 .. n)
    OBVIOUS
  <2>2. g[1 .. i] = Body(c, base, s, g, 1 .. i)
    BY <1>2, <2>1 DEF Solves
  <2>3. CASE i = 0
    <3>1. 1 .. i = {}
      BY <2>3
    <3> QED  BY <2>2, <2>3, <3>1 DEF Body
  <2>4. CASE i # 0
    <3>1. 1 .. i \in SUBSET Nat /\ i \in 1 .. i /\ \A j \in 1 .. i : j <= i
      BY <2>4
    <3>2. Max(1 .. i) = i
      BY <3>1, MaxIs
    <3>3. 1 .. i # {} /\ (1 .. i) \ {i} = 1 .. i - 1
      BY <2>4
    <3> QED  BY <2>2, <2>4, <3>2, <3>3 DEF Body
  <2> QED  BY <2>3, <2>4
<1>5. f[0] = base
  BY <1>1, <1>4
<1>6. ASSUME NEW i \in 1 .. n PROVE f[i] = Step(c, f[i - 1], s[i])
  <2>1. i \in 0 .. n /\ i - 1 \in 0 .. n /\ i # 0
    BY <1>1
  <2>2. f[i] = g[1 .. i] /\ f[i - 1] = g[1 .. i - 1]
    BY <2>1
  <2> HIDE DEF f
  <2> QED  BY <1>4, <2>1, <2>2
<1>7. f[n] = g[1 .. n]
  BY <1>1
<1> HIDE DEF f
<1> QED  BY <1>3, <1>5, <1>6, <1>7 DEF IsRun

(* There is no other run.                                                    *)
LEMMA RunUnique ==
    ASSUME NEW c, NEW base, NEW S, NEW s \in Seq(S),
           NEW f, IsRun(f, c, base, s), NEW g, IsRun(g, c, base, s)
    PROVE  \A i \in 0 .. Len(s) : f[i] = g[i]
<1> DEFINE P == {k \in Nat : k <= Len(s) => f[k] = g[k]}
<1>1. 0 \in P
  BY DEF IsRun
<1>2. ASSUME NEW k \in Nat, k \in P PROVE k + 1 \in P
  <2>1. CASE k + 1 <= Len(s)
    <3>1. k + 1 \in 1 .. Len(s) /\ (k + 1) - 1 = k /\ f[k] = g[k]
      BY <1>2, <2>1
    <3> QED  BY <3>1 DEF IsRun
  <2> QED  BY <2>1
<1>3. \A k \in Nat : k \in P
  <2> HIDE DEF P
  <2> QED  BY <1>1, <1>2, SetInduction
<1> QED  BY <1>3

(* One element more is one step more.                                        *)
LEMMA FoldAppend ==
    ASSUME NEW c, NEW base, NEW S, NEW s \in Seq(S), NEW x \in S
    PROVE  Result(c, base, Append(s, x)) = Step(c, Result(c, base, s), x)
<1> DEFINE t == Append(s, x)
<1>1. /\ t \in Seq(S) /\ Len(t) = Len(s) + 1 /\ Len(s) \in Nat /\ t[Len(t)] = x
      /\ \A i \in 1 .. Len(s) : i \in 1 .. Len(t) /\ t[i] = s[i]
  OBVIOUS
<1> HIDE DEF t
<1>2. PICK f : IsRun(f, c, base, s) /\ Result(c, base, s) = f[Len(s)]
  BY FoldRuns
<1>3. PICK g : IsRun(g, c, base, t) /\ Result(c, base, t) = g[Len(t)]
  BY <1>1, FoldRuns
<1>4. IsRun(g, c, base, s)
  BY <1>1, <1>3 DEF IsRun
<1>5. f[Len(s)] = g[Len(s)]
  <2>1. Len(s) \in 0 .. Len(s)
    BY <1>1
  <2> QED  BY <1>2, <1>4, <2>1, RunUnique
<1>6. g[Len(t)] = Step(c, g[Len(s)], x)
  <2>1. Len(t) \in 1 .. Len(t) /\ Len(t) - 1 = Len(s)
    BY <1>1
  <2> QED  BY <1>1, <1>3, <2>1 DEF IsRun
<1> QED  BY <1>2, <1>3, <1>5, <1>6 DEF t

(* No element is no step.                                                    *)
LEMMA FoldEmpty ==
    ASSUME NEW c, NEW base
    PROVE  Result(c, base, <<>>) = base
<1>1. << >> \in Seq({}) /\ Len(<< >>) = 0
  OBVIOUS
<1>2. PICK f : IsRun(f, c, base, << >>) /\ Result(c, base, << >>) = f[Len(<< >>)]
  BY <1>1, FoldRuns
<1> QED  BY <1>1, <1>2 DEF IsRun
=============================================================================
