------------------------ MODULE StorageEngineProofs ------------------------
(***************************************************************************)
(* Proofs about StorageEngine: its inductive invariant, and the properties   *)
(* that follow from it, for every number of clients, workers, keys, calls    *)
(* and restarts, every memtable size and every choice of failing I/O.        *)
(***************************************************************************)
EXTENDS StorageEngine, SequenceTheorems, FiniteSetTheorems, WellFoundedInduction, TLAPS

(* The parts of a request, of an outcome and of an entry.                    *)
LEMMA RequestType ==
    ASSUME NEW r \in Requests
    PROVE  r.op \in {"get", "put", "delete"} /\ r.key \in Keys /\ r.value \in Maybe
BY DEF Requests

LEMMA OutcomeType ==
    /\ \A v \in Maybe : Ok(v) \in Outcomes
    /\ \A e \in {"IoError", "Shutdown"} : Failure(e) \in Outcomes
    /\ NoValue \in Maybe
BY DEF Ok, Failure, Outcomes, Maybe

LEMMA EntryType ==
    /\ Absent \in Entry
    /\ EmptyTable \in Table
    /\ \A v : EntryLen(v) \in Nat \ {0}
BY DEF Absent, Entry, EmptyTable, Table, Maybe, EntryLen

(* A request is not the idle marker.                                         *)
LEMMA IdleNoRequest == Idle \notin Requests
BY DEF Idle, Requests

-----------------------------------------------------------------------------
(* Initially the invariant holds.                                            *)
LEMMA InitInductive == Init => Inductive
<1> SUFFICES ASSUME Init PROVE Inductive
  OBVIOUS
<1>1. TypeOK
  BY OutcomeType, EntryType DEF Init, TypeOK, WorkerRest, WriterRest, WorkerPcs, WriterPcs,
         WorkerState, WriterState
<1>2. OneHolder /\ JobsMatch /\ ShutdownLast /\ DownIsEmpty
  BY EngineAssumption DEF Init, OneHolder, JobsMatch, ShutdownLast, DownIsEmpty, WorkerRest,
         WriterRest, WriterAlive, Busy
<1>3. EntriesLogged /\ TableNewest /\ RecordsCovered /\ WriterMidway
  BY DEF Init, EntriesLogged, TableNewest, RecordsCovered, WriterMidway, WriterRest,
         Logged, EmptyTable
<1>4. SizesCounted /\ DamageMarked
  BY DEF Init, SizesCounted, FlushHasEntries, WriterRest, DamageMarked
<1> QED  BY <1>1, <1>2, <1>3, <1>4 DEF Inductive

-----------------------------------------------------------------------------
(* A job in a worker's hands is a request of a client.                       *)
LEMMA BusyRequest ==
    ASSUME Inductive, NEW w \in Workers, Busy(w)
    PROVE  /\ worker[w].client \in Clients
           /\ call[worker[w].client] \in Requests
           /\ call[worker[w].client].key \in Keys
           /\ call[worker[w].client].value \in Maybe
BY RequestType DEF Inductive, OneHolder, TypeOK

(* So is the one the write worker holds.                                     *)
LEMMA WriterRequest ==
    ASSUME Inductive, writer.pc \in {"append", "insert"}
    PROVE  /\ writer.job \in Workers /\ Busy(writer.job)
           /\ WriteRequest.key \in Keys /\ WriteRequest.value \in Maybe
<1>1. writer.job \in Workers /\ Busy(writer.job)
  BY DEF Inductive, JobsMatch, Busy
<1> QED  BY <1>1, BusyRequest DEF WriteRequest

(* The entries of level zero have the type of entries, and so has the one    *)
(* that LevelZeroGet picks.                                                  *)
LEMMA SegmentType ==
    ASSUME TypeOK, NEW n \in 1 .. Len(level_zero), NEW k \in Keys
    PROVE  /\ level_zero[n] \in Segment
           /\ level_zero[n].entries[k] \in Entry
           /\ level_zero[n].entries[k].seq \in Nat
           /\ level_zero[n].entries[k].value \in Maybe
<1>1. level_zero[n] \in Segment
  BY DEF TypeOK
<1> QED  BY <1>1 DEF Segment, Table, Entry

(* A non-empty set of numbers up to n has a largest element: n minus the     *)
(* least of their distances from n.                                          *)
LEMMA MaxExists ==
    ASSUME NEW n \in Nat, NEW S \in SUBSET (0 .. n), S # {}
    PROVE  \E m \in S : \A i \in S : i <= m
<1> DEFINE T == {n - i : i \in S}
<1>1. \A i \in S : i \in Nat /\ i <= n /\ n - i \in Nat
  OBVIOUS
<1>2. T \subseteq Nat
  BY <1>1
<1>3. T # {}
  OBVIOUS
<1>4. PICK d \in T : \A e \in T : ~(<<e, d>> \in OpToRel(<, Nat))
  <2> HIDE DEF T
  <2> QED  BY <1>2, <1>3, WFMin, NatLessThanWellFounded
<1>5. PICK m \in S : d = n - m
  OBVIOUS
<1>6. ASSUME NEW i \in S PROVE i <= m
  <2>1. n - i \in T
    OBVIOUS
  <2>2. n - i \in Nat /\ n - m \in Nat /\ ~(<<n - i, n - m>> \in OpToRel(<, Nat))
    BY <2>1, <1>1, <1>4, <1>5
  <2>3. ~(n - i < n - m)
    BY <2>2 DEF OpToRel
  <2> QED  BY <2>3, <1>1
<1> QED  BY <1>6

-----------------------------------------------------------------------------
(* Induction over the naturals, for a set.                                   *)
LEMMA CountUp ==
    ASSUME NEW P, 0 \in P, \A k \in Nat : k \in P => k + 1 \in P
    PROVE  \A k \in Nat : k \in P
<1> DEFINE B == {k \in Nat : k \notin P}
<1>1. CASE B = {}
  BY <1>1
<1>2. CASE B # {}
  <2>1. PICK m \in B : \A i \in B : ~(<<i, m>> \in OpToRel(<, Nat))
    <3>1. B \subseteq Nat
      OBVIOUS
    <3> HIDE DEF B
    <3> QED  BY <1>2, <3>1, WFMin, NatLessThanWellFounded
  <2>2. m \in Nat /\ m \notin P /\ m # 0
    OBVIOUS
  <2>3. m - 1 \in Nat /\ m - 1 < m /\ (m - 1) + 1 = m
    BY <2>2
  <2>4. m - 1 \notin B
    <3> HIDE DEF B
    <3> QED  BY <2>1, <2>2, <2>3 DEF OpToRel
  <2>5. m - 1 \in P
    BY <2>3, <2>4
  <2> QED  BY <2>2, <2>3, <2>5
<1> QED  BY <1>1, <1>2

-----------------------------------------------------------------------------
(* The length of a file: the sum of the lengths of the entries of a table.   *)

Weight(t, k) == IF t[k].seq = 0 THEN 0 ELSE EntryLen(t[k].value)

AnyOf(s) == CHOOSE x \in s : TRUE

UpTo(n) == {s \in SUBSET Keys : Cardinality(s) <= n}

WeightBody(t, g, s) == IF s = {} THEN 0 ELSE Weight(t, AnyOf(s)) + g[s \ {AnyOf(s)}]

Weighs(t, D, g) == g = [s \in D |-> WeightBody(t, g, s)]

LEMMA KeySets ==
    ASSUME NEW s \in SUBSET Keys
    PROVE  /\ Cardinality(s) \in Nat /\ (Cardinality(s) = 0 <=> s = {})
           /\ s # {} => /\ AnyOf(s) \in s /\ s \ {AnyOf(s)} \in SUBSET Keys
                        /\ Cardinality(s \ {AnyOf(s)}) = Cardinality(s) - 1
<1>1. IsFiniteSet(s)
  BY EngineAssumption, FS_Subset
<1>2. Cardinality(s) \in Nat /\ (Cardinality(s) = 0 <=> s = {})
  BY <1>1, FS_CardinalityType, FS_EmptySet
<1>3. s # {} => AnyOf(s) \in s
  BY DEF AnyOf
<1> QED  BY <1>1, <1>2, <1>3, FS_RemoveElement

LEMMA UpToNext ==
    ASSUME NEW n \in Nat, NEW s \in UpTo(n + 1)
    PROVE  /\ s # {} => s \ {AnyOf(s)} \in UpTo(n)
           /\ s \in UpTo(n) \/ s # {}
<1>1. s \in SUBSET Keys /\ Cardinality(s) <= n + 1
  BY DEF UpTo
<1>2. ASSUME s # {} PROVE s \ {AnyOf(s)} \in UpTo(n)
  <2>1. s \ {AnyOf(s)} \in SUBSET Keys /\ Cardinality(s \ {AnyOf(s)}) = Cardinality(s) - 1 /\ Cardinality(s) \in Nat
    BY <1>1, <1>2, KeySets
  <2>2. Cardinality(s) - 1 <= n
    BY <1>1, <2>1
  <2> QED  BY <2>1, <2>2 DEF UpTo
<1>3. s = {} => s \in UpTo(n)
  <2>1. s = {} => Cardinality(s) = 0
    BY <1>1, KeySets
  <2> QED  BY <1>1, <2>1 DEF UpTo
<1> QED  BY <1>2, <1>3

LEMMA UpToWeighed ==
    ASSUME NEW t
    PROVE  \A n \in Nat : \E g : Weighs(t, UpTo(n), g)
<1> DEFINE P == {n \in Nat : \E g : Weighs(t, UpTo(n), g)}
<1>1. 0 \in P
  <2> DEFINE g == [s \in UpTo(0) |-> 0]
  <2>1. \A s \in UpTo(0) : s = {}
    <3> SUFFICES ASSUME NEW s \in UpTo(0) PROVE s = {}
      OBVIOUS
    <3>1. s \in SUBSET Keys /\ Cardinality(s) <= 0
      BY DEF UpTo
    <3>2. Cardinality(s) \in Nat /\ (Cardinality(s) = 0 <=> s = {})
      BY <3>1, KeySets
    <3> QED  BY <3>1, <3>2
  <2>2. g = [s \in UpTo(0) |-> WeightBody(t, g, s)]
    BY <2>1 DEF WeightBody
  <2> HIDE DEF g
  <2> QED  BY <2>2 DEF Weighs
<1>2. ASSUME NEW n \in Nat, n \in P PROVE n + 1 \in P
  <2>1. PICK g : g = [s \in UpTo(n) |-> WeightBody(t, g, s)]
    BY <1>2 DEF Weighs
  <2> DEFINE h == [s \in UpTo(n + 1) |-> IF s \in UpTo(n) THEN g[s] ELSE WeightBody(t, g, s)]
  <2>2. ASSUME NEW s \in UpTo(n + 1) PROVE h[s] = WeightBody(t, h, s)
    <3>1. h[s] = WeightBody(t, g, s)
      BY <2>1
    <3>2. CASE s = {}
      <4> HIDE DEF h
      <4> QED  BY <3>1, <3>2 DEF WeightBody
    <3>3. CASE s # {}
      <4> DEFINE d == s \ {AnyOf(s)}
      <4>1. d \in UpTo(n)
        BY <3>3, UpToNext
      <4>2. d \in UpTo(n + 1)
        <5>1. d \in SUBSET Keys /\ Cardinality(d) <= n
          BY <4>1 DEF UpTo
        <5>2. Cardinality(d) \in Nat
          BY <5>1, KeySets
        <5>3. Cardinality(d) <= n + 1
          BY <5>1, <5>2
        <5> QED  BY <5>1, <5>3 DEF UpTo
      <4> HIDE DEF d
      <4>3. h[d] = g[d]
        BY <4>1, <4>2
      <4> HIDE DEF h
      <4> QED  BY <3>1, <3>3, <4>3 DEF WeightBody, d
    <3> QED  BY <3>2, <3>3
  <2>3. h = [s \in UpTo(n + 1) |-> h[s]]
    OBVIOUS
  <2> HIDE DEF h
  <2>4. h = [s \in UpTo(n + 1) |-> WeightBody(t, h, s)]
    BY <2>2, <2>3
  <2> QED  BY <2>4 DEF Weighs
<1>3. \A n \in Nat : n \in P
  <2> HIDE DEF P
  <2> QED  BY <1>1, <1>2, CountUp
<1> QED  BY <1>3

TheWeights(t) == CHOOSE g : Weighs(t, SUBSET Keys, g)

LEMMA FileWeighed ==
    ASSUME NEW t
    PROVE  Weighs(t, SUBSET Keys, TheWeights(t)) /\ FileLen(t) = TheWeights(t)[Keys]
<1>1. Cardinality(Keys) \in Nat /\ SUBSET Keys = UpTo(Cardinality(Keys))
  <2>1. \A s \in SUBSET Keys : Cardinality(s) <= Cardinality(Keys)
    BY EngineAssumption, FS_Subset
  <2>2. Cardinality(Keys) \in Nat
    BY EngineAssumption, FS_CardinalityType
  <2> QED  BY <2>1, <2>2 DEF UpTo
<1>2. \E g : Weighs(t, SUBSET Keys, g)
  BY <1>1, UpToWeighed
<1>3. Weighs(t, SUBSET Keys, TheWeights(t))
  BY <1>2 DEF TheWeights
<1>4. FileLen(t) = TheWeights(t)[Keys]
  BY DEF FileLen, MapThenSumSet, MapThenFoldSet, TheWeights, Weighs, WeightBody, Weight, AnyOf
<1> QED  BY <1>3, <1>4

LEMMA WeightNat ==
    ASSUME NEW t, NEW k
    PROVE  Weight(t, k) \in Nat
<1>1. EntryLen(t[k].value) \in Nat
  BY EntryType
<1> QED  BY <1>1 DEF Weight

LEMMA WeightsStep ==
    ASSUME NEW t, NEW s \in SUBSET Keys
    PROVE  TheWeights(t)[s] = WeightBody(t, TheWeights(t), s)
BY FileWeighed DEF Weighs

LEMMA WeightsNat ==
    ASSUME NEW t, NEW s \in SUBSET Keys
    PROVE  TheWeights(t)[s] \in Nat
<1> DEFINE P == {n \in Nat : \A d \in UpTo(n) : TheWeights(t)[d] \in Nat}
<1>1. ASSUME NEW n \in Nat, NEW d \in UpTo(n),
             d # {} => TheWeights(t)[d \ {AnyOf(d)}] \in Nat
      PROVE  TheWeights(t)[d] \in Nat
  <2>1. TheWeights(t)[d] = WeightBody(t, TheWeights(t), d)
    BY WeightsStep DEF UpTo
  <2>2. Weight(t, AnyOf(d)) \in Nat
    BY WeightNat
  <2> QED  BY <1>1, <2>1, <2>2 DEF WeightBody
<1>2. 0 \in P
  <2> SUFFICES ASSUME NEW d \in UpTo(0) PROVE TheWeights(t)[d] \in Nat
    OBVIOUS
  <2>1. d \in SUBSET Keys /\ Cardinality(d) <= 0
    BY DEF UpTo
  <2>2. Cardinality(d) \in Nat /\ (Cardinality(d) = 0 <=> d = {})
    BY <2>1, KeySets
  <2>3. d = {}
    BY <2>1, <2>2
  <2> QED  BY <1>1, <2>3
<1>3. ASSUME NEW n \in Nat, n \in P PROVE n + 1 \in P
  <2> SUFFICES ASSUME NEW d \in UpTo(n + 1) PROVE TheWeights(t)[d] \in Nat
    OBVIOUS
  <2>1. d # {} => d \ {AnyOf(d)} \in UpTo(n)
    BY UpToNext
  <2> QED  BY <1>1, <1>3, <2>1
<1>4. \A n \in Nat : n \in P
  <2> HIDE DEF P
  <2> QED  BY <1>2, <1>3, CountUp
<1>5. Cardinality(s) \in Nat
  BY KeySets
<1>6. s \in UpTo(Cardinality(s))
  BY <1>5 DEF UpTo
<1> QED  BY <1>4, <1>5, <1>6

(* One entry is replaced.                                                    *)
Replaces(t, u, k, w) ==
    /\ w \in Nat /\ Weight(u, k) <= w
    /\ \A j \in Keys : j # k => Weight(u, j) = Weight(t, j)

Within(t, u, k, w, s) ==
    /\ TheWeights(u)[s] <= TheWeights(t)[s] + w
    /\ k \notin s => TheWeights(u)[s] = TheWeights(t)[s]

LEMMA WithinStep ==
    ASSUME NEW t, NEW u, NEW k, NEW w, Replaces(t, u, k, w), NEW s \in SUBSET Keys,
           s # {} => Within(t, u, k, w, s \ {AnyOf(s)})
    PROVE  Within(t, u, k, w, s)
<1> DEFINE d == s \ {AnyOf(s)}
           a == TheWeights(t)[d]
           b == TheWeights(u)[d]
           x == Weight(t, AnyOf(s))
           y == Weight(u, AnyOf(s))
<1>1. /\ TheWeights(t)[s] = WeightBody(t, TheWeights(t), s)
      /\ TheWeights(u)[s] = WeightBody(u, TheWeights(u), s)
  BY WeightsStep
<1>2. w \in Nat
  BY DEF Replaces
<1>3. CASE s = {}
  <2>1. TheWeights(t)[s] = 0 /\ TheWeights(u)[s] = 0
    BY <1>1, <1>3 DEF WeightBody
  <2> QED  BY <1>2, <2>1 DEF Within
<1>4. CASE s # {}
  <2>1. AnyOf(s) \in s /\ d \in SUBSET Keys
    BY <1>4, KeySets
  <2>2. a \in Nat /\ b \in Nat /\ x \in Nat /\ y \in Nat
    BY <2>1, WeightsNat, WeightNat
  <2>3. TheWeights(t)[s] = x + a /\ TheWeights(u)[s] = y + b
    BY <1>1, <1>4 DEF WeightBody
  <2>4. b <= a + w /\ (k \notin d => b = a)
    BY <1>4 DEF Within
  <2>5. AnyOf(s) = k => y <= w
    BY DEF Replaces
  <2>6. AnyOf(s) # k => y = x
    BY <2>1 DEF Replaces
  <2>7. AnyOf(s) = k => k \notin d
    OBVIOUS
  <2>8. k \notin s => k \notin d /\ AnyOf(s) # k
    BY <2>1
  <2> HIDE DEF d, a, b, x, y
  <2>9. y + b <= (x + a) + w
    <3>1. CASE AnyOf(s) = k
      BY <1>2, <2>2, <2>4, <2>5, <2>7, <3>1
    <3>2. CASE AnyOf(s) # k
      BY <1>2, <2>2, <2>4, <2>6, <3>2
    <3> QED  BY <3>1, <3>2
  <2>10. k \notin s => y + b = x + a
    BY <2>4, <2>6, <2>8
  <2> QED  BY <2>3, <2>9, <2>10 DEF Within
<1> QED  BY <1>3, <1>4

(* A file grows by at most the entry that is new in it.                      *)
LEMMA FileGrows ==
    ASSUME NEW t, NEW u, NEW k, NEW w, Replaces(t, u, k, w)
    PROVE  FileLen(u) <= FileLen(t) + w
<1> DEFINE P == {n \in Nat : \A d \in UpTo(n) : Within(t, u, k, w, d)}
<1>1. 0 \in P
  <2> SUFFICES ASSUME NEW d \in UpTo(0) PROVE Within(t, u, k, w, d)
    OBVIOUS
  <2>1. d \in SUBSET Keys /\ Cardinality(d) <= 0
    BY DEF UpTo
  <2>2. Cardinality(d) \in Nat /\ (Cardinality(d) = 0 <=> d = {})
    BY <2>1, KeySets
  <2>3. d = {}
    BY <2>1, <2>2
  <2> QED  BY <2>1, <2>3, WithinStep
<1>2. ASSUME NEW n \in Nat, n \in P PROVE n + 1 \in P
  <2> SUFFICES ASSUME NEW d \in UpTo(n + 1) PROVE Within(t, u, k, w, d)
    OBVIOUS
  <2>1. d # {} => d \ {AnyOf(d)} \in UpTo(n)
    BY UpToNext
  <2>2. d \in SUBSET Keys
    BY DEF UpTo
  <2> QED  BY <1>2, <2>1, <2>2, WithinStep
<1>3. \A n \in Nat : n \in P
  <2> HIDE DEF P
  <2> QED  BY <1>1, <1>2, CountUp
<1>4. Keys \in SUBSET Keys /\ Cardinality(Keys) \in Nat
  BY KeySets
<1>5. Keys \in UpTo(Cardinality(Keys))
  BY <1>4 DEF UpTo
<1>6. Within(t, u, k, w, Keys)
  BY <1>3, <1>4, <1>5
<1> QED  BY <1>6, FileWeighed DEF Within

LEMMA FileNat ==
    ASSUME NEW t
    PROVE  FileLen(t) \in Nat
BY FileWeighed, WeightsNat

LEMMA EmptyFile ==
    ASSUME NEW t, \A k \in Keys : t[k].seq = 0
    PROVE  FileLen(t) = 0
<1> DEFINE P == {n \in Nat : \A d \in UpTo(n) : TheWeights(t)[d] = 0}
<1>1. ASSUME NEW d \in SUBSET Keys, d # {} => TheWeights(t)[d \ {AnyOf(d)}] = 0
      PROVE  TheWeights(t)[d] = 0
  <2>1. TheWeights(t)[d] = WeightBody(t, TheWeights(t), d)
    BY WeightsStep
  <2>2. d # {} => AnyOf(d) \in Keys
    BY KeySets
  <2>3. d # {} => Weight(t, AnyOf(d)) = 0
    BY <2>2 DEF Weight
  <2> QED  BY <1>1, <2>1, <2>3 DEF WeightBody
<1>2. 0 \in P
  <2> SUFFICES ASSUME NEW d \in UpTo(0) PROVE TheWeights(t)[d] = 0
    OBVIOUS
  <2>1. d \in SUBSET Keys /\ Cardinality(d) <= 0
    BY DEF UpTo
  <2>2. Cardinality(d) \in Nat /\ (Cardinality(d) = 0 <=> d = {})
    BY <2>1, KeySets
  <2>3. d = {}
    BY <2>1, <2>2
  <2> QED  BY <1>1, <2>1, <2>3
<1>3. ASSUME NEW n \in Nat, n \in P PROVE n + 1 \in P
  <2> SUFFICES ASSUME NEW d \in UpTo(n + 1) PROVE TheWeights(t)[d] = 0
    OBVIOUS
  <2>1. d # {} => d \ {AnyOf(d)} \in UpTo(n)
    BY UpToNext
  <2>2. d \in SUBSET Keys
    BY DEF UpTo
  <2> QED  BY <1>1, <1>3, <2>1, <2>2
<1>4. \A n \in Nat : n \in P
  <2> HIDE DEF P
  <2> QED  BY <1>2, <1>3, CountUp
<1>5. Keys \in SUBSET Keys /\ Cardinality(Keys) \in Nat
  BY KeySets
<1>6. Keys \in UpTo(Cardinality(Keys))
  BY <1>5 DEF UpTo
<1> QED  BY <1>4, <1>5, <1>6, FileWeighed

-----------------------------------------------------------------------------
(* A set of records that is not empty has a last one.                        *)
LEMMA LastRecord ==
    ASSUME TypeOK, NEW S \in SUBSET (1 .. Len(wal)), S # {}
    PROVE  \E i \in S : \A j \in S : j <= i
<1>1. Len(wal) \in Nat /\ S \in SUBSET (0 .. Len(wal))
  BY DEF TypeOK
<1> QED  BY <1>1, MaxExists

(* What a replay of the log puts into the table: nothing for a key without   *)
(* records, otherwise its last record, of those that are found.              *)
LEMMA FoundLast ==
    ASSUME TypeOK, NEW k \in Keys, NEW lost
    PROVE  \/ /\ \A i \in (1 .. Len(wal)) \ lost : wal[i].key # k
              /\ ReplayedWithout(lost)[k] = Absent
           \/ \E i \in (1 .. Len(wal)) \ lost :
                 /\ wal[i].key = k
                 /\ \A j \in (1 .. Len(wal)) \ lost : wal[j].key = k => j <= i
                 /\ ReplayedWithout(lost)[k] = [value |-> wal[i].value, seq |-> i]
<1> DEFINE S == {i \in (1 .. Len(wal)) \ lost : wal[i].key = k}
<1>1. CASE S = {}
  BY <1>1 DEF ReplayedWithout, LastOf
<1>2. CASE S # {}
  <2> DEFINE i == CHOOSE j \in S : \A m \in S : m <= j
  <2>1. S \in SUBSET (1 .. Len(wal))
    OBVIOUS
  <2>2. i \in S /\ \A m \in S : m <= i
    BY <1>2, <2>1, LastRecord
  <2>3. ReplayedWithout(lost)[k] = [value |-> wal[i].value, seq |-> i]
    BY <1>2 DEF ReplayedWithout, LastOf
  <2> QED  BY <2>2, <2>3
<1> QED  BY <1>1, <1>2

LEMMA ReplayedAll == Replayed = ReplayedWithout({})
<1>1. ASSUME NEW k \in Keys
      PROVE  {i \in 1 .. Len(wal) : wal[i].key = k} = {i \in (1 .. Len(wal)) \ {} : wal[i].key = k}
  OBVIOUS
<1> QED  BY <1>1, Zenon DEF Replayed, ReplayedWithout

LEMMA ReplayedLast ==
    ASSUME TypeOK, NEW k \in Keys
    PROVE  \/ /\ \A i \in 1 .. Len(wal) : wal[i].key # k
              /\ Replayed[k] = Absent
           \/ \E i \in 1 .. Len(wal) :
                 /\ wal[i].key = k
                 /\ \A j \in 1 .. Len(wal) : wal[j].key = k => j <= i
                 /\ Replayed[k] = [value |-> wal[i].value, seq |-> i]
<1> DEFINE lost == {}
           R == ReplayedWithout(lost)
<1>1. \A i : i \in (1 .. Len(wal)) \ lost <=> i \in 1 .. Len(wal)
  OBVIOUS
<1>2. R = Replayed
  BY ReplayedAll
<1> HIDE DEF lost
<1>3. \/ /\ \A i \in (1 .. Len(wal)) \ lost : wal[i].key # k
         /\ R[k] = Absent
      \/ \E i \in (1 .. Len(wal)) \ lost :
            /\ wal[i].key = k
            /\ \A j \in (1 .. Len(wal)) \ lost : wal[j].key = k => j <= i
            /\ R[k] = [value |-> wal[i].value, seq |-> i]
  BY FoundLast
<1> HIDE DEF R
<1> QED  BY <1>1, <1>2, <1>3

LEMMA FoundType ==
    ASSUME TypeOK, NEW lost
    PROVE  ReplayedWithout(lost) \in Table
<1>1. ASSUME NEW k \in Keys PROVE ReplayedWithout(lost)[k] \in Entry
  <2>1. ASSUME NEW i \in 1 .. Len(wal)
        PROVE  [value |-> wal[i].value, seq |-> i] \in Entry
    <3>1. wal[i] \in Record /\ i \in Nat
      BY DEF TypeOK
    <3> QED  BY <3>1 DEF Record, Entry
  <2>2. \/ ReplayedWithout(lost)[k] = Absent
        \/ \E i \in 1 .. Len(wal) :
              ReplayedWithout(lost)[k] = [value |-> wal[i].value, seq |-> i]
    BY FoundLast
  <2> QED  BY <2>1, <2>2, EntryType
<1>2. ReplayedWithout(lost) = [k \in Keys |-> ReplayedWithout(lost)[k]]
  BY DEF ReplayedWithout
<1> QED  BY <1>1, <1>2 DEF Table

LEMMA ReplayedType ==
    ASSUME TypeOK
    PROVE  Replayed \in Table
<1>1. ReplayedWithout({}) \in Table
  BY FoundType
<1> QED  BY <1>1, ReplayedAll

(* What a start finds: the whole log, or what is left of a damaged one.      *)
LEMMA RestartFinds ==
    ASSUME TypeOK, Restart
    PROVE  \E lost \in SUBSET (1 .. Len(wal)) :
              /\ table' = ReplayedWithout(lost)
              /\ \A i \in lost : damage > 0 /\ damage <= i
              /\ damage = 0 => table' = Replayed
<1>1. CASE damage = 0
  <2>1. table' = Replayed /\ {} \in SUBSET (1 .. Len(wal))
    BY <1>1 DEF Restart
  <2> QED  BY <2>1, ReplayedAll
<1>2. CASE damage # 0
  <2>1. damage > 0 /\ damage \in Nat /\ Len(wal) \in Nat
    BY <1>2 DEF TypeOK
  <2>2. PICK lost \in SUBSET (damage .. Len(wal)) : table' = ReplayedWithout(lost)
    BY <1>2 DEF Restart
  <2>3. \A i \in lost : i \in 1 .. Len(wal) /\ damage <= i
    BY <2>1
  <2> QED  BY <1>2, <2>1, <2>2, <2>3
<1> QED  BY <1>1, <1>2

(* What the write worker counts after it.                                    *)
LEMMA RestartCounts ==
    ASSUME TypeOK, Restart
    PROVE  /\ current_size' \in Nat
           /\ current_size' > 0 => ~IsEmpty(table)' \/ damage = 0
           /\ damage = 0 => current_size' = wal_size
<1>1. wal_size \in Nat /\ damage \in Nat
  BY DEF TypeOK
<1>2. CASE damage = 0
  BY <1>1, <1>2 DEF Restart
<1>3. CASE damage # 0
  <2>1. current_size' \in IF IsEmpty(table') THEN {0} ELSE FileLen(table') .. wal_size
    BY <1>3 DEF Restart
  <2>2. IsEmpty(table') <=> IsEmpty(table)'
    BY DEF IsEmpty
  <2>3. CASE IsEmpty(table')
    BY <1>3, <2>1, <2>3
  <2>4. CASE ~IsEmpty(table')
    <3>1. current_size' \in FileLen(table') .. wal_size
      BY <2>1, <2>4
    <3>2. FileLen(table') \in Nat
      BY FileNat
    <3> QED  BY <1>1, <1>3, <2>2, <2>4, <3>1, <3>2
  <2> QED  BY <2>3, <2>4
<1> QED  BY <1>2, <1>3

(* The damage an append may do.                                              *)
LEMMA CutShortType ==
    ASSUME TypeOK, AppendCutShort
    PROVE  damage' \in Nat /\ (damage' = 0 => damage = 0) /\ (damage # 0 => damage' = damage)
BY DEF TypeOK, AppendCutShort

(* A log that is appended to exposes no key.                                 *)
LEMMA ExposedKept ==
    ASSUME TypeOK, DamageMarked, UNCHANGED exposed, damage' = damage \/ AppendCutShort,
           Len(wal') \in Nat, Len(wal) <= Len(wal'),
           \A i \in 1 .. Len(wal) : wal'[i] = wal[i]
    PROVE  ExposedKeys' = ExposedKeys /\ DamageMarked'
<1>1. exposed \in Nat /\ Len(wal) \in Nat /\ damage \in Nat /\ exposed <= Len(wal)
  BY DEF TypeOK, DamageMarked
<1>2. damage # 0 => damage' = damage
  BY CutShortType
<1>3. Exposed' = Exposed
  <2>1. CASE damage = 0
    <3>1. exposed = 0 /\ exposed' = 0
      BY <2>1 DEF DamageMarked
    <3> QED  BY <3>1 DEF Exposed
  <2>2. CASE damage # 0
    BY <1>2, <2>2 DEF Exposed
  <2> QED  BY <2>1, <2>2
<1>4. \A i \in Exposed : i \in 1 .. Len(wal)
  BY <1>1 DEF Exposed
<1>5. ExposedKeys' = ExposedKeys
  BY <1>3, <1>4 DEF ExposedKeys
<1>6. damage' = 0 => damage = 0
  BY CutShortType
<1>7. DamageMarked'
  BY <1>1, <1>6 DEF DamageMarked
<1> QED  BY <1>5, <1>7

LEMMA ExposedSame ==
    ASSUME TypeOK, DamageMarked, UNCHANGED <<wal, exposed>>, damage' = damage \/ AppendCutShort
    PROVE  ExposedKeys' = ExposedKeys /\ DamageMarked'
<1>1. Len(wal') \in Nat /\ Len(wal) <= Len(wal')
  BY DEF TypeOK
<1> QED  BY <1>1, ExposedKept

-----------------------------------------------------------------------------
(* A worker that moves on, with or without a result.                         *)
LEMMA WorkerMove ==
    ASSUME TypeOK, NEW w, NEW p \in WorkerPcs
    PROVE  [worker EXCEPT ![w].pc = p] \in [Workers -> WorkerState]
BY DEF TypeOK, WorkerState

LEMMA WorkerUpdate ==
    ASSUME TypeOK, NEW w, NEW p \in WorkerPcs, NEW r \in Outcomes
    PROVE  [worker EXCEPT ![w].pc = p, ![w].result = r] \in [Workers -> WorkerState]
BY DEF TypeOK, WorkerState

LEMMA WorkerReset ==
    ASSUME TypeOK, NEW w, NEW x \in WorkerState
    PROVE  [worker EXCEPT ![w] = x] \in [Workers -> WorkerState]
BY DEF TypeOK

LEMMA WriterUpdate ==
    ASSUME TypeOK
    PROVE  /\ \A p \in WriterPcs : [writer EXCEPT !.pc = p] \in WriterState
           /\ WriterRest \in WriterState
           /\ WriterDead \in WriterState
BY DEF TypeOK, WriterState, WriterRest, WriterDead, WriterPcs

LEMMA RestState ==
    /\ WorkerRest \in WorkerState
    /\ [WorkerRest EXCEPT !.pc = "gone"] \in WorkerState
BY OutcomeType DEF WorkerRest, WorkerState, WorkerPcs

(* Every step of the callers and workers keeps the types.                    *)
LEMMA WorkerTypeStep ==
    ASSUME Inductive, NEW w \in Workers, WorkerStep(w)
    PROVE  TypeOK'
<1> USE DEF disk, log
<1>1. TypeOK
  BY DEF Inductive
<1>2. CASE WorkerRecv(w)
  <2>1. Head(jobs) \in Clients /\ Tail(jobs) \in Seq(Clients)
    BY <1>1, <1>2 DEF TypeOK, WorkerRecv
  <2>2. \A p \in {"submit", "table"} :
            [pc |-> p, client |-> Head(jobs), result |-> Ok(NoValue)] \in WorkerState
    BY <2>1, OutcomeType DEF WorkerState, WorkerPcs
  <2>3. worker' \in [Workers -> WorkerState]
    BY <1>1, <1>2, <2>2, WorkerReset DEF WorkerRecv
  <2> QED  BY <1>1, <1>2, <2>1, <2>3 DEF TypeOK, WorkerRecv
<1>3. ASSUME NEW C, WorkerGone(w, C) PROVE TypeOK'
  <2>1. write_jobs' \in Seq(Workers \cup {"Shutdown"})
    BY <1>1, <1>3 DEF TypeOK, WorkerGone
  <2>2. worker' \in [Workers -> WorkerState]
    BY <1>1, <1>3, WorkerReset, RestState DEF WorkerGone
  <2>3. call' \in [Clients -> Requests \cup {Idle}] /\ ret' \in [Clients -> Outcomes]
    BY <1>1, <1>3, OutcomeType DEF TypeOK, WorkerGone
  <2>4. jobs' \in Seq(Clients)
    BY <1>1, <1>3 DEF TypeOK, WorkerGone
  <2> QED  BY <1>1, <1>3, <2>1, <2>2, <2>3, <2>4 DEF TypeOK, WorkerGone
<1>4. CASE ReadTable(w)
  <2>1. call[worker[w].client].key \in Keys
    BY <1>4, BusyRequest DEF ReadTable, Busy
  <2>2. Ok(table[call[worker[w].client].key].value) \in Outcomes
    BY <1>1, <2>1, OutcomeType DEF TypeOK, Table, Entry
  <2>3. worker' \in [Workers -> WorkerState]
    BY <1>1, <1>4, <2>2, WorkerMove, WorkerUpdate DEF ReadTable, WorkerPcs
  <2> QED  BY <1>1, <1>4, <2>3 DEF TypeOK, ReadTable
<1>5. CASE ReadSst(w)
  <2>1. PICK r \in Outcomes : worker' = [worker EXCEPT ![w].pc = "reply", ![w].result = r]
    BY <1>5 DEF ReadSst
  <2>2. worker' \in [Workers -> WorkerState]
    BY <1>1, <2>1, WorkerUpdate DEF WorkerPcs
  <2> QED  BY <1>1, <1>5, <2>2 DEF TypeOK, ReadSst
<1>6. CASE Submit(w)
  <2>1. write_jobs' = Append(write_jobs, w) \/ write_jobs' = write_jobs
    BY <1>6 DEF Submit
  <2>2. write_jobs' \in Seq(Workers \cup {"Shutdown"})
    <3>1. w \in Workers \cup {"Shutdown"} /\ write_jobs \in Seq(Workers \cup {"Shutdown"})
      BY <1>1 DEF TypeOK
    <3> QED  BY <3>1, <2>1, AppendProperties
  <2>3. \/ worker' = [worker EXCEPT ![w].pc = "await"]
        \/ worker' = [worker EXCEPT ![w].pc = "reply", ![w].result = Failure("IoError")]
    BY <1>6 DEF Submit
  <2>4. worker' \in [Workers -> WorkerState]
    <3>1. Failure("IoError") \in Outcomes /\ "await" \in WorkerPcs /\ "reply" \in WorkerPcs
      BY OutcomeType DEF WorkerPcs
    <3>2. [worker EXCEPT ![w].pc = "await"] \in [Workers -> WorkerState]
      BY <1>1, <3>1, WorkerMove
    <3>3. [worker EXCEPT ![w].pc = "reply", ![w].result = Failure("IoError")]
              \in [Workers -> WorkerState]
      BY <1>1, <3>1, WorkerUpdate
    <3> QED  BY <2>3, <3>2, <3>3
  <2> QED  BY <1>1, <1>6, <2>2, <2>4 DEF TypeOK, Submit
<1>7. CASE AwaitDropped(w)
  <2>1. worker' \in [Workers -> WorkerState]
    BY <1>1, <1>7, WorkerUpdate, OutcomeType DEF AwaitDropped, WorkerPcs
  <2> QED  BY <1>1, <1>7, <2>1 DEF TypeOK, AwaitDropped
<1>8. CASE Reply(w)
  <2>1. worker' \in [Workers -> WorkerState]
    BY <1>1, <1>8, WorkerReset, RestState DEF Reply
  <2>2. worker[w].result \in Outcomes
    BY <1>1 DEF TypeOK, WorkerState
  <2> QED  BY <1>1, <1>8, <2>1, <2>2 DEF TypeOK, Reply
<1> QED  BY <1>2, <1>3, <1>4, <1>5, <1>6, <1>7, <1>8
         DEF WorkerStep, WorkerPanic, WorkerExit

(* So does every step of the write worker.                                   *)
LEMMA WriterTypeStep ==
    ASSUME Inductive, WriterStep
    PROVE  TypeOK'
<1> USE DEF disk, log
<1>1. TypeOK
  BY DEF Inductive
<1>2. CASE WriterRecv
  <2>1. /\ Head(write_jobs) \in Workers \cup {"Shutdown"}
        /\ Tail(write_jobs) \in Seq(Workers \cup {"Shutdown"})
    BY <1>1, <1>2 DEF TypeOK, WriterRecv
  <2>2. writer' \in WriterState
    BY <1>2, <2>1 DEF WriterRecv, WriterState, WriterPcs, JobPc
  <2> QED  BY <1>1, <1>2, <2>1, <2>2 DEF TypeOK, WriterRecv
<1>3. CASE FlushOpen
  <2>1. files' \in Seq(Table)
    <3>1. files' = Append(files, EmptyTable) \/ files' = files
      BY <1>3 DEF FlushOpen
    <3>2. files \in Seq(Table) /\ Append(files, EmptyTable) \in Seq(Table)
      BY <1>1, EntryType, AppendProperties DEF TypeOK
    <3> QED  BY <3>1, <3>2
  <2>2. writer' \in WriterState
    BY <1>1, <1>3, WriterUpdate DEF FlushOpen, WriterPcs
  <2> QED  BY <1>1, <1>3, <2>1, <2>2 DEF TypeOK, FlushOpen
<1>4. CASE FlushWrite
  <2>1. files' \in Seq(Table)
    <3>1. PICK t \in {table, files[FlushNumber]} : files' = [files EXCEPT ![FlushNumber] = t]
      BY <1>4 DEF FlushWrite
    <3>2. CASE FlushNumber \in 1 .. Len(files)
      <4>1. t \in Table
        BY <1>1, <3>2 DEF TypeOK
      <4> QED  BY <1>1, <3>1, <3>2, <4>1, ExceptSeq DEF TypeOK
    <3>3. CASE FlushNumber \notin 1 .. Len(files)
      <4>1. files' = files
        BY <1>1, <3>1, <3>3 DEF TypeOK
      <4> QED  BY <1>1, <4>1 DEF TypeOK
    <3> QED  BY <3>2, <3>3
  <2>2. writer' \in WriterState
    BY <1>1, <1>4, WriterUpdate DEF FlushWrite, WriterPcs
  <2> QED  BY <1>1, <1>4, <2>1, <2>2 DEF TypeOK, FlushWrite
<1>5. CASE FlushAdd
  <2>1. \A ok \in BOOLEAN : [entries |-> table, intact |-> ok] \in Segment
    BY <1>1 DEF TypeOK, Segment
  <2>2. \/ level_zero' = level_zero
        \/ \E ok \in BOOLEAN :
              level_zero' = Append(level_zero, [entries |-> table, intact |-> ok])
    BY <1>5 DEF FlushAdd
  <2>3. level_zero' \in Seq(Segment)
    <3>1. level_zero \in Seq(Segment)
      BY <1>1 DEF TypeOK
    <3>2. \A s \in Segment : Append(level_zero, s) \in Seq(Segment)
      BY <3>1, AppendProperties
    <3> QED  BY <2>1, <2>2, <3>1, <3>2
  <2>4. writer' \in WriterState
    BY <1>1, <1>5, WriterUpdate DEF FlushAdd, FlushDone, WriterPcs
  <2>5. write_jobs' \in Seq(Workers \cup {"Shutdown"})
    <3>1. write_jobs' = write_jobs \/ write_jobs' = <<>>
      BY <1>5 DEF FlushAdd
    <3>2. write_jobs \in Seq(Workers \cup {"Shutdown"})
      BY <1>1 DEF TypeOK
    <3> QED  BY <3>1, <3>2, EmptySeq
  <2>6. poisoned' \subseteq {"table", "levels"}
    <3>1. poisoned' = poisoned \/ poisoned' \in {{"table"}, {"table", "levels"}}
      BY <1>5 DEF FlushAdd
    <3> QED  BY <1>1, <3>1 DEF TypeOK
  <2> QED  BY <1>1, <1>5, <2>3, <2>4, <2>5, <2>6 DEF TypeOK, FlushAdd
<1>6. CASE FlushError
  <2>1. writer' \in WriterState
    BY <1>1, <1>6, WriterUpdate DEF FlushError
  <2> QED  BY <1>1, <1>6, <2>1 DEF TypeOK, FlushError
<1>7. CASE FlushClear
  <2>1. writer' \in WriterState
    BY <1>1, <1>7, WriterUpdate DEF FlushClear, WriterPcs, JobPc
  <2> QED  BY <1>1, <1>7, <2>1, EntryType DEF TypeOK, FlushClear
<1>8. CASE WalAppend
  <2>1. [key |-> WriteRequest.key, value |-> WriteRequest.value] \in Record
    BY <1>8, WriterRequest DEF WalAppend, Record
  <2>2. wal' \in Seq(Record)
    BY <1>1, <1>8, <2>1, AppendProperties DEF TypeOK, WalAppend
  <2>3. wal_size' \in Nat
    BY <1>1, <1>8, EntryType DEF TypeOK, WalAppend
  <2>4. writer' \in WriterState
    BY <1>1, <1>8, WriterUpdate DEF WalAppend, WriterPcs
  <2> QED  BY <1>1, <1>8, <2>2, <2>3, <2>4 DEF TypeOK, WalAppend
<1>9. CASE WalAppendError
  <2>1. writer' \in WriterState
    BY <1>1, <1>9, WriterUpdate DEF WalAppendError
  <2>2. worker' \in [Workers -> WorkerState]
    BY <1>1, <1>9, WorkerUpdate, OutcomeType DEF WalAppendError, WorkerPcs
  <2>3. damage' \in Nat
    BY <1>1, <1>9, CutShortType DEF WalAppendError
  <2> QED  BY <1>1, <1>9, <2>1, <2>2, <2>3 DEF TypeOK, WalAppendError
<1>10. CASE WalAppendPanic
  <2>1. writer' \in WriterState
    BY <1>1, <1>10, WriterUpdate DEF WalAppendPanic
  <2> QED  BY <1>1, <1>10, <2>1 DEF TypeOK, WalAppendPanic
<1>11. CASE Insert
  <2>1. WriteRequest.key \in Keys /\ WriteRequest.value \in Maybe
    BY <1>11, WriterRequest DEF Insert
  <2>2. Ok(table[WriteRequest.key].value) \in Outcomes
    BY <1>1, <2>1, OutcomeType DEF TypeOK, Table, Entry
  <2>3. [value |-> WriteRequest.value, seq |-> Len(wal)] \in Entry
    BY <1>1, <2>1 DEF TypeOK, Entry
  <2>4. table' \in Table
    BY <1>1, <1>11, <2>3 DEF TypeOK, Insert, Table
  <2>5. worker' \in [Workers -> WorkerState]
    BY <1>1, <1>11, <2>2, WorkerUpdate DEF Insert, WorkerPcs
  <2>6. writer' \in WriterState
    BY <1>1, <1>11, WriterUpdate DEF Insert
  <2>7. current_size' \in Nat
    BY <1>1, <1>11, EntryType DEF TypeOK, Insert
  <2> QED  BY <1>1, <1>11, <2>4, <2>5, <2>6, <2>7 DEF TypeOK, Insert
<1>12. CASE FinalFlush
  <2>1. writer' \in WriterState
    BY <1>1, <1>12, WriterUpdate DEF FinalFlush, WriterState, WriterPcs
  <2> QED  BY <1>1, <1>12, <2>1 DEF TypeOK, FinalFlush
<1> QED  BY <1>2, <1>3, <1>4, <1>5, <1>6, <1>7, <1>8, <1>9, <1>10, <1>11, <1>12
         DEF WriterStep

(* Every step keeps the types.                                               *)
LEMMA TypeStep ==
    ASSUME Inductive, [Next]_vars
    PROVE  TypeOK'
<1> USE DEF memory, disk, log
<1>1. TypeOK
  BY DEF Inductive
<1>2. ASSUME NEW c \in Clients, Invoke(c) PROVE TypeOK'
  <2>1. call' \in [Clients -> Requests \cup {Idle}] /\ ret' \in [Clients -> Outcomes]
    BY <1>1, <1>2, OutcomeType DEF TypeOK, Invoke
  <2>2. jobs' \in Seq(Clients)
    <3>1. jobs' = Append(jobs, c) \/ jobs' = jobs
      BY <1>2 DEF Invoke
    <3>2. jobs \in Seq(Clients) /\ Append(jobs, c) \in Seq(Clients)
      BY <1>1, AppendProperties DEF TypeOK
    <3> QED  BY <3>1, <3>2
  <2> QED  BY <1>1, <1>2, <2>1, <2>2 DEF TypeOK, Invoke
<1>3. CASE Shutdown
  BY <1>1, <1>3 DEF TypeOK, Shutdown
<1>4. CASE Stopped \/ Crash
  <2>1. LoseMemory
    BY <1>4 DEF Stopped, Crash
  <2>2. damage' \in Nat
    <3>1. damage' = damage \/ AppendCutShort
      BY <1>4 DEF Stopped, Crash
    <3>2. CASE damage' = damage
      BY <1>1, <3>2 DEF TypeOK
    <3> QED  BY <1>1, <3>1, <3>2, CutShortType
  <2> QED  BY <1>1, <2>1, <2>2, RestState, WriterUpdate, EntryType DEF TypeOK, LoseMemory
<1>5. CASE Restart
  <2>1. table' \in Table
    BY <1>1, <1>5, RestartFinds, FoundType
  <2>2. current_size' \in Nat
    BY <1>1, <1>5, RestartCounts
  <2>3. exposed' \in Nat
    BY <1>1, <1>5 DEF TypeOK, Restart
  <2>4. worker' \in [Workers -> WorkerState] /\ writer' \in WriterState
    BY <1>1, <1>5, RestState, WriterUpdate DEF Restart
  <2>5. /\ phase' \in {"up", "stopping", "down"} /\ restarts' \in Nat
        /\ level_zero' \in Seq(Segment)
        /\ UNCHANGED <<call, ret, jobs, write_jobs, poisoned, wal, wal_size, damage, files, calls>>
    BY <1>1, <1>5 DEF TypeOK, Restart, FoundSegments
  <2> QED  BY <1>1, <2>1, <2>2, <2>3, <2>4, <2>5 DEF TypeOK
<1>6. CASE UNCHANGED vars
  BY <1>1, <1>6 DEF TypeOK, vars
<1> QED  BY <1>2, <1>3, <1>4, <1>5, <1>6, WorkerTypeStep, WriterTypeStep
         DEF Next

-----------------------------------------------------------------------------
(* Who holds which call.  A step that leaves calls, job queue and the        *)
(* clients of busy workers alone does not disturb OneHolder.                 *)
LEMMA HolderKept ==
    ASSUME OneHolder, UNCHANGED <<call, jobs>>,
           \A w \in Workers : /\ Busy(w)' <=> Busy(w)
                              /\ worker'[w].client = worker[w].client
    PROVE  OneHolder'
<1> DEFINE B(w) == Busy(w)
<1>1. \A w \in Workers : Busy(w)' <=> B(w)
  OBVIOUS
<1>2. call' = call /\ jobs' = jobs
  OBVIOUS
<1> QED  BY <1>1, <1>2 DEF OneHolder

(* A worker that moves from one busy state to another.                       *)
LEMMA HolderMove ==
    ASSUME TypeOK, OneHolder, UNCHANGED <<call, jobs>>, NEW w \in Workers, Busy(w),
           NEW p \in {"table", "sst", "submit", "await", "reply"}, NEW r,
           \/ worker' = [worker EXCEPT ![w].pc = p]
           \/ worker' = [worker EXCEPT ![w].pc = p, ![w].result = r]
    PROVE  OneHolder'
<1>1. worker \in [Workers -> WorkerState]
  BY DEF TypeOK
<1>2. worker'[w].pc = p /\ worker'[w].client = worker[w].client
  BY <1>1 DEF WorkerState
<1>3. \A v \in Workers : v # w => worker'[v] = worker[v]
  BY <1>1
<1>4. ASSUME NEW v \in Workers
      PROVE  (Busy(v)' <=> Busy(v)) /\ worker'[v].client = worker[v].client
  BY <1>2, <1>3 DEF Busy
<1> QED  BY <1>4, HolderKept

(* A call is invoked.                                                        *)
LEMMA HolderInvoke ==
    ASSUME Inductive, NEW c \in Clients, Invoke(c)
    PROVE  OneHolder'
<1>1. TypeOK /\ OneHolder /\ worker' = worker /\ call[c] = Idle
  BY DEF Inductive, Invoke
<1>2. \A v \in Workers : Busy(v)' <=> Busy(v)
  BY <1>1 DEF Busy
<1>3. CASE Alive = {}
  <2>1. UNCHANGED <<call, jobs>>
    BY <1>3 DEF Invoke
  <2> QED  BY <1>1, <1>2, <2>1, HolderKept
<1>4. CASE Alive # {}
  <2>1. PICK r \in Requests : call' = [call EXCEPT ![c] = r]
    BY <1>4 DEF Invoke
  <2>2. /\ Len(jobs') = Len(jobs) + 1 /\ Len(jobs) \in Nat
        /\ jobs'[Len(jobs) + 1] = c
        /\ \A i \in 1 .. Len(jobs) : jobs'[i] = jobs[i] /\ jobs[i] \in Clients
    <3>1. jobs' = Append(jobs, c) /\ jobs \in Seq(Clients)
      BY <1>1, <1>4 DEF Invoke, TypeOK
    <3> QED  BY <3>1
  <2>3. /\ call'[c] # Idle
        /\ \A d \in Clients : d # c => call'[d] = call[d]
    BY <1>1, <2>1, IdleNoRequest DEF TypeOK
  <2>4. /\ \A i \in 1 .. Len(jobs) : jobs[i] # c
        /\ \A v \in Workers : Busy(v) => worker[v].client # c
    BY <1>1 DEF OneHolder
  <2>5. \A i \in 1 .. Len(jobs') : i \in 1 .. Len(jobs) \/ i = Len(jobs) + 1
    BY <2>2
  <2>6. \A d \in Clients : call'[d] # Idle =>
           \/ \E i \in 1 .. Len(jobs') : jobs'[i] = d
           \/ \E v \in Workers : Busy(v)' /\ worker'[v].client = d
    <3>1. ASSUME NEW d \in Clients, call'[d] # Idle, d # c
          PROVE  \/ \E i \in 1 .. Len(jobs') : jobs'[i] = d
                 \/ \E v \in Workers : Busy(v)' /\ worker'[v].client = d
      <4>1. CASE \E i \in 1 .. Len(jobs) : jobs[i] = d
        BY <4>1, <2>2
      <4>2. CASE \E v \in Workers : Busy(v) /\ worker[v].client = d
        BY <4>2, <1>1, <1>2
      <4> QED  BY <1>1, <2>3, <3>1, <4>1, <4>2 DEF OneHolder
    <3>2. Len(jobs) + 1 \in 1 .. Len(jobs')
      BY <2>2
    <3> QED  BY <2>2, <3>1, <3>2
  <2>7. \A i \in 1 .. Len(jobs') : call'[jobs'[i]] # Idle
    BY <1>1, <2>2, <2>3, <2>4, <2>5 DEF OneHolder
  <2>8. \A v \in Workers : Busy(v)' =>
            worker'[v].client \in Clients /\ call'[worker'[v].client] # Idle
    BY <1>1, <1>2, <2>3 DEF OneHolder
  <2>9. \A i, j \in 1 .. Len(jobs') : jobs'[i] = jobs'[j] => i = j
    BY <1>1, <2>2, <2>4, <2>5 DEF OneHolder
  <2>10. \A v, w \in Workers :
            Busy(v)' /\ Busy(w)' /\ worker'[v].client = worker'[w].client => v = w
    BY <1>1, <1>2 DEF OneHolder
  <2>11. \A v \in Workers, i \in 1 .. Len(jobs') : Busy(v)' => worker'[v].client # jobs'[i]
    BY <1>1, <1>2, <2>2, <2>4, <2>5 DEF OneHolder
  <2> QED  BY <2>6, <2>7, <2>8, <2>9, <2>10, <2>11 DEF OneHolder
<1> QED  BY <1>3, <1>4

(* A worker takes the oldest call from the queue.                            *)
LEMMA HolderRecv ==
    ASSUME Inductive, NEW w \in Workers, WorkerRecv(w)
    PROVE  OneHolder'
<1>1. TypeOK /\ OneHolder /\ call' = call /\ worker[w].pc = "recv"
  BY DEF Inductive, WorkerRecv
<1> DEFINE c == Head(jobs)
<1>2. /\ Len(jobs) \in Nat /\ Len(jobs) > 0 /\ Len(jobs') = Len(jobs) - 1
      /\ c = jobs[1] /\ c \in Clients
      /\ \A i \in 1 .. Len(jobs') : i + 1 \in 1 .. Len(jobs) /\ jobs'[i] = jobs[i + 1]
      /\ \A i \in 1 .. Len(jobs) : i # 1 => i - 1 \in 1 .. Len(jobs') /\ jobs[i] = jobs'[i - 1]
  <2>1. jobs' = Tail(jobs) /\ jobs \in Seq(Clients) /\ jobs # <<>>
    BY <1>1 DEF WorkerRecv, TypeOK
  <2> QED  BY <2>1
<1>3. /\ Busy(w)' /\ worker'[w].client = c /\ ~Busy(w)
      /\ \A v \in Workers : v # w =>
            (Busy(v)' <=> Busy(v)) /\ worker'[v].client = worker[v].client
  BY <1>1 DEF WorkerRecv, TypeOK, Busy
<1>4. 1 \in 1 .. Len(jobs)
  BY <1>2
<1> HIDE DEF c
<1>5. \A d \in Clients : call'[d] # Idle =>
         \/ \E i \in 1 .. Len(jobs') : jobs'[i] = d
         \/ \E v \in Workers : Busy(v)' /\ worker'[v].client = d
  <2> SUFFICES ASSUME NEW d \in Clients, call[d] # Idle, d # c
               PROVE  \/ \E i \in 1 .. Len(jobs') : jobs'[i] = d
                      \/ \E v \in Workers : Busy(v)' /\ worker'[v].client = d
    BY <1>1, <1>3
  <2>1. CASE \E i \in 1 .. Len(jobs) : jobs[i] = d
    BY <2>1, <1>2
  <2>2. CASE \E v \in Workers : Busy(v) /\ worker[v].client = d
    BY <2>2, <1>3
  <2> QED  BY <1>1, <2>1, <2>2 DEF OneHolder
<1>6. \A i \in 1 .. Len(jobs') : call'[jobs'[i]] # Idle
  BY <1>1, <1>2 DEF OneHolder
<1>7. \A v \in Workers : Busy(v)' =>
          worker'[v].client \in Clients /\ call'[worker'[v].client] # Idle
  BY <1>1, <1>2, <1>3, <1>4 DEF OneHolder
<1>8. \A i, j \in 1 .. Len(jobs') : jobs'[i] = jobs'[j] => i = j
  <2> SUFFICES ASSUME NEW i \in 1 .. Len(jobs'), NEW j \in 1 .. Len(jobs'), jobs'[i] = jobs'[j]
               PROVE  i = j
    OBVIOUS
  <2>1. i + 1 \in 1 .. Len(jobs) /\ j + 1 \in 1 .. Len(jobs) /\ jobs[i + 1] = jobs[j + 1]
    BY <1>2
  <2>2. \A m, n \in 1 .. Len(jobs) : jobs[m] = jobs[n] => m = n
    BY <1>1 DEF OneHolder
  <2>3. i + 1 = j + 1
    BY <2>1, <2>2
  <2> QED  BY <2>3
<1>9. \A v, u \in Workers :
          Busy(v)' /\ Busy(u)' /\ worker'[v].client = worker'[u].client => v = u
  BY <1>1, <1>2, <1>3, <1>4 DEF OneHolder
<1>10. \A v \in Workers, i \in 1 .. Len(jobs') : Busy(v)' => worker'[v].client # jobs'[i]
  <2> SUFFICES ASSUME NEW v \in Workers, NEW i \in 1 .. Len(jobs'), Busy(v)'
               PROVE  worker'[v].client # jobs'[i]
    OBVIOUS
  <2>1. i + 1 # 1
    OBVIOUS
  <2>2. CASE v = w
    BY <1>1, <1>2, <1>3, <1>4, <2>1, <2>2 DEF OneHolder
  <2>3. CASE v # w
    BY <1>1, <1>2, <1>3, <2>3 DEF OneHolder
  <2> QED  BY <2>2, <2>3
<1> QED  BY <1>5, <1>6, <1>7, <1>8, <1>9, <1>10 DEF OneHolder

(* A worker's thread ends: the call it held, and the queued ones if it was   *)
(* the last, are answered.                                                   *)
LEMMA HolderGone ==
    ASSUME Inductive, NEW w \in Workers, NEW C, WorkerGone(w, C),
           \/ Busy(w) /\ C = {worker[w].client}
           \/ ~Busy(w) /\ C = {} /\ jobs = <<>>
    PROVE  OneHolder'
<1>1. TypeOK /\ OneHolder
  BY DEF Inductive
<1> DEFINE D == C \cup (IF Alive = {w} THEN {jobs[i] : i \in 1 .. Len(jobs)} ELSE {})
<1>2. \A c \in Clients : call'[c] = IF c \in D THEN Idle ELSE call[c]
  BY DEF WorkerGone
<1>3. /\ ~Busy(w)'
      /\ \A v \in Workers : v # w =>
            (Busy(v)' <=> Busy(v)) /\ worker'[v].client = worker[v].client
  BY <1>1 DEF WorkerGone, TypeOK, Busy
<1>4. \A c \in Clients : c \in C => \A v \in Workers : Busy(v) /\ v # w => worker[v].client # c
  BY <1>1 DEF OneHolder
<1>5. \A i \in 1 .. Len(jobs) : jobs[i] \in Clients /\ jobs[i] \notin C
  BY <1>1 DEF OneHolder, TypeOK
<1>6. \A c \in Clients : Busy(w) /\ worker[w].client = c => c \in C
  OBVIOUS
<1>7. CASE Alive = {w}
  <2>1. jobs' = <<>>
    BY <1>7 DEF WorkerGone
  <2>2. \A v \in Workers : v # w => ~Busy(v)
    BY <1>7 DEF Alive, Busy
  <2>3. \A c \in Clients : call'[c] = Idle
    BY <1>1, <1>2, <1>6, <1>7, <2>2 DEF OneHolder
  <2> QED  BY <1>3, <2>1, <2>2, <2>3 DEF OneHolder
<1>8. CASE Alive # {w}
  <2>1. jobs' = jobs
    BY <1>8 DEF WorkerGone
  <2>2. \A c \in Clients : call'[c] = IF c \in C THEN Idle ELSE call[c]
    BY <1>2, <1>8
  <2> HIDE DEF D
  <2>3. \A d \in Clients : call'[d] # Idle =>
           \/ \E i \in 1 .. Len(jobs') : jobs'[i] = d
           \/ \E v \in Workers : Busy(v)' /\ worker'[v].client = d
    BY <1>1, <1>3, <1>6, <2>1, <2>2 DEF OneHolder
  <2>4. \A i \in 1 .. Len(jobs') : call'[jobs'[i]] # Idle
    BY <1>1, <1>5, <2>1, <2>2 DEF OneHolder
  <2>5. \A v \in Workers : Busy(v)' =>
            worker'[v].client \in Clients /\ call'[worker'[v].client] # Idle
    BY <1>1, <1>3, <1>4, <2>2 DEF OneHolder
  <2>6. \A i, j \in 1 .. Len(jobs') : jobs'[i] = jobs'[j] => i = j
    BY <1>1, <2>1 DEF OneHolder
  <2>7. \A v, u \in Workers :
            Busy(v)' /\ Busy(u)' /\ worker'[v].client = worker'[u].client => v = u
    BY <1>1, <1>3 DEF OneHolder
  <2>8. \A v \in Workers, i \in 1 .. Len(jobs') : Busy(v)' => worker'[v].client # jobs'[i]
    BY <1>1, <1>3, <2>1 DEF OneHolder
  <2> QED  BY <2>3, <2>4, <2>5, <2>6, <2>7, <2>8 DEF OneHolder
<1> QED  BY <1>7, <1>8

(* A worker answers its caller.                                              *)
LEMMA HolderReply ==
    ASSUME Inductive, NEW w \in Workers, Reply(w)
    PROVE  OneHolder'
<1>1. TypeOK /\ OneHolder /\ jobs' = jobs /\ Busy(w)
  BY DEF Inductive, Reply, Busy
<1> DEFINE c == worker[w].client
<1>2. c \in Clients
  BY <1>1 DEF OneHolder
<1>3. /\ ~Busy(w)'
      /\ \A v \in Workers : v # w =>
            (Busy(v)' <=> Busy(v)) /\ worker'[v].client = worker[v].client
  BY <1>1 DEF Reply, TypeOK, Busy, WorkerRest
<1>4. call'[c] = Idle /\ \A d \in Clients : d # c => call'[d] = call[d]
  BY <1>1, <1>2 DEF Reply, TypeOK
<1>5. /\ \A v \in Workers : v # w /\ Busy(v) => worker[v].client # c
      /\ \A i \in 1 .. Len(jobs) : jobs[i] # c /\ jobs[i] \in Clients
  BY <1>1 DEF OneHolder, TypeOK
<1> QED  BY <1>1, <1>2, <1>3, <1>4, <1>5 DEF OneHolder

(* Every step keeps every call in exactly one place.                         *)
LEMMA HolderStep ==
    ASSUME Inductive, [Next]_vars
    PROVE  OneHolder'
<1> USE DEF memory, disk, log
<1>1. TypeOK /\ OneHolder
  BY DEF Inductive
<1>2. ASSUME UNCHANGED <<call, jobs, worker>> PROVE OneHolder'
  BY <1>1, <1>2, HolderKept DEF Busy
<1>3. ASSUME NEW w \in Workers, WorkerStep(w) PROVE OneHolder'
  <2>1. CASE WorkerRecv(w)
    BY <2>1, HolderRecv
  <2>2. CASE WorkerPanic(w)
    BY <2>2, HolderGone DEF WorkerPanic, Busy
  <2>3. CASE ReadTable(w)
    <3>1. Busy(w)
      BY <2>3 DEF ReadTable, Busy
    <3> QED  BY <1>1, <2>3, <3>1, HolderMove DEF ReadTable
  <2>4. CASE ReadSst(w)
    <3>1. Busy(w)
      BY <2>4 DEF ReadSst, Busy
    <3> QED  BY <1>1, <2>4, <3>1, HolderMove DEF ReadSst
  <2>5. CASE Submit(w)
    <3>1. Busy(w)
      BY <2>5 DEF Submit, Busy
    <3> QED  BY <1>1, <2>5, <3>1, HolderMove DEF Submit
  <2>6. CASE AwaitDropped(w)
    <3>1. Busy(w)
      BY <2>6 DEF AwaitDropped, Busy
    <3> QED  BY <1>1, <2>6, <3>1, HolderMove DEF AwaitDropped
  <2>7. CASE Reply(w)
    BY <2>7, HolderReply
  <2>8. CASE WorkerExit(w)
    BY <2>8, HolderGone DEF WorkerExit, Busy
  <2> QED  BY <1>3, <2>1, <2>2, <2>3, <2>4, <2>5, <2>6, <2>7, <2>8 DEF WorkerStep
<1>4. CASE WalAppendError \/ Insert
  <2>1. writer.job \in Workers /\ Busy(writer.job)
    BY <1>4, WriterRequest DEF WalAppendError, Insert
  <2>2. /\ UNCHANGED <<call, jobs>>
        /\ \E r : worker' = [worker EXCEPT ![writer.job].pc = "reply", ![writer.job].result = r]
    BY <1>4 DEF WalAppendError, Insert
  <2> QED  BY <1>1, <2>1, <2>2, HolderMove
<1>5. CASE WriterStep /\ ~(WalAppendError \/ Insert)
  BY <1>2, <1>5 DEF WriterStep, WriterRecv, FlushOpen, FlushWrite, FlushAdd, FlushError,
         FlushClear, WalAppend, WalAppendPanic, FinalFlush
<1>6. CASE Shutdown \/ UNCHANGED vars
  BY <1>2, <1>6 DEF Shutdown, vars
<1>7. CASE LoseMemory
  BY <1>7 DEF LoseMemory, OneHolder, Busy, WorkerRest
<1>8. CASE Restart
  <2>1. jobs' = <<>> /\ \A c \in Clients : call'[c] = Idle
    BY <1>8 DEF Restart, Inductive, DownIsEmpty
  <2>2. \A w \in Workers : ~Busy(w)'
    BY <1>8 DEF Restart, Busy, WorkerRest
  <2> QED  BY <2>1, <2>2 DEF OneHolder
<1> QED  BY <1>3, <1>4, <1>5, <1>6, <1>7, <1>8, HolderInvoke DEF Next, Stopped, Crash

-----------------------------------------------------------------------------
(* The jobs of the write queue.  A step that leaves the queue and the write  *)
(* worker alone may move workers, as long as it leaves the waiting ones and  *)
(* the calls of busy ones alone.                                             *)
LEMMA JobsKept ==
    ASSUME Inductive, UNCHANGED <<write_jobs, writer>>,
           \A w \in Workers : worker[w].pc = "await" => worker'[w].pc = "await",
           \A w \in Workers :
              /\ worker'[w].pc \in {"submit", "await"} => IsWrite(call'[worker'[w].client])
              /\ worker'[w].pc \in {"table", "sst"} => ~IsWrite(call'[worker'[w].client])
    PROVE  JobsMatch'
BY DEF Inductive, JobsMatch

(* A step that wakes nobody up.                                              *)
LEMMA ShutdownKept ==
    ASSUME Inductive, UNCHANGED <<write_jobs, writer>>, Alive' \subseteq Alive
    PROVE  ShutdownLast'
BY DEF Inductive, ShutdownLast, WriterAlive

LEMMA JobsInvoke ==
    ASSUME Inductive, NEW c \in Clients, Invoke(c)
    PROVE  JobsMatch' /\ ShutdownLast'
<1>1. TypeOK /\ OneHolder /\ JobsMatch
  BY DEF Inductive
<1>2. worker' = worker /\ UNCHANGED <<write_jobs, writer>>
  BY DEF Invoke
<1>3. \A d \in Clients : call[d] # Idle => call'[d] = call[d]
  BY <1>1 DEF Invoke, TypeOK
<1>4. \A w \in Workers : worker[w].pc \in {"submit", "await", "table", "sst"} =>
         call'[worker[w].client] = call[worker[w].client]
  BY <1>1, <1>3 DEF OneHolder, Busy
<1>5. JobsMatch'
  BY <1>1, <1>2, <1>4, JobsKept DEF JobsMatch
<1> QED  BY <1>2, <1>5, ShutdownKept DEF Alive

LEMMA JobsRecv ==
    ASSUME Inductive, NEW w \in Workers, WorkerRecv(w)
    PROVE  JobsMatch' /\ ShutdownLast'
<1>1. TypeOK /\ JobsMatch /\ UNCHANGED <<call, write_jobs, writer>> /\ worker[w].pc = "recv"
  BY DEF Inductive, WorkerRecv
<1>2. /\ worker'[w].client = Head(jobs)
      /\ worker'[w].pc = IF IsWrite(call[Head(jobs)]) THEN "submit" ELSE "table"
      /\ \A v \in Workers : v # w => worker'[v] = worker[v]
  BY <1>1 DEF WorkerRecv, TypeOK
<1>3. JobsMatch'
  BY <1>1, <1>2, JobsKept DEF JobsMatch
<1>4. Alive' \subseteq Alive
  BY <1>1, <1>2 DEF Alive
<1> QED  BY <1>1, <1>3, <1>4, ShutdownKept

(* A worker that looks up a key, or gives up waiting.                        *)
LEMMA JobsRead ==
    ASSUME Inductive, NEW w \in Workers, ReadTable(w) \/ ReadSst(w) \/ AwaitDropped(w)
    PROVE  JobsMatch' /\ ShutdownLast'
<1>1. TypeOK /\ JobsMatch /\ ShutdownLast /\ UNCHANGED <<call, write_jobs, writer>>
  BY DEF Inductive, ReadTable, ReadSst, AwaitDropped
<1>2. /\ worker'[w].client = worker[w].client
      /\ worker'[w].pc = "reply" \/ (worker[w].pc = "table" /\ worker'[w].pc = "sst")
      /\ \A v \in Workers : v # w => worker'[v] = worker[v]
  <2>1. worker \in [Workers -> WorkerState]
    BY <1>1 DEF TypeOK
  <2>2. CASE ReadTable(w)
    <3>1. /\ worker[w].pc = "table"
          /\ \/ worker' = [worker EXCEPT ![w].pc = "sst"]
             \/ \E r : worker' = [worker EXCEPT ![w].pc = "reply", ![w].result = r]
      BY <2>2 DEF ReadTable
    <3> QED  BY <2>1, <3>1 DEF WorkerState
  <2>3. CASE ReadSst(w)
    <3>1. \E r : worker' = [worker EXCEPT ![w].pc = "reply", ![w].result = r]
      BY <2>3 DEF ReadSst
    <3> QED  BY <2>1, <3>1 DEF WorkerState
  <2>4. CASE AwaitDropped(w)
    BY <2>1, <2>4 DEF AwaitDropped, WorkerState
  <2> QED  BY <2>2, <2>3, <2>4
<1>3. worker[w].pc # "gone"
  BY DEF ReadTable, ReadSst, AwaitDropped
<1>4. worker[w].pc = "await" => ~WriterAlive
  BY DEF ReadTable, ReadSst, AwaitDropped
<1>5. w # writer.job /\ \A i \in 1 .. Len(write_jobs) : write_jobs[i] # w
  <2>1. CASE worker[w].pc = "await"
    <3>1. writer.job = "none" /\ \A i \in 1 .. Len(write_jobs) : write_jobs[i] \notin Workers
      BY <1>1, <1>4, <2>1 DEF JobsMatch, ShutdownLast, WriterAlive
    <3> QED  BY <3>1, EngineAssumption
  <2>2. CASE worker[w].pc # "await"
    BY <1>1, <2>2 DEF JobsMatch
  <2> QED  BY <2>1, <2>2
<1>6. JobsMatch'
  BY <1>1, <1>2, <1>5 DEF JobsMatch
<1>7. Alive' \subseteq Alive
  BY <1>2, <1>3 DEF Alive
<1> QED  BY <1>1, <1>6, <1>7, ShutdownKept

LEMMA JobsSubmit ==
    ASSUME Inductive, NEW w \in Workers, Submit(w)
    PROVE  JobsMatch' /\ ShutdownLast'
<1>1. /\ TypeOK /\ JobsMatch /\ ShutdownLast /\ UNCHANGED <<call, writer>>
      /\ worker[w].pc = "submit"
  BY DEF Inductive, Submit
<1>2. /\ worker'[w].client = worker[w].client
      /\ worker'[w].pc \in {"await", "reply"}
      /\ \A v \in Workers : v # w => worker'[v] = worker[v]
  BY <1>1 DEF Submit, TypeOK, WorkerState
<1>3. w # writer.job /\ \A i \in 1 .. Len(write_jobs) : write_jobs[i] # w
  BY <1>1 DEF JobsMatch
<1>4. Alive' = Alive /\ Alive # {}
  BY <1>1, <1>2 DEF Alive
<1>5. CASE ~WriterAlive
  <2>1. write_jobs' = write_jobs
    BY <1>5 DEF Submit
  <2>2. worker'[w].pc = "reply"
    BY <1>1, <1>5 DEF Submit, TypeOK, WorkerState
  <2>3. JobsMatch'
    BY <1>1, <1>2, <1>3, <2>1, <2>2 DEF JobsMatch
  <2> QED  BY <1>1, <1>4, <2>1, <2>3, ShutdownKept
<1>6. CASE WriterAlive
  <2>1. write_jobs' = Append(write_jobs, w) /\ write_jobs \in Seq(Workers \cup {"Shutdown"})
    BY <1>1, <1>6 DEF Submit, TypeOK
  <2>2. worker'[w].pc = "await"
    BY <1>1, <1>6 DEF Submit, TypeOK, WorkerState
  <2>3. /\ Len(write_jobs) \in Nat /\ Len(write_jobs') = Len(write_jobs) + 1
        /\ write_jobs'[Len(write_jobs) + 1] = w
        /\ \A i \in 1 .. Len(write_jobs) : write_jobs'[i] = write_jobs[i]
        /\ \A i \in 1 .. Len(write_jobs') : i \in 1 .. Len(write_jobs) \/ i = Len(write_jobs) + 1
    BY <2>1
  <2>4. \A i \in 1 .. Len(write_jobs') :
           /\ write_jobs'[i] \in Workers => worker'[write_jobs'[i]].pc = "await"
           /\ write_jobs'[i] \in Workers => write_jobs'[i] # writer'.job
    BY <1>1, <1>2, <1>3, <2>2, <2>3 DEF JobsMatch
  <2>5. \A i, j \in 1 .. Len(write_jobs') :
           write_jobs'[i] \in Workers /\ write_jobs'[i] = write_jobs'[j] => i = j
    BY <1>1, <1>3, <2>3 DEF JobsMatch
  <2>6. \A v \in Workers :
           /\ worker'[v].pc \in {"submit", "await"} => IsWrite(call'[worker'[v].client])
           /\ worker'[v].pc \in {"table", "sst"} => ~IsWrite(call'[worker'[v].client])
    BY <1>1, <1>2 DEF JobsMatch
  <2>7. JobsMatch'
    BY <1>1, <1>2, <1>3, <2>4, <2>5, <2>6 DEF JobsMatch
  <2>8. ShutdownLast'
    <3>1. /\ writer.job \notin {"Shutdown", "Final"}
          /\ \A i \in 1 .. Len(write_jobs) : write_jobs[i] # "Shutdown"
      BY <1>1, <1>4 DEF ShutdownLast
    <3>2. w # "Shutdown"
      BY EngineAssumption
    <3>3. \A i \in 1 .. Len(write_jobs') : write_jobs'[i] # "Shutdown"
      BY <2>3, <3>1, <3>2
    <3> QED  BY <1>1, <1>6, <3>1, <3>3 DEF ShutdownLast, WriterAlive
  <2> QED  BY <2>7, <2>8
<1> QED  BY <1>5, <1>6

LEMMA JobsReply ==
    ASSUME Inductive, NEW w \in Workers, Reply(w)
    PROVE  JobsMatch' /\ ShutdownLast'
<1>1. /\ TypeOK /\ OneHolder /\ JobsMatch /\ UNCHANGED <<write_jobs, writer>>
      /\ worker[w].pc = "reply"
  BY DEF Inductive, Reply
<1>2. worker'[w] = WorkerRest /\ \A v \in Workers : v # w => worker'[v] = worker[v]
  BY <1>1 DEF Reply, TypeOK
<1>3. \A v \in Workers : v # w /\ Busy(v) => call'[worker[v].client] = call[worker[v].client]
  BY <1>1 DEF Reply, TypeOK, OneHolder, Busy
<1>4. JobsMatch'
  <2>1. \A v \in Workers : worker[v].pc = "await" => worker'[v].pc = "await"
    BY <1>1, <1>2
  <2>2. \A v \in Workers :
           /\ worker'[v].pc \in {"submit", "await"} => IsWrite(call'[worker'[v].client])
           /\ worker'[v].pc \in {"table", "sst"} => ~IsWrite(call'[worker'[v].client])
    BY <1>1, <1>2, <1>3 DEF JobsMatch, Busy, WorkerRest
  <2> QED  BY <1>1, <2>1, <2>2, JobsKept
<1>5. Alive' \subseteq Alive
  BY <1>1, <1>2 DEF Alive
<1> QED  BY <1>1, <1>4, <1>5, ShutdownKept

LEMMA JobsGone ==
    ASSUME Inductive, NEW w \in Workers, NEW C, WorkerGone(w, C),
           worker[w].pc \in {"recv", "table", "sst"},
           C = {} \/ (Busy(w) /\ C = {worker[w].client})
    PROVE  JobsMatch' /\ ShutdownLast'
<1>1. TypeOK /\ OneHolder /\ JobsMatch /\ ShutdownLast /\ writer' = writer
  BY DEF Inductive, WorkerGone
<1>2. worker'[w].pc = "gone" /\ \A v \in Workers : v # w => worker'[v] = worker[v]
  BY <1>1 DEF WorkerGone, TypeOK, WorkerRest
<1>3. \A v \in Workers :
         /\ worker'[v].pc \in {"submit", "await"} => IsWrite(call'[worker'[v].client])
         /\ worker'[v].pc \in {"table", "sst"} => ~IsWrite(call'[worker'[v].client])
  <2> SUFFICES ASSUME NEW v \in Workers,
                      worker'[v].pc \in {"submit", "await", "table", "sst"}
               PROVE  call'[worker'[v].client] = call[worker[v].client] /\ worker'[v] = worker[v]
    BY <1>1 DEF JobsMatch
  <2>1. v # w /\ worker'[v] = worker[v] /\ Busy(v)
    BY <1>2 DEF Busy
  <2>2. worker[v].client \in Clients /\ worker[v].client \notin C
    BY <1>1, <2>1 DEF OneHolder
  <2>3. \A i \in 1 .. Len(jobs) : jobs[i] # worker[v].client
    BY <1>1, <2>1 DEF OneHolder
  <2>4. call'[worker[v].client] = call[worker[v].client]
    BY <2>2, <2>3 DEF WorkerGone
  <2> QED  BY <2>1, <2>4
<1>4. \A v \in Workers : worker[v].pc = "await" => worker'[v].pc = "await"
  BY <1>2
<1>5. Alive' \subseteq Alive
  BY <1>2 DEF Alive
<1>6. CASE write_jobs' = write_jobs
  BY <1>1, <1>3, <1>4, <1>5, <1>6, JobsKept, ShutdownKept
<1>7. CASE write_jobs' # write_jobs
  <2>1. /\ write_jobs' = Append(write_jobs, "Shutdown") /\ Alive = {w} /\ WriterAlive
        /\ write_jobs \in Seq(Workers \cup {"Shutdown"})
    BY <1>1, <1>7 DEF WorkerGone, TypeOK
  <2>2. /\ Len(write_jobs) \in Nat /\ Len(write_jobs') = Len(write_jobs) + 1
        /\ write_jobs'[Len(write_jobs) + 1] = "Shutdown"
        /\ \A i \in 1 .. Len(write_jobs) : write_jobs'[i] = write_jobs[i]
        /\ \A i \in 1 .. Len(write_jobs') : i \in 1 .. Len(write_jobs) \/ i = Len(write_jobs) + 1
    BY <2>1
  <2>3. "Shutdown" \notin Workers
    BY EngineAssumption
  <2>4. \A i \in 1 .. Len(write_jobs') :
           /\ write_jobs'[i] \in Workers => worker'[write_jobs'[i]].pc = "await"
           /\ write_jobs'[i] \in Workers => write_jobs'[i] # writer'.job
    BY <1>1, <1>4, <2>2, <2>3 DEF JobsMatch
  <2>5. \A i, j \in 1 .. Len(write_jobs') :
           write_jobs'[i] \in Workers /\ write_jobs'[i] = write_jobs'[j] => i = j
    BY <1>1, <2>2, <2>3 DEF JobsMatch
  <2>6. JobsMatch'
    BY <1>1, <1>3, <1>4, <2>4, <2>5 DEF JobsMatch
  <2>7. Alive' = {}
    BY <1>2, <2>1 DEF Alive
  <2> QED  BY <1>1, <2>1, <2>6, <2>7 DEF ShutdownLast, WriterAlive
<1> QED  BY <1>6, <1>7

(* A step of the write worker that does not answer a job.                    *)
LEMMA JobsWriterKept ==
    ASSUME Inductive, UNCHANGED <<call, worker>>,
           write_jobs' = write_jobs \/ write_jobs' = <<>>,
           \/ /\ writer'.job = writer.job
              /\ writer.pc # "dead" /\ writer'.pc # "dead"
              /\ writer'.pc \in {"append", "insert"} => writer.job \in Workers
              /\ writer'.pc = "clear" => writer.job \in Workers \cup {"Shutdown"}
              /\ writer'.pc \in {"open", "write", "add"} => writer.job # "none"
              /\ writer'.pc # "recv"
              /\ writer'.pc = "final" => writer.job = "Shutdown"
           \/ /\ writer' = WriterDead
              /\ write_jobs' = <<>> \/ writer.job \in {"Shutdown", "Final"}
           \/ /\ writer' = [pc |-> "open", job |-> "Final"]
              /\ writer.job = "Shutdown"
    PROVE  JobsMatch' /\ ShutdownLast'
<1>1. JobsMatch /\ ShutdownLast /\ worker' = worker /\ call' = call
  BY DEF Inductive
<1>2. Alive' = Alive
  BY DEF Alive
<1>3. \A i \in 1 .. Len(write_jobs') :
         i \in 1 .. Len(write_jobs) /\ write_jobs'[i] = write_jobs[i]
  OBVIOUS
<1>4. {"none", "Shutdown", "Final"} \cap Workers = {}
  BY EngineAssumption
<1>5. JobsMatch'
  <2>1. \A i \in 1 .. Len(write_jobs') :
           /\ write_jobs'[i] \in Workers => worker'[write_jobs'[i]].pc = "await"
           /\ write_jobs'[i] \in Workers => write_jobs'[i] # writer'.job
    BY <1>1, <1>3, <1>4 DEF JobsMatch, WriterDead
  <2>2. \A i, j \in 1 .. Len(write_jobs') :
           write_jobs'[i] \in Workers /\ write_jobs'[i] = write_jobs'[j] => i = j
    BY <1>1, <1>3 DEF JobsMatch
  <2>3. /\ writer'.job \in Workers => worker'[writer'.job].pc = "await"
        /\ writer'.pc \in {"append", "insert"} => writer'.job \in Workers
        /\ writer'.pc = "clear" => writer'.job \in Workers \cup {"Shutdown"}
        /\ writer'.pc \in {"open", "write", "add"} => writer'.job # "none"
        /\ writer'.pc \in {"recv", "dead"} => writer'.job = "none"
    BY <1>1, <1>4 DEF JobsMatch, WriterDead
  <2> QED  BY <1>1, <2>1, <2>2, <2>3 DEF JobsMatch
<1>6. ShutdownLast'
  <2>1. \/ writer'.job \in {"Shutdown", "Final"}
        \/ \E i \in 1 .. Len(write_jobs') : write_jobs'[i] = "Shutdown"
        => Alive' = {}
    BY <1>1, <1>2, <1>3 DEF ShutdownLast, WriterDead
  <2>2. writer'.pc = "final" => writer'.job = "Shutdown"
    BY DEF WriterDead
  <2>3. writer'.pc = "dead" => \A i \in 1 .. Len(write_jobs') : write_jobs'[i] \notin Workers
    <3>1. writer.job \in {"Shutdown", "Final"} =>
             \A i \in 1 .. Len(write_jobs) : write_jobs[i] \notin Workers
      BY <1>1 DEF ShutdownLast, JobsMatch, Alive
    <3> QED  BY <1>3, <3>1
  <2> QED  BY <2>1, <2>2, <2>3 DEF ShutdownLast, WriterAlive
<1> QED  BY <1>5, <1>6

LEMMA JobsWriterRecv ==
    ASSUME Inductive, WriterRecv
    PROVE  JobsMatch' /\ ShutdownLast'
<1>1. /\ TypeOK /\ JobsMatch /\ ShutdownLast /\ worker' = worker /\ call' = call
      /\ writer.pc = "recv"
  BY DEF Inductive, WriterRecv
<1> DEFINE j == Head(write_jobs)
<1>2. /\ write_jobs' = Tail(write_jobs) /\ write_jobs # <<>>
      /\ write_jobs \in Seq(Workers \cup {"Shutdown"})
  BY <1>1 DEF WriterRecv, TypeOK
<1>3. /\ Len(write_jobs) \in Nat /\ Len(write_jobs') = Len(write_jobs) - 1
      /\ 1 \in 1 .. Len(write_jobs) /\ j = write_jobs[1] /\ j \in Workers \cup {"Shutdown"}
      /\ \A i \in 1 .. Len(write_jobs') :
            i + 1 \in 1 .. Len(write_jobs) /\ write_jobs'[i] = write_jobs[i + 1]
  BY <1>2
<1>4. /\ writer'.job = j /\ writer'.pc \in {"open", "append", "final"}
      /\ writer'.pc = "append" => j # "Shutdown"
      /\ writer'.pc = "final" => j = "Shutdown"
  BY DEF WriterRecv, JobPc
<1>5. {"none", "Shutdown", "Final"} \cap Workers = {}
  BY EngineAssumption
<1> HIDE DEF j
<1>6. \A i \in 1 .. Len(write_jobs') :
         /\ write_jobs'[i] \in Workers => worker'[write_jobs'[i]].pc = "await"
         /\ write_jobs'[i] \in Workers => write_jobs'[i] # writer'.job
  <2> SUFFICES ASSUME NEW i \in 1 .. Len(write_jobs'), write_jobs'[i] \in Workers
               PROVE  worker[write_jobs'[i]].pc = "await" /\ write_jobs'[i] # j
    BY <1>1, <1>4
  <2>1. i + 1 # 1
    OBVIOUS
  <2> QED  BY <1>1, <1>3, <2>1 DEF JobsMatch
<1>7. \A i, m \in 1 .. Len(write_jobs') :
         write_jobs'[i] \in Workers /\ write_jobs'[i] = write_jobs'[m] => i = m
  <2> SUFFICES ASSUME NEW i \in 1 .. Len(write_jobs'), NEW m \in 1 .. Len(write_jobs'),
                      write_jobs'[i] \in Workers, write_jobs'[i] = write_jobs'[m]
               PROVE  i + 1 = m + 1
    OBVIOUS
  <2>1. /\ i + 1 \in 1 .. Len(write_jobs) /\ m + 1 \in 1 .. Len(write_jobs)
        /\ write_jobs[i + 1] \in Workers /\ write_jobs[i + 1] = write_jobs[m + 1]
    BY <1>3
  <2>2. \A a, b \in 1 .. Len(write_jobs) :
           write_jobs[a] \in Workers /\ write_jobs[a] = write_jobs[b] => a = b
    BY <1>1 DEF JobsMatch
  <2> QED  BY <2>1, <2>2
<1>8. j \in Workers => worker[j].pc = "await"
  BY <1>1, <1>3 DEF JobsMatch
<1>9. JobsMatch'
  BY <1>1, <1>3, <1>4, <1>5, <1>6, <1>7, <1>8 DEF JobsMatch
<1>10. ShutdownLast'
  <2>1. \/ writer'.job \in {"Shutdown", "Final"}
        \/ \E i \in 1 .. Len(write_jobs') : write_jobs'[i] = "Shutdown"
        => Alive = {}
    BY <1>1, <1>3, <1>4, <1>5 DEF ShutdownLast
  <2>2. Alive' = Alive
    BY <1>1 DEF Alive
  <2> QED  BY <1>4, <2>1, <2>2 DEF ShutdownLast, WriterAlive
<1> QED  BY <1>9, <1>10

(* The write worker answers its job.                                         *)
LEMMA JobsAnswer ==
    ASSUME Inductive, WalAppendError \/ Insert
    PROVE  JobsMatch' /\ ShutdownLast'
<1> DEFINE w == writer.job
<1>1. /\ TypeOK /\ JobsMatch /\ ShutdownLast /\ UNCHANGED <<call, write_jobs>>
      /\ writer' = WriterRest /\ writer.pc \in {"append", "insert"}
  BY DEF Inductive, WalAppendError, Insert
<1>2. w \in Workers /\ worker[w].pc = "await"
  BY <1>1 DEF JobsMatch
<1>3. /\ worker'[w].pc = "reply" /\ \A v \in Workers : v # w => worker'[v] = worker[v]
  BY <1>1, <1>2 DEF WalAppendError, Insert, TypeOK, WorkerState
<1>4. "none" \notin Workers
  BY EngineAssumption
<1>5. JobsMatch'
  BY <1>1, <1>2, <1>3, <1>4 DEF JobsMatch, WriterRest
<1>6. Alive' = Alive
  BY <1>2, <1>3 DEF Alive
<1> QED  BY <1>1, <1>5, <1>6 DEF ShutdownLast, WriterAlive, WriterRest

LEMMA JobsWriterStep ==
    ASSUME Inductive, WriterStep
    PROVE  JobsMatch' /\ ShutdownLast'
<1>1. TypeOK /\ JobsMatch /\ ShutdownLast
  BY DEF Inductive
<1>2. writer.job \in Workers \cup {"none", "Shutdown", "Final"}
  BY <1>1 DEF TypeOK, WriterState
<1>3. \A p : /\ [writer EXCEPT !.pc = p].pc = p
             /\ [writer EXCEPT !.pc = p].job = writer.job
  BY <1>1 DEF TypeOK, WriterState
<1>4. CASE FlushOpen \/ FlushWrite
  <2>1. /\ UNCHANGED <<call, worker, write_jobs>>
        /\ writer.pc \in {"open", "write"}
        /\ \E p \in {"write", "add"} : writer' = [writer EXCEPT !.pc = p]
    BY <1>4 DEF FlushOpen, FlushWrite
  <2>2. writer.job # "none" /\ writer'.job = writer.job /\ writer'.pc \in {"write", "add"}
    BY <1>1, <1>3, <2>1 DEF JobsMatch
  <2> QED  BY <2>1, <2>2, JobsWriterKept
<1>5. CASE FlushAdd
  <2>1. UNCHANGED <<call, worker>> /\ writer.pc = "add"
    BY <1>5 DEF FlushAdd
  <2>2. \/ writer' = FlushDone /\ write_jobs' = write_jobs
        \/ writer' = WriterDead /\ write_jobs' = <<>>
    BY <1>5 DEF FlushAdd
  <2>3. writer.job # "none"
    BY <1>1, <2>1 DEF JobsMatch
  <2>4. CASE writer' = [writer EXCEPT !.pc = "clear"] /\ writer.job # "Final"
    <3>1. writer'.job = writer.job /\ writer'.pc = "clear"
      BY <1>3, <2>4
    <3> QED  BY <1>2, <2>1, <2>2, <2>3, <2>4, <3>1, JobsWriterKept
  <2>5. CASE writer' = WriterDead /\ (write_jobs' = <<>> \/ writer.job = "Final")
    BY <2>1, <2>2, <2>5, JobsWriterKept
  <2> QED  BY <2>2, <2>4, <2>5 DEF FlushDone
<1>6. CASE FlushError \/ WalAppendPanic
  BY <1>6, JobsWriterKept DEF FlushError, WalAppendPanic
<1>7. CASE FlushClear
  BY <1>1, <1>3, <1>7, JobsWriterKept DEF FlushClear, JobPc, JobsMatch
<1>8. CASE WalAppend
  BY <1>1, <1>3, <1>8, JobsWriterKept DEF WalAppend, JobsMatch
<1>9. CASE FinalFlush
  BY <1>1, <1>9, JobsWriterKept DEF FinalFlush, ShutdownLast
<1> QED  BY <1>4, <1>5, <1>6, <1>7, <1>8, <1>9, JobsWriterRecv, JobsAnswer DEF WriterStep

LEMMA JobsStep ==
    ASSUME Inductive, [Next]_vars
    PROVE  JobsMatch' /\ ShutdownLast'
<1> USE DEF memory, disk, log
<1>1. ASSUME NEW w \in Workers, WorkerStep(w) PROVE JobsMatch' /\ ShutdownLast'
  <2>1. CASE WorkerPanic(w)
    BY <2>1, JobsGone DEF WorkerPanic, Busy
  <2>2. CASE WorkerExit(w)
    BY <2>2, JobsGone DEF WorkerExit
  <2> QED  BY <1>1, <2>1, <2>2, JobsRecv, JobsRead, JobsSubmit, JobsReply DEF WorkerStep
<1>2. CASE Shutdown \/ UNCHANGED vars
  <2>1. UNCHANGED <<call, worker, write_jobs, writer>>
    BY <1>2 DEF Shutdown, vars
  <2> QED  BY <2>1 DEF Inductive, JobsMatch, ShutdownLast, Alive, WriterAlive
<1>3. CASE LoseMemory
  <2>1. /\ write_jobs' = <<>> /\ writer' = WriterDead
        /\ \A w \in Workers : worker'[w].pc = "gone"
    BY <1>3 DEF LoseMemory, WorkerRest
  <2> QED  BY <2>1, EngineAssumption DEF JobsMatch, ShutdownLast, WriterAlive, WriterDead
<1>4. CASE Restart
  <2>1. /\ write_jobs' = <<>> /\ writer' = WriterRest
        /\ \A w \in Workers : worker'[w].pc = "recv"
    BY <1>4 DEF Restart, Inductive, DownIsEmpty, WorkerRest
  <2> QED  BY <2>1, EngineAssumption DEF JobsMatch, ShutdownLast, WriterAlive, WriterRest
<1> QED  BY <1>1, <1>2, <1>3, <1>4, JobsInvoke, JobsWriterStep DEF Next, Stopped, Crash

(* A process that is down stays empty until it is restarted.                 *)
LEMMA DownStep ==
    ASSUME Inductive, [Next]_vars
    PROVE  DownIsEmpty'
<1> USE DEF memory, disk, log
<1>1. CASE phase' # "down"
  BY <1>1 DEF DownIsEmpty
<1>2. CASE LoseMemory
  BY <1>2 DEF LoseMemory, DownIsEmpty, WorkerRest
<1>3. CASE UNCHANGED vars
  BY <1>3 DEF Inductive, DownIsEmpty, vars
<1>4. ASSUME phase = "down", NEW w \in Workers, WorkerStep(w) PROVE FALSE
  <2>1. worker[w].pc = "gone"
    BY <1>4 DEF Inductive, DownIsEmpty
  <2> QED  BY <1>4, <2>1 DEF WorkerStep, WorkerRecv, WorkerPanic, ReadTable, ReadSst, Submit,
               AwaitDropped, Reply, WorkerExit
<1>5. ASSUME phase = "down", WriterStep PROVE FALSE
  <2>1. writer.pc = "dead"
    BY <1>5 DEF Inductive, DownIsEmpty, WriterDead
  <2> QED  BY <1>5, <2>1 DEF WriterStep, WriterRecv, FlushOpen, FlushWrite, FlushAdd,
               FlushError, FlushClear, WalAppend, WalAppendError, WalAppendPanic, Insert,
               FinalFlush
<1>6. (\E w \in Workers : WorkerStep(w)) \/ WriterStep => phase' = phase
  BY DEF WorkerStep, WorkerRecv, WorkerPanic, WorkerGone, ReadTable, ReadSst, Submit,
         AwaitDropped, Reply, WorkerExit, WriterStep, WriterRecv, FlushOpen, FlushWrite,
         FlushAdd, FlushError, FlushClear, WalAppend, WalAppendError, WalAppendPanic, Insert,
         FinalFlush
<1>7. (\E c \in Clients : Invoke(c)) \/ Shutdown \/ Restart => phase' # "down"
  BY DEF Invoke, Shutdown, Restart
<1> QED  BY <1>1, <1>2, <1>3, <1>4, <1>5, <1>6, <1>7 DEF Next, Stopped, Crash

-----------------------------------------------------------------------------
(* What table, level zero and log hold.                                      *)
Contents ==
    /\ EntriesLogged /\ TableNewest /\ RecordsCovered /\ WriterMidway /\ SizesCounted
    /\ DamageMarked

(* Workers and callers do not touch the request that the write worker is     *)
(* about to insert: its worker waits.                                        *)
LEMMA RequestKept ==
    ASSUME Inductive, writer.pc = "insert", writer' = writer,
           \/ \E c \in Clients : Invoke(c)
           \/ \E w \in Workers : WorkerStep(w)
    PROVE  WriteRequest' = WriteRequest
<1> DEFINE j == writer.job
           d == worker[j].client
<1>1. TypeOK /\ OneHolder /\ JobsMatch
  BY DEF Inductive
<1>2. j \in Workers /\ worker[j].pc = "await" /\ Busy(j)
  BY <1>1 DEF JobsMatch, Busy
<1>3. d \in Clients /\ call[d] # Idle /\ \A i \in 1 .. Len(jobs) : jobs[i] # d
  BY <1>1, <1>2 DEF OneHolder
<1>4. \A v \in Workers : Busy(v) /\ v # j => worker[v].client # d
  BY <1>1, <1>2 DEF OneHolder
<1> SUFFICES worker'[j].client = d /\ call'[d] = call[d]
  BY DEF WriteRequest
<1>5. ASSUME NEW c \in Clients, Invoke(c)
      PROVE  worker'[j].client = d /\ call'[d] = call[d]
  <2>1. worker' = worker /\ call[c] = Idle
    BY <1>5 DEF Invoke
  <2>2. call'[d] = call[d]
    BY <1>1, <1>3, <1>5, <2>1 DEF Invoke, TypeOK
  <2> QED  BY <2>1, <2>2
<1>6. ASSUME NEW w \in Workers, WorkerStep(w)
      PROVE  worker'[j].client = d /\ call'[d] = call[d]
  <2>1. ASSUME NEW C, WorkerGone(w, C), w # j, d \notin C
        PROVE  worker'[j].client = d /\ call'[d] = call[d]
    <3>1. worker'[j] = worker[j]
      BY <1>1, <1>2, <2>1 DEF WorkerGone, TypeOK
    <3>2. call'[d] = call[d]
      BY <1>3, <2>1 DEF WorkerGone
    <3> QED  BY <3>1, <3>2
  <2>2. CASE WorkerPanic(w)
    <3>1. w # j /\ Busy(w)
      BY <1>2, <2>2 DEF WorkerPanic, Busy
    <3> QED  BY <1>4, <2>1, <2>2, <3>1 DEF WorkerPanic
  <2>3. CASE WorkerExit(w)
    <3>1. w # j
      BY <1>2, <2>3 DEF WorkerExit
    <3> QED  BY <2>1, <2>3, <3>1 DEF WorkerExit
  <2>4. CASE Reply(w)
    <3>1. w # j /\ Busy(w)
      BY <1>2, <2>4 DEF Reply, Busy
    <3>2. worker'[j] = worker[j]
      BY <1>1, <1>2, <2>4, <3>1 DEF Reply, TypeOK
    <3>3. call'[d] = call[d]
      BY <1>1, <1>3, <1>4, <2>4, <3>1 DEF Reply, TypeOK
    <3> QED  BY <3>2, <3>3
  <2>5. CASE WorkerRecv(w) \/ ReadTable(w) \/ ReadSst(w) \/ Submit(w) \/ AwaitDropped(w)
    <3>1. w # j
      BY <1>2, <2>5 DEF WorkerRecv, ReadTable, ReadSst, Submit, AwaitDropped, WriterAlive
    <3>2. worker'[j] = worker[j]
      BY <1>1, <1>2, <2>5, <3>1 DEF WorkerRecv, ReadTable, ReadSst, Submit, AwaitDropped, TypeOK
    <3>3. call' = call
      BY <2>5 DEF WorkerRecv, ReadTable, ReadSst, Submit, AwaitDropped
    <3> QED  BY <3>2, <3>3
  <2> QED  BY <1>6, <2>2, <2>3, <2>4, <2>5 DEF WorkerStep
<1> QED  BY <1>5, <1>6

(* A step that changes no entry and no record.                               *)
LEMMA ContentsKept ==
    ASSUME Inductive,
           UNCHANGED <<phase, table, current_size, level_zero, wal, wal_size, exposed>>,
           damage' = damage \/ AppendCutShort,
           writer'.pc = "insert" <=> writer.pc = "insert",
           writer.pc = "insert" => WriteRequest' = WriteRequest,
           writer'.pc = "clear" => writer.pc = "clear",
           writer'.pc \in {"open", "write", "add"} => ~IsEmpty(table)
    PROVE  Contents'
<1>1. Contents
  BY DEF Inductive, Contents
<1>2. InFlight' = InFlight
  BY DEF InFlight
<1>8. ExposedKeys' = ExposedKeys /\ DamageMarked'
  BY ExposedSame DEF Inductive
<1>3. EntriesLogged'
  BY <1>1, <1>2 DEF Contents, EntriesLogged, Logged
<1>4. TableNewest'
  BY <1>1 DEF Contents, TableNewest
<1>5. RecordsCovered'
  BY <1>1, <1>2, <1>8 DEF Contents, RecordsCovered
<1>6. WriterMidway'
  BY <1>1 DEF Contents, WriterMidway
<1>7. SizesCounted'
  BY <1>1 DEF Contents, SizesCounted, FlushHasEntries, IsEmpty
<1> QED  BY <1>3, <1>4, <1>5, <1>6, <1>7, <1>8 DEF Contents

(* A segment joins level zero.                                               *)
LEMMA ContentsAdd ==
    ASSUME Inductive, FlushAdd
    PROVE  Contents'
<1>1. /\ TypeOK /\ Contents /\ writer.pc = "add"
      /\ UNCHANGED <<phase, table, current_size, wal, wal_size, damage, exposed>>
  BY DEF Inductive, Contents, FlushAdd, disk, log
<1>6. ExposedKeys' = ExposedKeys /\ DamageMarked'
  BY <1>1, ExposedSame DEF Contents
<1>2. writer'.pc \in {"clear", "dead"}
  BY <1>1 DEF FlushAdd, FlushDone, WriterDead, TypeOK, WriterState
<1>3. InFlight = {} /\ InFlight' = {}
  BY <1>1, <1>2 DEF InFlight
<1>4. CASE level_zero' = level_zero
  <2>1. writer' = WriterDead
    <3>1. ASSUME NEW ok, level_zero' = Append(level_zero, [entries |-> table, intact |-> ok])
          PROVE  FALSE
      <4>1. level_zero \in Seq(Segment)
        BY <1>1 DEF TypeOK
      <4>2. Len(level_zero') = Len(level_zero) + 1 /\ Len(level_zero) \in Nat
        BY <3>1, <4>1
      <4> QED  BY <1>4, <4>2
    <3> QED  BY <3>1 DEF FlushAdd
  <2> QED  BY <1>1, <1>4, <2>1, ContentsKept DEF WriterDead
<1>5. CASE level_zero' # level_zero
  <2>1. PICK ok \in BOOLEAN : level_zero' = Append(level_zero, [entries |-> table, intact |-> ok])
    BY <1>5 DEF FlushAdd
  <2>2. level_zero \in Seq(Segment) /\ [entries |-> table, intact |-> ok] \in Segment
    BY <1>1 DEF TypeOK, Segment
  <2>3. /\ Len(level_zero) \in Nat /\ Len(level_zero') = Len(level_zero) + 1
        /\ level_zero'[Len(level_zero) + 1].entries = table
        /\ \A n \in 1 .. Len(level_zero) : level_zero'[n] = level_zero[n]
        /\ \A n \in 1 .. Len(level_zero') : n \in 1 .. Len(level_zero) \/ n = Len(level_zero) + 1
        /\ \A n \in 1 .. Len(level_zero) : n \in 1 .. Len(level_zero')
    BY <2>1, <2>2
  <2>4. \A k, e : Logged(k, e) => Logged(k, e)'
    BY <1>1, <1>3 DEF Logged
  <2>5. EntriesLogged'
    <3>1. \A k \in Keys : Logged(k, table[k])'
      BY <1>1, <2>4 DEF Contents, EntriesLogged
    <3>2. ASSUME NEW n \in 1 .. Len(level_zero'), NEW k \in Keys
          PROVE  Logged(k, level_zero[n].entries[k])'
      <4>1. level_zero'[n].entries[k] = table[k] \/
               (n \in 1 .. Len(level_zero) /\ level_zero'[n].entries[k] = level_zero[n].entries[k])
        BY <2>3
      <4>2. Logged(k, level_zero'[n].entries[k])
        BY <1>1, <4>1 DEF Contents, EntriesLogged
      <4> QED  BY <1>1, <1>3, <4>2 DEF Logged
    <3> QED  BY <3>1, <3>2 DEF EntriesLogged
  <2>6. TableNewest'
    <3> SUFFICES ASSUME NEW k \in Keys, NEW n \in 1 .. Len(level_zero'), table[k].seq > 0
                 PROVE  level_zero'[n].entries[k].seq <= table[k].seq
      BY <1>1 DEF TableNewest
    <3>1. table[k].seq \in Nat
      BY <1>1 DEF TypeOK, Table, Entry
    <3> QED  BY <1>1, <2>3, <3>1 DEF Contents, TableNewest
  <2>7. RecordsCovered'
    BY <1>1, <1>3, <1>6, <2>3 DEF Contents, RecordsCovered
  <2>8. WriterMidway'
    BY <1>1, <1>2, <2>3 DEF WriterMidway
  <2>9. SizesCounted'
    BY <1>1, <1>2 DEF Contents, SizesCounted, FlushHasEntries, IsEmpty
  <2> QED  BY <1>6, <2>5, <2>6, <2>7, <2>8, <2>9 DEF Contents
<1> QED  BY <1>4, <1>5

(* A flushed table is cleared: its last segment holds every entry.           *)
LEMMA ContentsClear ==
    ASSUME Inductive, FlushClear
    PROVE  Contents'
<1>1. /\ TypeOK /\ Contents /\ JobsMatch /\ writer.pc = "clear"
      /\ table' = EmptyTable /\ current_size' = 0
      /\ UNCHANGED <<phase, level_zero, wal, wal_size, damage, exposed>>
  BY DEF Inductive, Contents, FlushClear, disk, log
<1>10. ExposedKeys' = ExposedKeys /\ DamageMarked'
  BY <1>1, ExposedSame DEF Contents
<1>2. writer'.pc \in {"append", "final"}
  BY <1>1 DEF FlushClear, JobPc, TypeOK, WriterState
<1>3. InFlight = {} /\ InFlight' = {}
  BY <1>1, <1>2 DEF InFlight
<1>4. \A k \in Keys : table'[k] = Absent /\ table'[k].seq = 0
  BY <1>1 DEF EmptyTable, Absent
<1>5. EntriesLogged'
  BY <1>1, <1>3, <1>4 DEF Contents, EntriesLogged, Logged
<1>6. TableNewest'
  BY <1>1, <1>4 DEF TableNewest
<1>7. RecordsCovered'
  <2> SUFFICES ASSUME phase # "down", NEW i \in 1 .. Len(wal), wal[i].key \notin ExposedKeys
               PROVE  \E n \in 1 .. Len(level_zero) : i <= level_zero[n].entries[wal[i].key].seq
    BY <1>1, <1>10 DEF RecordsCovered
  <2>1. /\ Len(level_zero) \in 1 .. Len(level_zero)
        /\ level_zero[Len(level_zero)].entries = table
    BY <1>1 DEF Contents, WriterMidway, TypeOK
  <2> QED  BY <1>1, <1>3, <2>1 DEF Contents, RecordsCovered
<1>8. WriterMidway'
  BY <1>2 DEF WriterMidway
<1>9. SizesCounted'
  BY <1>1, <1>2 DEF Contents, SizesCounted, FlushHasEntries
<1> QED  BY <1>5, <1>6, <1>7, <1>8, <1>9, <1>10 DEF Contents

(* A record is logged.                                                       *)
LEMMA ContentsAppend ==
    ASSUME Inductive, WalAppend
    PROVE  Contents'
<1> DEFINE rec == [key |-> WriteRequest.key, value |-> WriteRequest.value]
<1>1. /\ TypeOK /\ Contents /\ writer.pc = "append"
      /\ wal' = Append(wal, rec)
      /\ writer' = [writer EXCEPT !.pc = "insert"]
      /\ UNCHANGED <<phase, call, worker, table, current_size, level_zero, damage, exposed>>
  BY DEF Inductive, Contents, WalAppend
<1>2. writer'.pc = "insert" /\ writer'.job = writer.job
  BY <1>1 DEF TypeOK, WriterState
<1>3. /\ Len(wal) \in Nat /\ Len(wal') = Len(wal) + 1
      /\ wal'[Len(wal) + 1] = rec
      /\ \A i \in 1 .. Len(wal) : wal'[i] = wal[i] /\ i # Len(wal')
      /\ \A i \in 1 .. Len(wal') : i \in 1 .. Len(wal) \/ i = Len(wal')
  <2>1. rec \in Record
    BY <1>1, WriterRequest DEF Record
  <2> QED  BY <1>1, <2>1 DEF TypeOK
<1>4. InFlight = {} /\ InFlight' = {Len(wal')}
  BY <1>1, <1>2 DEF InFlight
<1>5. WriteRequest' = WriteRequest
  BY <1>1, <1>2 DEF WriteRequest
<1> HIDE DEF rec
<1>6. \A k, e : Logged(k, e) => Logged(k, e)'
  BY <1>3, <1>4 DEF Logged
<1>7. EntriesLogged'
  <2>1. \A k \in Keys : Logged(k, table'[k]) /\ table' = table /\ level_zero' = level_zero
    BY <1>1 DEF Contents, EntriesLogged
  <2>2. \A n \in 1 .. Len(level_zero), k \in Keys : Logged(k, level_zero'[n].entries[k])
    BY <1>1 DEF Contents, EntriesLogged
  <2>3. /\ \A k \in Keys : Logged(k, table[k])'
        /\ \A n \in 1 .. Len(level_zero), k \in Keys : Logged(k, level_zero[n].entries[k])'
    BY <1>3, <1>4, <2>1, <2>2 DEF Logged
  <2> QED  BY <1>1, <2>3 DEF EntriesLogged
<1>8. TableNewest'
  BY <1>1 DEF Contents, TableNewest
<1>12. ExposedKeys' = ExposedKeys /\ DamageMarked'
  BY <1>1, <1>3, ExposedKept DEF Contents
<1>9. RecordsCovered'
  BY <1>1, <1>3, <1>4, <1>12 DEF Contents, RecordsCovered
<1>10. WriterMidway'
  BY <1>2, <1>3, <1>5 DEF WriterMidway, rec
<1>11. SizesCounted'
  BY <1>1, <1>2, <1>3 DEF Contents, SizesCounted, FlushHasEntries, IsEmpty
<1> QED  BY <1>7, <1>8, <1>9, <1>10, <1>11, <1>12 DEF Contents

(* The logged record reaches the table.                                      *)
LEMMA ContentsInsert ==
    ASSUME Inductive, Insert
    PROVE  Contents'
<1> DEFINE key == WriteRequest.key
           e == [value |-> WriteRequest.value, seq |-> Len(wal)]
<1>1. /\ TypeOK /\ Contents /\ writer.pc = "insert"
      /\ table' = [table EXCEPT ![key] = e]
      /\ writer' = WriterRest
      /\ UNCHANGED <<phase, level_zero, wal, wal_size, damage, exposed>>
  BY DEF Inductive, Contents, Insert, disk, log
<1>12. ExposedKeys' = ExposedKeys /\ DamageMarked'
  BY <1>1, ExposedSame DEF Contents
<1>2. /\ Len(wal) \in Nat /\ Len(wal) > 0
      /\ wal[Len(wal)] = [key |-> key, value |-> WriteRequest.value]
      /\ key \in Keys
  BY <1>1, WriterRequest DEF Contents, WriterMidway, TypeOK
<1>3. InFlight = {Len(wal)} /\ InFlight' = {}
  BY <1>1 DEF InFlight, WriterRest
<1>4. table'[key] = e /\ \A k \in Keys : k # key => table'[k] = table[k]
  BY <1>1, <1>2 DEF TypeOK, Table
<1>5. e.seq = Len(wal) /\ e.value = WriteRequest.value
  OBVIOUS
<1> HIDE DEF key, e
<1>6. \A k, f : Logged(k, f) => f.seq <= Len(wal)
  BY <1>2 DEF Logged, Absent
<1>7. EntriesLogged'
  <2>1. \A n \in 1 .. Len(level_zero), k \in Keys : Logged(k, level_zero[n].entries[k])'
    BY <1>1, <1>3 DEF Contents, EntriesLogged, Logged
  <2>2. \A k \in Keys : k # key => Logged(k, table[k])'
    BY <1>1, <1>3, <1>4 DEF Contents, EntriesLogged, Logged
  <2>3. \A k \in Keys : k = key => Logged(k, table[k])'
    BY <1>1, <1>2, <1>3, <1>4, <1>5 DEF Logged
  <2> QED  BY <1>1, <2>1, <2>2, <2>3 DEF EntriesLogged
<1>8. TableNewest'
  <2> SUFFICES ASSUME NEW k \in Keys, NEW n \in 1 .. Len(level_zero), table'[k].seq > 0
               PROVE  level_zero[n].entries[k].seq <= table'[k].seq
    BY <1>1 DEF TableNewest
  <2>1. CASE k = key
    BY <1>1, <1>4, <1>5, <1>6, <2>1 DEF Contents, EntriesLogged
  <2>2. CASE k # key
    BY <1>1, <1>4, <2>2 DEF Contents, TableNewest
  <2> QED  BY <2>1, <2>2
<1>9. RecordsCovered'
  <2> SUFFICES ASSUME phase # "down", NEW i \in 1 .. Len(wal), wal[i].key \notin ExposedKeys
               PROVE  \/ i <= table'[wal[i].key].seq
                      \/ \E n \in 1 .. Len(level_zero) : i <= level_zero[n].entries[wal[i].key].seq
    BY <1>1, <1>12 DEF RecordsCovered
  <2>1. wal[i].key \in Keys
    <3>1. wal[i] \in Record
      BY <1>1 DEF TypeOK
    <3> QED  BY <3>1 DEF Record
  <2>2. CASE wal[i].key = key
    BY <1>4, <1>5, <2>2
  <2>3. CASE wal[i].key # key
    <3>1. i # Len(wal)
      BY <1>2, <2>3
    <3> QED  BY <1>1, <1>3, <1>4, <2>1, <2>3, <3>1 DEF Contents, RecordsCovered
  <2> QED  BY <2>2, <2>3
<1>10. WriterMidway'
  BY <1>1 DEF WriterMidway, WriterRest
<1>11. SizesCounted'
  <2>1. ~IsEmpty(table)'
    BY <1>2, <1>4, <1>5 DEF IsEmpty
  <2> QED  BY <1>1, <2>1 DEF Contents, SizesCounted, FlushHasEntries, WriterRest
<1> QED  BY <1>7, <1>8, <1>9, <1>10, <1>11, <1>12 DEF Contents

(* The process ends.                                                         *)
LEMMA ContentsLost ==
    ASSUME Inductive, Stopped \/ Crash
    PROVE  Contents'
<1>1. /\ TypeOK /\ Contents /\ phase' = "down" /\ writer' = WriterDead
      /\ table' = EmptyTable /\ current_size' = 0 /\ level_zero' = <<>>
      /\ UNCHANGED <<wal, wal_size, exposed>>
  BY DEF Inductive, Contents, LoseMemory, Stopped, Crash
<1>2. EntriesLogged' /\ TableNewest' /\ RecordsCovered'
  BY <1>1 DEF EntriesLogged, Logged, TableNewest, RecordsCovered, EmptyTable
<1>3. DamageMarked'
  <2>1. damage' = damage \/ AppendCutShort
    BY DEF Stopped, Crash
  <2> QED  BY <1>1, <2>1, ExposedSame DEF Contents
<1> QED  BY <1>1, <1>2, <1>3 DEF Contents, WriterMidway, SizesCounted, FlushHasEntries, WriterDead

(* The process starts and replays the log.                                   *)
LEMMA ContentsRestart ==
    ASSUME Inductive, Restart
    PROVE  Contents'
<1>1. /\ TypeOK /\ Contents /\ writer' = WriterRest /\ level_zero' = <<>>
      /\ UNCHANGED <<wal, wal_size, damage>>
      /\ Len(wal) \in Nat /\ damage \in Nat
  BY DEF Inductive, Contents, Restart, FoundSegments, TypeOK
<1>2. InFlight' = {}
  BY <1>1 DEF InFlight, WriterRest
<1>3. ASSUME NEW i \in 1 .. Len(wal)
      PROVE  wal[i].key \in Keys /\ wal[i].value \in Maybe /\ wal[i] = [key |-> wal[i].key, value |-> wal[i].value]
  <2>1. wal[i] \in Record
    BY <1>1 DEF TypeOK
  <2> QED  BY <2>1 DEF Record
<1>4. PICK lost \in SUBSET (1 .. Len(wal)) :
         /\ table' = ReplayedWithout(lost)
         /\ \A i \in lost : damage > 0 /\ damage <= i
  BY <1>1, RestartFinds
<1>5. EntriesLogged'
  <2>1. ASSUME NEW k \in Keys PROVE Logged(k, table[k])'
    <3> DEFINE e == ReplayedWithout(lost)[k]
    <3>1. e = Absent \/ \E i \in 1 .. Len(wal) : wal[i].key = k /\ e = [value |-> wal[i].value, seq |-> i]
      BY <1>1, FoundLast
    <3>2. table'[k] = e
      BY <1>4
    <3> HIDE DEF e
    <3>3. CASE e = Absent
      BY <3>2, <3>3 DEF Logged, Absent
    <3>4. ASSUME NEW i \in 1 .. Len(wal), wal[i].key = k, e = [value |-> wal[i].value, seq |-> i]
          PROVE  Logged(k, table[k])'
      BY <1>1, <1>2, <1>3, <3>2, <3>4 DEF Logged
    <3> QED  BY <3>1, <3>3, <3>4
  <2> QED  BY <1>1, <2>1 DEF EntriesLogged
<1>6. TableNewest' /\ WriterMidway'
  BY <1>1 DEF TableNewest, WriterMidway, WriterRest
<1>7. ASSUME NEW i \in 1 .. Len(wal), i \notin lost PROVE i <= table'[wal[i].key].seq
  <2>1. wal[i].key \in Keys
    BY <1>3
  <2>2. PICK m \in 1 .. Len(wal) :
           /\ i <= m
           /\ ReplayedWithout(lost)[wal[i].key] = [value |-> wal[m].value, seq |-> m]
    BY <1>1, <1>7, <2>1, FoundLast
  <2> QED  BY <1>4, <2>2
<1>8. RecordsCovered'
  <2> SUFFICES ASSUME NEW i \in 1 .. Len(wal), wal[i].key \notin ExposedKeys'
               PROVE  i <= table'[wal[i].key].seq
    BY <1>1 DEF RecordsCovered
  <2>1. ASSUME i \in lost PROVE FALSE
    <3>1. damage > 0 /\ damage <= i
      BY <1>4, <2>1
    <3>2. exposed' = Len(wal)
      BY <1>1, <3>1 DEF Restart
    <3>3. i \in Exposed'
      BY <1>1, <3>1, <3>2 DEF Exposed
    <3> QED  BY <1>1, <3>3 DEF ExposedKeys
  <2> QED  BY <1>7, <2>1
<1>9. SizesCounted'
  <2>1. current_size' > 0 => ~IsEmpty(table)'
    <3>1. ASSUME damage = 0, current_size' > 0 PROVE ~IsEmpty(table)'
      <4>1. wal_size > 0
        BY <3>1, <1>1, RestartCounts
      <4>2. 1 \in 1 .. Len(wal) /\ 1 \notin lost
        BY <1>1, <1>4, <3>1, <4>1 DEF Contents, SizesCounted
      <4>3. wal[1].key \in Keys /\ 1 <= table'[wal[1].key].seq
        BY <1>3, <1>7, <4>2
      <4> QED  BY <4>3 DEF IsEmpty
    <3> QED  BY <1>1, <3>1, RestartCounts
  <2> QED  BY <1>1, <2>1 DEF Contents, SizesCounted, FlushHasEntries, WriterRest
<1>10. DamageMarked'
  <2>1. (damage = 0 /\ exposed' = exposed) \/ (damage > 0 /\ exposed' = Len(wal))
    BY DEF Restart
  <2> QED  BY <1>1, <2>1 DEF Contents, DamageMarked
<1> QED  BY <1>5, <1>6, <1>8, <1>9, <1>10 DEF Contents

(* Every step keeps table, level zero and log consistent.                    *)
LEMMA ContentsStep ==
    ASSUME Inductive, [Next]_vars
    PROVE  Contents'
<1> USE DEF memory, disk, log
<1>1. TypeOK /\ Contents
  BY DEF Inductive, Contents
<1>2. \A p : [writer EXCEPT !.pc = p].pc = p
  BY <1>1 DEF TypeOK, WriterState
<1>3. writer.pc \in {"open", "write", "add"} => ~IsEmpty(table)
  BY <1>1 DEF Contents, SizesCounted, FlushHasEntries
<1>4. CASE (\E c \in Clients : Invoke(c)) \/ \E w \in Workers : WorkerStep(w)
  <2>1. UNCHANGED <<phase, writer, table, current_size, level_zero, wal, wal_size, damage, exposed>>
    BY <1>4 DEF Invoke, WorkerStep, WorkerRecv, WorkerPanic, WorkerGone, ReadTable, ReadSst,
           Submit, AwaitDropped, Reply, WorkerExit
  <2> QED  BY <1>3, <1>4, <2>1, ContentsKept, RequestKept
<1>5. CASE WriterRecv
  <2>1. /\ UNCHANGED <<phase, table, current_size, level_zero, wal, wal_size, damage, exposed>>
        /\ writer.pc = "recv"
        /\ writer'.pc = "open" => current_size >= MaxSize
        /\ writer'.pc \in {"open", "append", "final"}
    BY <1>5 DEF WriterRecv, JobPc
  <2>2. current_size >= MaxSize => ~IsEmpty(table)
    <3>1. current_size \in Nat /\ MaxSize \in Nat \ {0}
      BY <1>1, EngineAssumption DEF TypeOK
    <3> QED  BY <1>1, <3>1 DEF Contents, SizesCounted
  <2> QED  BY <2>1, <2>2, ContentsKept
<1>6. CASE FlushOpen \/ FlushWrite
  <2>1. /\ UNCHANGED <<phase, table, current_size, level_zero, wal, wal_size, damage, exposed>>
        /\ writer.pc \in {"open", "write"} /\ writer'.pc \in {"write", "add"}
    BY <1>2, <1>6 DEF FlushOpen, FlushWrite
  <2> QED  BY <1>3, <2>1, ContentsKept
<1>7. CASE FlushError \/ WalAppendPanic \/ WalAppendError
  <2>1. /\ UNCHANGED <<phase, table, current_size, level_zero, wal, wal_size, exposed>>
        /\ damage' = damage \/ AppendCutShort
        /\ writer.pc # "insert" /\ writer'.pc \in {"dead", "recv"}
    BY <1>7 DEF FlushError, WalAppendPanic, WalAppendError, WriterDead, WriterRest
  <2> QED  BY <2>1, ContentsKept
<1>8. CASE FinalFlush
  <2>1. /\ UNCHANGED <<phase, table, current_size, level_zero, wal, wal_size, damage, exposed>>
        /\ writer.pc # "insert" /\ writer'.pc \in {"dead", "open"}
        /\ writer'.pc = "open" => ~IsEmpty(table)
    BY <1>8 DEF FinalFlush, WriterDead
  <2> QED  BY <2>1, ContentsKept
<1>9. CASE Shutdown
  <2>1. UNCHANGED <<call, worker, writer, table, current_size, level_zero, wal, wal_size, damage, exposed>>
    BY <1>9 DEF Shutdown
  <2>2. phase # "down" /\ phase' # "down"
    BY <1>9 DEF Shutdown
  <2>3. InFlight' = InFlight /\ WriteRequest' = WriteRequest
    BY <2>1 DEF InFlight, WriteRequest
  <2>7. ExposedKeys' = ExposedKeys /\ DamageMarked'
    BY <1>1, <2>1, ExposedSame DEF Contents
  <2>4. EntriesLogged' /\ TableNewest'
    BY <1>1, <2>1, <2>3 DEF Contents, EntriesLogged, Logged, TableNewest
  <2>5. RecordsCovered'
    BY <1>1, <2>1, <2>2, <2>3, <2>7 DEF Contents, RecordsCovered
  <2>6. WriterMidway' /\ SizesCounted'
    BY <1>1, <2>1, <2>3 DEF Contents, WriterMidway, SizesCounted, FlushHasEntries, IsEmpty
  <2> QED  BY <2>4, <2>5, <2>6, <2>7 DEF Contents
<1>10. CASE UNCHANGED vars
  <2>1. /\ UNCHANGED <<phase, table, current_size, level_zero, wal, wal_size, damage, exposed>>
        /\ writer' = writer /\ WriteRequest' = WriteRequest
    BY <1>10 DEF vars, WriteRequest
  <2> QED  BY <1>3, <2>1, ContentsKept
<1> QED  BY <1>4, <1>5, <1>6, <1>7, <1>8, <1>9, <1>10, ContentsAdd, ContentsClear,
            ContentsAppend, ContentsInsert, ContentsLost, ContentsRestart
         DEF Next, WriterStep

-----------------------------------------------------------------------------
(* The invariant holds in every reachable state: whatever the threads of the *)
(* engine, the callers, the disk and the crashes do, and however many of     *)
(* them there are.  Its last parts say which records recovery may have lost: *)
(* those of keys with a record behind what a failed or torn Wal::append left *)
(* in a log that has been read since, and no other.                          *)
THEOREM InductiveInvariant == Spec => []Inductive
<1>1. ASSUME Inductive, [Next]_vars PROVE Inductive'
  <2>1. TypeOK'
    BY <1>1, TypeStep
  <2>2. OneHolder' /\ JobsMatch' /\ ShutdownLast' /\ DownIsEmpty'
    BY <1>1, HolderStep, JobsStep, DownStep
  <2>3. Contents'
    BY <1>1, ContentsStep
  <2> QED  BY <2>1, <2>2, <2>3 DEF Inductive, Contents
<1> QED  BY <1>1, InitInductive, PTL DEF Spec

(* Every variable keeps its type.                                            *)
THEOREM TypeCorrect == Spec => []TypeOK
<1>1. Inductive => TypeOK
  BY DEF Inductive
<1> QED  BY <1>1, InductiveInvariant, PTL

(* Every call in progress is held in exactly one place, the job queue or one *)
(* worker of Worker::run, so that it can be answered once and only once.     *)
THEOREM CallsHeldOnce == Spec => []OneHolder
<1>1. Inductive => OneHolder
  BY DEF Inductive
<1> QED  BY <1>1, InductiveInvariant, PTL

(* Flusher::flush is never given an empty memtable.                          *)
THEOREM FlushesHaveEntries == Spec => []FlushHasEntries
<1>1. Inductive => FlushHasEntries
  BY DEF Inductive, SizesCounted
<1> QED  BY <1>1, InductiveInvariant, PTL

(* The segment OverlappingLevel::get chooses has an entry at least as new as *)
(* any other segment's.                                                      *)
LEMMA LevelZeroNewest ==
    ASSUME Inductive, NEW k \in Keys
    PROVE  /\ LevelZeroGet(k) \in Entry
           /\ Logged(k, LevelZeroGet(k))
           /\ \A n \in 1 .. Len(level_zero) : level_zero[n].entries[k].seq <= LevelZeroGet(k).seq
           /\ \/ LevelZeroGet(k) = Absent
              \/ \E n \in 1 .. Len(level_zero) : LevelZeroGet(k) = level_zero[n].entries[k]
<1> DEFINE found == {Absent} \cup {level_zero[n].entries[k] : n \in 1 .. Len(level_zero)}
           S == {e.seq : e \in found}
<1>1. TypeOK /\ EntriesLogged
  BY DEF Inductive
<1>2. Len(wal) \in Nat
  BY <1>1 DEF TypeOK
<1>3. \A e \in found : Logged(k, e) /\ e \in Entry
  BY <1>1, SegmentType, EntryType DEF EntriesLogged, Logged
<1>4. Absent \in found
  OBVIOUS
<1> HIDE DEF found
<1>5. ASSUME NEW e \in found PROVE e.seq \in 0 .. Len(wal)
  <2>1. e = Absent \/ e.seq \in 1 .. Len(wal)
    BY <1>3 DEF Logged
  <2> QED  BY <1>2, <2>1 DEF Absent
<1>6. S \in SUBSET (0 .. Len(wal)) /\ S # {}
  BY <1>4, <1>5
<1>7. PICK m \in S : \A i \in S : i <= m
  BY <1>2, <1>6, MaxExists
<1>8. \E e \in found : \A f \in found : f.seq <= e.seq
  BY <1>7
<1>9. LevelZeroGet(k) = CHOOSE e \in found : \A f \in found : f.seq <= e.seq
  BY DEF LevelZeroGet, SegmentGet, found
<1>10. LevelZeroGet(k) \in found /\ \A f \in found : f.seq <= LevelZeroGet(k).seq
  BY <1>8, <1>9
<1> QED  BY <1>3, <1>10 DEF found

(* A lookup through memtable and level zero finds the newest logged record of *)
(* its key, but for the one being written, unless the key is exposed.        *)
LEMMA LookupNewest ==
    ASSUME Inductive, phase # "down", NEW k \in Keys, k \notin ExposedKeys,
           NEW S, S = {i \in 1 .. Len(wal) : wal[i].key = k} \ InFlight
    PROVE  IF S = {} THEN Lookup(k) = Absent
           ELSE \E i \in S :
                   /\ \A j \in S : j <= i
                   /\ Lookup(k) = [value |-> wal[i].value, seq |-> i]
<1> DEFINE e == Lookup(k)
<1>1. TypeOK /\ EntriesLogged /\ TableNewest /\ RecordsCovered
  BY DEF Inductive
<1>2. table[k].seq \in Nat /\ \A n \in 1 .. Len(level_zero) : level_zero[n].entries[k].seq \in Nat
  BY <1>1, SegmentType DEF TypeOK, Table, Entry
<1>3. /\ Logged(k, e) /\ e.seq \in Nat
      /\ table[k].seq <= e.seq
      /\ \A n \in 1 .. Len(level_zero) : level_zero[n].entries[k].seq <= e.seq
  <2>1. CASE table[k].seq > 0
    BY <1>1, <1>2, <2>1 DEF Lookup, EntriesLogged, TableNewest
  <2>2. CASE ~(table[k].seq > 0)
    <3>1. e = LevelZeroGet(k)
      BY <2>2 DEF Lookup
    <3>2. LevelZeroGet(k).seq \in Nat
      BY LevelZeroNewest DEF Entry
    <3> QED  BY <1>2, <2>2, <3>1, <3>2, LevelZeroNewest
  <2> QED  BY <2>1, <2>2
<1>4. \A j \in S : j <= e.seq
  <2> SUFFICES ASSUME NEW j \in S PROVE j <= e.seq
    OBVIOUS
  <2>1. \/ j <= table[k].seq
        \/ \E n \in 1 .. Len(level_zero) : j <= level_zero[n].entries[k].seq
    BY <1>1 DEF RecordsCovered
  <2>2. j \in Nat
    OBVIOUS
  <2> QED  BY <1>2, <1>3, <2>1, <2>2
<1>5. CASE e = Absent
  <2>1. \A j \in S : j <= 0 /\ j \in 1 .. Len(wal)
    BY <1>4, <1>5 DEF Absent
  <2>2. S = {}
    BY <2>1
  <2> QED  BY <1>5, <2>2
<1>6. CASE e # Absent
  <2>1. e.seq \in S /\ wal[e.seq].value = e.value
    BY <1>3, <1>6 DEF Logged
  <2>2. e \in Entry
    BY <1>1, LevelZeroNewest DEF Lookup, TypeOK, Table
  <2>3. e = [value |-> wal[e.seq].value, seq |-> e.seq]
    BY <2>1, <2>2 DEF Entry
  <2> QED  BY <1>4, <2>1, <2>3
<1> QED  BY <1>5, <1>6

(* No acknowledged write is lost and none is resurrected: a lookup through   *)
(* memtable and level zero finds the newest logged record of its key, in the *)
(* middle of a flush as well as after a crash and the replay of the log.     *)
(* The keys left out are those recovery may have lost a write of: a record   *)
(* of theirs was behind the remains of a failed or torn Wal::append when     *)
(* MemTable::recover read the log.                                           *)
THEOREM WritesKept == Spec => []NothingLost
<1>1. Inductive => NothingLost
  BY LookupNewest DEF NothingLost
<1> QED  BY <1>1, InductiveInvariant, PTL

-----------------------------------------------------------------------------
(* The first life of the process                                            *)

LEMMA LongestEntry ==
    ASSUME NEW v \in Maybe
    PROVE  /\ EntryLen(v) <= EntryLen(CHOOSE u \in Values : TRUE)
           /\ EntryLen(v) \in Nat /\ EntryLen(CHOOSE u \in Values : TRUE) \in Nat \ {0}
<1>1. CASE v \in Values
  <2>1. (CHOOSE u \in Values : TRUE) \in Values
    BY <1>1
  <2>2. (CHOOSE u \in Values : TRUE) # NoValue /\ v # NoValue
    BY <1>1, <2>1, NoValueAssumption
  <2> QED  BY <2>2 DEF EntryLen
<1>2. CASE v = NoValue
  BY <1>2 DEF EntryLen
<1> QED  BY <1>1, <1>2 DEF Maybe

(* What a flush of the first life finds, whatever happens to the callers.    *)
LEMMA FirstLifeKept ==
    ASSUME FirstLife, UNCHANGED <<poisoned, level_zero, files, table, current_size, restarts>>,
           \/ writer'.pc = writer.pc
           \/ writer'.pc = "dead"
           \/ writer.pc \notin {"write", "add", "dead"} /\ writer'.pc \notin {"write", "add", "append", "insert"}
           \/ writer.pc = "append" /\ writer'.pc = "insert"
    PROVE  FirstLife'
BY DEF FirstLife, FlushedSegmentsReadable, AllIntact, FlushNumber, HighestSegmentNumber, IsEmpty,
       ReadBack, MemtableBounded

LEMMA FirstLifeWriter ==
    ASSUME Inductive, FirstLife, WriterStep
    PROVE  FirstLife'
<1>1. TypeOK
  BY DEF Inductive
<1>2. \A p \in WriterPcs : [writer EXCEPT !.pc = p].pc = p
  BY <1>1 DEF TypeOK, WriterState
<1>3. level_zero \in Seq(Segment) /\ files \in Seq(Table) /\ current_size \in Nat /\ MaxSize \in Nat \ {0}
  BY <1>1, EngineAssumption DEF TypeOK
<1>4. CASE WriterRecv
  <2>1. /\ writer.pc = "recv" /\ writer'.pc \in {"open", "final", "append"}
        /\ writer'.pc = "append" => ~(current_size >= MaxSize)
        /\ UNCHANGED <<poisoned, level_zero, files, table, current_size, restarts>>
    BY <1>4 DEF WriterRecv, JobPc, disk, log
  <2>2. writer'.pc = "append" => current_size < MaxSize
    BY <1>3, <2>1
  <2> QED  BY <2>1, <2>2
           DEF FirstLife, FlushedSegmentsReadable, AllIntact, HighestSegmentNumber, MemtableBounded
<1>5. CASE FlushOpen
  <2>1. /\ writer.pc = "open" /\ writer'.pc = "write" /\ restarts' = restarts
        /\ UNCHANGED <<poisoned, level_zero, table, current_size>>
    BY <1>2, <1>5 DEF FlushOpen, WriterPcs
  <2>2. ASSUME restarts = 0
        PROVE  files' = Append(files, EmptyTable) /\ Len(files) = Len(level_zero)
    BY <1>3, <1>5, <2>1, <2>2 DEF FlushOpen, FirstLife, FlushNumber, HighestSegmentNumber
  <2>3. ASSUME restarts = 0
        PROVE  Len(files') = Len(level_zero) + 1 /\ files'[Len(level_zero) + 1] = EmptyTable
    BY <1>3, <2>2, <2>3, EntryType
  <2>4. IsEmpty(EmptyTable)
    BY DEF IsEmpty, EmptyTable, Absent
  <2> QED  BY <2>1, <2>3, <2>4
           DEF FirstLife, FlushedSegmentsReadable, AllIntact, FlushNumber, HighestSegmentNumber,
               IsEmpty, MemtableBounded
<1>6. CASE FlushWrite
  <2>1. /\ writer.pc = "write" /\ writer'.pc = "add" /\ restarts' = restarts
        /\ UNCHANGED <<poisoned, level_zero, table, current_size>>
    BY <1>2, <1>6 DEF FlushWrite, WriterPcs
  <2>2. ASSUME restarts = 0
        PROVE  Len(files') = FlushNumber /\ files'[FlushNumber] = table
    <3>1. Len(files) = FlushNumber /\ IsEmpty(files[FlushNumber]) /\ FlushNumber \in DOMAIN files
      BY <1>3, <2>1, <2>2 DEF FirstLife, FlushNumber, HighestSegmentNumber
    <3>2. files' = [files EXCEPT ![FlushNumber] = table]
      BY <1>6, <3>1 DEF FlushWrite
    <3> QED  BY <1>3, <3>1, <3>2
  <2> QED  BY <2>1, <2>2
           DEF FirstLife, FlushedSegmentsReadable, AllIntact, FlushNumber, HighestSegmentNumber,
               ReadBack, MemtableBounded
<1>7. CASE FlushAdd
  <2>1. writer.pc = "add" /\ UNCHANGED <<files, table, current_size, restarts>>
    BY <1>7 DEF FlushAdd, disk, log
  <2>2. writer'.pc \in {"dead", "clear"}
    <3>1. [writer EXCEPT !.pc = "clear"].pc = "clear"
      BY <1>2 DEF WriterPcs
    <3>2. writer' = WriterDead \/ writer' = [writer EXCEPT !.pc = "clear"]
      BY <1>7 DEF FlushAdd, FlushDone
    <3>3. CASE writer' = WriterDead
      BY <3>3 DEF WriterDead
    <3>4. CASE writer' = [writer EXCEPT !.pc = "clear"]
      BY <3>1, <3>4
    <3> QED  BY <3>2, <3>3, <3>4
  <2>3. ASSUME restarts = 0
        PROVE  /\ level_zero' = Append(level_zero, [entries |-> table, intact |-> TRUE])
               /\ poisoned' = poisoned
    BY <1>7, <2>1, <2>3 DEF FlushAdd, FirstLife
  <2>4. ASSUME restarts = 0
        PROVE  Len(level_zero') = Len(level_zero) + 1 /\ AllIntact'
    <3>1. [entries |-> table, intact |-> TRUE] \in Segment
      BY <1>1 DEF TypeOK, Segment
    <3>2. /\ Len(level_zero') = Len(level_zero) + 1 /\ Len(level_zero) \in Nat
          /\ \A n \in 1 .. Len(level_zero) : level_zero'[n] = level_zero[n]
          /\ level_zero'[Len(level_zero) + 1] = [entries |-> table, intact |-> TRUE]
      BY <1>3, <2>3, <2>4, <3>1
    <3>3. \A n \in 1 .. Len(level_zero') : n \in 1 .. Len(level_zero) \/ n = Len(level_zero) + 1
      BY <3>2
    <3> QED  BY <2>4, <3>2, <3>3 DEF AllIntact, FirstLife, FlushedSegmentsReadable
  <2> QED  BY <2>1, <2>2, <2>3, <2>4
           DEF FirstLife, FlushedSegmentsReadable, FlushNumber, HighestSegmentNumber, MemtableBounded
<1>8. CASE FlushError
  BY <1>8 DEF FlushError, WriterDead, disk, log, FirstLife, FlushedSegmentsReadable, AllIntact,
              MemtableBounded
<1>9. CASE FlushClear
  <2>1. /\ writer.pc = "clear" /\ writer'.pc \in {"append", "final"} /\ current_size' = 0
        /\ UNCHANGED <<poisoned, level_zero, files, restarts>>
    BY <1>2, <1>9 DEF FlushClear, JobPc, WriterPcs, disk, log
  <2>2. 0 < MaxSize /\ 0 < MaxSize + EntryLen(CHOOSE v \in Values : TRUE)
    BY <1>3, EntryType
  <2> QED  BY <2>1, <2>2
           DEF FirstLife, FlushedSegmentsReadable, AllIntact, HighestSegmentNumber, MemtableBounded
<1>10. CASE WalAppend
  BY <1>2, <1>10, FirstLifeKept DEF WalAppend, WriterPcs
<1>11. CASE WalAppendError \/ WalAppendPanic
  BY <1>11, FirstLifeKept DEF WalAppendError, WalAppendPanic, WriterRest, WriterDead, disk, log
<1>12. CASE Insert
  <2>1. /\ writer.pc = "insert" /\ writer'.pc = "recv"
        /\ current_size' = current_size + EntryLen(WriteRequest.value)
        /\ UNCHANGED <<poisoned, level_zero, files, restarts>>
    BY <1>12 DEF Insert, WriterRest, disk, log
  <2>2. restarts = 0 => current_size' < MaxSize + EntryLen(CHOOSE v \in Values : TRUE)
    <3>1. WriteRequest.value \in Maybe
      BY <2>1, WriterRequest
    <3>2. restarts = 0 => current_size < MaxSize
      BY <2>1 DEF FirstLife
    <3> QED  BY <1>3, <2>1, <3>1, <3>2, LongestEntry
  <2> QED  BY <2>1, <2>2
           DEF FirstLife, FlushedSegmentsReadable, AllIntact, HighestSegmentNumber, MemtableBounded
<1>13. CASE FinalFlush
  BY <1>13, FirstLifeKept DEF FinalFlush, WriterDead, disk, log
<1> QED  BY <1>4, <1>5, <1>6, <1>7, <1>8, <1>9, <1>10, <1>11, <1>12, <1>13 DEF WriterStep

LEMMA FirstLifeInvariant == Spec => [](Inductive /\ FirstLife)
<1>1. Init => FirstLife
  <2>1. EntryLen(CHOOSE v \in Values : TRUE) \in Nat \ {0}
    BY EntryType
  <2> QED  BY <2>1, EngineAssumption
           DEF Init, FirstLife, FlushedSegmentsReadable, AllIntact, WriterRest,
               HighestSegmentNumber, MemtableBounded
<1>2. ASSUME Inductive, FirstLife, [Next]_vars
      PROVE  FirstLife'
  <2>1. CASE (\E c \in Clients : Invoke(c)) \/ (\E w \in Workers : WorkerStep(w)) \/ Shutdown \/ UNCHANGED vars
    <3>1. UNCHANGED <<poisoned, level_zero, files, table, current_size, restarts, writer>>
      BY <2>1 DEF Invoke, WorkerStep, WorkerRecv, WorkerPanic, WorkerGone, ReadTable, ReadSst,
                  Submit, AwaitDropped, Reply, WorkerExit, Shutdown, memory, disk, log, vars
    <3> QED  BY <1>2, <3>1, FirstLifeKept
  <2>2. CASE WriterStep
    BY <1>2, <2>2, FirstLifeWriter
  <2>3. CASE Stopped \/ Crash
    <3>1. LoseMemory /\ EntryLen(CHOOSE v \in Values : TRUE) \in Nat \ {0}
      BY <2>3, EntryType DEF Stopped, Crash
    <3> QED  BY <3>1, EngineAssumption
             DEF LoseMemory, WriterDead, FirstLife, FlushedSegmentsReadable, AllIntact, MemtableBounded
  <2>4. CASE Restart
    <3>1. restarts' # 0
      BY <1>2, <2>4 DEF Restart, Inductive, TypeOK
    <3> QED  BY <3>1 DEF FirstLife
  <2> QED  BY <1>2, <2>1, <2>2, <2>3, <2>4 DEF Next
<1> QED  BY <1>1, <1>2, InductiveInvariant, PTL DEF Spec

(* The memtable is flushed in time: until the first restart the write worker *)
(* accounts for less than max_size and one entry.                            *)
THEOREM MemtableStaysBounded == Spec => []MemtableBounded
<1>1. FirstLife => MemtableBounded
  BY DEF FirstLife, MemtableBounded
<1> QED  BY <1>1, FirstLifeInvariant, PTL

(* Until the first restart every flush writes a file of its own, and every   *)
(* segment can be read back.                                                 *)
THEOREM FirstLifeReadable == Spec => [](restarts = 0 => FlushedSegmentsReadable)
<1>1. FirstLife => (restarts = 0 => FlushedSegmentsReadable)
  BY DEF FirstLife
<1> QED  BY <1>1, FirstLifeInvariant, PTL
-----------------------------------------------------------------------------
(* The accounts of the write worker                                          *)

ReplayOf(recs) ==
    [k \in Keys |->
        LET S == {i \in 1 .. Len(recs) : recs[i].key = k}
        IN  IF S = {} THEN Absent
            ELSE LET i == CHOOSE j \in S : \A m \in S : m <= j
                 IN  [value |-> recs[i].value, seq |-> i]]

(* A record more replaces the entry of its key.                              *)
LEMMA ReplayAppend ==
    ASSUME NEW recs \in Seq(Record), NEW r \in Record
    PROVE  Replaces(ReplayOf(recs), ReplayOf(Append(recs, r)), r.key, EntryLen(r.value))
<1> DEFINE n == Len(recs)
           more == Append(recs, r)
           S(k) == {i \in 1 .. n : recs[i].key = k}
           T(k) == {i \in 1 .. n + 1 : more[i].key = k}
           last(A) == CHOOSE j \in A : \A m \in A : m <= j
<1>1. n \in Nat /\ Len(more) = n + 1 /\ more[n + 1] = r /\ \A i \in 1 .. n : more[i] = recs[i]
  OBVIOUS
<1> HIDE DEF n, more
<1>2. ASSUME NEW k \in Keys
      PROVE  ReplayOf(recs)[k] = IF S(k) = {} THEN Absent
                                ELSE [value |-> recs[last(S(k))].value, seq |-> last(S(k))]
  BY Zenon DEF ReplayOf, n
<1>3. ASSUME NEW k \in Keys
      PROVE  ReplayOf(more)[k] = IF T(k) = {} THEN Absent
                                 ELSE [value |-> more[last(T(k))].value, seq |-> last(T(k))]
  <2>1. T(k) = {i \in 1 .. Len(more) : more[i].key = k}
    BY <1>1
  <2> HIDE DEF T
  <2> QED  BY <2>1, Zenon DEF ReplayOf
<1>4. ASSUME NEW k \in Keys, k # r.key PROVE ReplayOf(more)[k] = ReplayOf(recs)[k]
  <2>1. T(k) = S(k)
    <3>1. \A i \in T(k) : i # n + 1
      BY <1>1, <1>4
    <3>2. \A i \in 1 .. n + 1 : i # n + 1 => i \in 1 .. n
      BY <1>1
    <3>3. \A i \in 1 .. n : i \in 1 .. n + 1
      BY <1>1
    <3> QED  BY <1>1, <3>1, <3>2, <3>3
  <2>2. CASE S(k) = {}
    BY <1>2, <1>3, <2>1, <2>2
  <2>3. CASE S(k) # {}
    <3>1. S(k) \in SUBSET (0 .. n)
      OBVIOUS
    <3>2. \E m \in S(k) : \A i \in S(k) : i <= m
      <4> HIDE DEF S
      <4> QED  BY <1>1, <2>3, <3>1, MaxExists
    <3>3. last(S(k)) \in S(k)
      <4> HIDE DEF S
      <4> QED  BY <3>2
    <3>4. last(S(k)) \in 1 .. n
      <4> HIDE DEF last
      <4> QED  BY <3>3
    <3>5. more[last(S(k))] = recs[last(S(k))]
      BY <1>1, <3>4
    <3> HIDE DEF S, T, last
    <3> QED  BY <1>2, <1>3, <2>1, <2>3, <3>5
  <2> QED  BY <2>2, <2>3
<1>5. r.key \in Keys /\ EntryLen(r.value) \in Nat
  BY EntryType DEF Record
<1>6. ReplayOf(more)[r.key].value = r.value
  <2> DEFINE A == T(r.key)
  <2>1. n + 1 \in A
    BY <1>1
  <2>2. \A m \in A : m <= n + 1 /\ m \in Nat
    BY <1>1
  <2> HIDE DEF A
  <2>3. last(A) \in A /\ \A m \in A : m <= last(A)
    BY <2>1, <2>2
  <2> HIDE DEF last
  <2>4. last(A) = n + 1
    <3>1. last(A) <= n + 1 /\ last(A) \in Nat /\ n + 1 <= last(A)
      BY <2>1, <2>2, <2>3
    <3> QED  BY <1>1, <3>1
  <2>5. A # {}
    BY <2>1
  <2>6. ReplayOf(more)[r.key] = [value |-> more[last(A)].value, seq |-> last(A)]
    BY <1>3, <1>5, <2>5 DEF A
  <2> QED  BY <1>1, <2>4, <2>6
<1>7. Weight(ReplayOf(more), r.key) <= EntryLen(r.value)
  BY <1>5, <1>6 DEF Weight
<1>8. \A k \in Keys : k # r.key => Weight(ReplayOf(more), k) = Weight(ReplayOf(recs), k)
  BY <1>4 DEF Weight
<1> QED  BY <1>5, <1>7, <1>8 DEF Replaces, more

(* The table and the log are accounted for.                                  *)
Accounted == TableAccounted /\ FileLen(ReplayOf(wal)) <= wal_size

LEMMA AccountedKept ==
    ASSUME Accounted, UNCHANGED <<table, current_size, wal, wal_size>>
    PROVE  Accounted'
BY DEF Accounted, TableAccounted

LEMMA AccountedStep ==
    ASSUME Inductive, Accounted, [Next]_vars
    PROVE  Accounted'
<1>1. /\ current_size \in Nat /\ wal_size \in Nat /\ wal \in Seq(Record) /\ table \in Table
      /\ FileLen(table) <= current_size /\ FileLen(ReplayOf(wal)) <= wal_size
  BY DEF Inductive, TypeOK, Accounted, TableAccounted
<1>2. FileLen(EmptyTable) = 0
  BY EmptyFile DEF EmptyTable, Absent
<1>3. CASE WalAppend
  <2> DEFINE r == [key |-> WriteRequest.key, value |-> WriteRequest.value]
  <2>1. writer.pc = "append" /\ wal' = Append(wal, r) /\ wal_size' = wal_size + EntryLen(r.value)
        /\ UNCHANGED <<table, current_size>>
    BY <1>3 DEF WalAppend
  <2>2. r \in Record
    BY <2>1, WriterRequest DEF Record
  <2> HIDE DEF r
  <2>3. Replaces(ReplayOf(wal), ReplayOf(Append(wal, r)), r.key, EntryLen(r.value))
    BY <1>1, <2>2, ReplayAppend
  <2>4. FileLen(ReplayOf(Append(wal, r))) <= FileLen(ReplayOf(wal)) + EntryLen(r.value)
    BY <2>3, FileGrows
  <2>5. FileLen(ReplayOf(Append(wal, r))) \in Nat /\ FileLen(ReplayOf(wal)) \in Nat /\ EntryLen(r.value) \in Nat
    BY FileNat, EntryType
  <2>6. FileLen(ReplayOf(Append(wal, r))) <= wal_size + EntryLen(r.value)
    BY <1>1, <2>4, <2>5
  <2> QED  BY <1>1, <2>1, <2>6 DEF Accounted, TableAccounted
<1>4. CASE Insert
  <2> DEFINE r == WriteRequest
             u == [table EXCEPT ![r.key] = [value |-> r.value, seq |-> Len(wal)]]
  <2>1. writer.pc = "insert" /\ table' = u /\ current_size' = current_size + EntryLen(r.value)
        /\ UNCHANGED <<wal, wal_size>>
    BY <1>4 DEF Insert, disk, log
  <2>2. r.key \in Keys
    BY <2>1, WriterRequest
  <2>3. EntryLen(r.value) \in Nat
    BY EntryType
  <2>4. DOMAIN table = Keys
    BY <1>1 DEF Table
  <2>5. u[r.key] = [value |-> r.value, seq |-> Len(wal)] /\ \A k \in Keys : k # r.key => u[k] = table[k]
    BY <2>2, <2>4
  <2> HIDE DEF u, r
  <2>6. Replaces(table, u, r.key, EntryLen(r.value))
    <3>1. u[r.key].value = r.value
      BY <2>5
    <3>2. Weight(u, r.key) <= EntryLen(r.value)
      BY <2>3, <3>1 DEF Weight
    <3>3. \A k \in Keys : k # r.key => Weight(u, k) = Weight(table, k)
      BY <2>5 DEF Weight
    <3> QED  BY <2>3, <3>2, <3>3 DEF Replaces
  <2>7. FileLen(u) <= FileLen(table) + EntryLen(r.value)
    BY <2>6, FileGrows
  <2>8. FileLen(u) \in Nat /\ FileLen(table) \in Nat
    BY FileNat
  <2>9. FileLen(u) <= current_size + EntryLen(r.value)
    BY <1>1, <2>3, <2>7, <2>8
  <2> QED  BY <1>1, <2>1, <2>9 DEF Accounted, TableAccounted
<1>5. CASE FlushClear \/ Stopped \/ Crash
  <2>1. table' = EmptyTable /\ current_size' = 0 /\ UNCHANGED <<wal, wal_size>>
    BY <1>5 DEF FlushClear, Stopped, Crash, LoseMemory, disk, log
  <2> QED  BY <1>1, <1>2, <2>1 DEF Accounted, TableAccounted
<1>6. CASE Restart
  <2>1. UNCHANGED <<wal, wal_size>>
    BY <1>6 DEF Restart
  <2>2. CASE damage = 0
    <3>1. table' = Replayed /\ current_size' = wal_size
      BY <1>6, <2>2 DEF Restart
    <3>2. Replayed = ReplayOf(wal)
      BY Zenon DEF Replayed, ReplayOf, LastOf
    <3> QED  BY <1>1, <2>1, <3>1, <3>2 DEF Accounted, TableAccounted
  <2>3. CASE damage # 0
    <3>1. current_size' \in IF IsEmpty(table') THEN {0} ELSE FileLen(table') .. wal_size
      BY <1>6, <2>3 DEF Restart
    <3>2. FileLen(table') <= current_size'
      <4>1. CASE IsEmpty(table')
        <5>1. FileLen(table') = 0
          BY <4>1, EmptyFile DEF IsEmpty
        <5> QED  BY <3>1, <4>1, <5>1
      <4>2. CASE ~IsEmpty(table')
        <5>1. current_size' \in FileLen(table') .. wal_size /\ FileLen(table') \in Nat
          BY <3>1, <4>2, FileNat
        <5> QED  BY <1>1, <5>1
      <4> QED  BY <4>1, <4>2
    <3> QED  BY <1>1, <2>1, <3>2 DEF Accounted, TableAccounted
  <2> QED  BY <2>2, <2>3
<1>7. CASE \/ (\E c \in Clients : Invoke(c)) \/ (\E w \in Workers : WorkerStep(w))
           \/ Shutdown \/ UNCHANGED vars
  <2>1. UNCHANGED <<table, current_size, wal, wal_size>>
    BY <1>7 DEF Invoke, WorkerStep, WorkerRecv, WorkerPanic, WorkerGone, ReadTable, ReadSst,
                Submit, AwaitDropped, Reply, WorkerExit, Shutdown, memory, disk, log, vars
  <2> QED  BY <2>1, AccountedKept
<1>8. CASE \/ WriterRecv \/ FlushOpen \/ FlushWrite \/ FlushAdd \/ FlushError
           \/ WalAppendError \/ WalAppendPanic \/ FinalFlush
  <2>1. UNCHANGED <<table, current_size, wal, wal_size>>
    BY <1>8 DEF WriterRecv, FlushOpen, FlushWrite, FlushAdd, FlushError, WalAppendError,
                WalAppendPanic, FinalFlush, disk, log
  <2> QED  BY <2>1, AccountedKept
<1> QED  BY <1>3, <1>4, <1>5, <1>6, <1>7, <1>8 DEF Next, WriterStep

(* WriteWorker::put and delete add the length of every entry they write to   *)
(* current_size, an overwritten one's is never taken off, and a restart      *)
(* takes over the size of what it replays: a flush never has more to write  *)
(* than the write worker has counted, in every life of the process.          *)
THEOREM TableStaysAccounted == Spec => []TableAccounted
<1>1. Init => Accounted
  <2> SUFFICES ASSUME Init PROVE Accounted
    OBVIOUS
  <2>1. table = EmptyTable /\ current_size = 0 /\ wal = <<>> /\ wal_size = 0
    BY DEF Init
  <2>2. FileLen(EmptyTable) = 0
    BY EmptyFile DEF EmptyTable, Absent
  <2>3. \A k \in Keys : ReplayOf(<<>>)[k].seq = 0
    BY DEF ReplayOf, Absent
  <2>4. FileLen(ReplayOf(<<>>)) = 0
    BY <2>3, EmptyFile
  <2> QED  BY <2>1, <2>2, <2>4 DEF Accounted, TableAccounted
<1>2. Accounted => TableAccounted
  BY DEF Accounted
<1> QED  BY <1>1, <1>2, AccountedStep, InductiveInvariant, PTL DEF Spec
=============================================================================
