---------------------------- MODULE MergeProofs ----------------------------
(***************************************************************************)
(* What a merge makes of the files of a level, for segments of any number  *)
(* and length and every size of the read buffers                           *)
(* (storage_engine/sstable/level.rs).                                      *)
(*                                                                         *)
(* From what merge_sort takes from its buffers (SegmentProofs) outwards:   *)
(* pass by pass the entries move from the readers to the output, each once,*)
(* and none is left out but for one that is not older (Wrote, Flow); they  *)
(* are split among files (Distributed), whose segments are sorted into the *)
(* level (Arranged).                                                       *)
(***************************************************************************)
EXTENDS SegmentProofs

-----------------------------------------------------------------------------
(* merge_and_write                                                         *)

LEMMA SamePlace ==
    ASSUME NEW bufs, BufsOK(bufs), NEW i \in 1 .. Len(bufs), NEW j \in 1 .. Len(bufs),
           NEW p, NEW q, p \in 1 .. Len(bufs[i]), q \in 1 .. Len(bufs[j]), bufs[i][p] = bufs[j][q]
    PROVE  i = j /\ p = q
BY DEF BufsOK

(* No two entries have the same key and sequence number.                     *)
Numbered(E) ==
    E \subseteq EntryType /\ \A d, e \in E : d.key = e.key /\ d.seq = e.seq => d = e

NewestIn(E, e) == e \in E /\ \A d \in E : d.key = e.key => d.seq <= e.seq

Fit(E, max) == \A e \in E : e.size <= max

(* The entries on their way from the segments merged to the new files: us is *)
(* what has not been taken from each reader, out what has been written.  No  *)
(* entry is in two places, and the newest of its key is in one.              *)
Flow(E, max, out, us) ==
    /\ BufsOK(us) /\ out \in Seq(EntryType)
    /\ \A a \in 1 .. Len(out) : out[a] \in E
    /\ \A i \in 1 .. Len(us) : \A p \in 1 .. Len(us[i]) : us[i][p] \in E
    /\ \A a, b \in 1 .. Len(out) : out[a] = out[b] => a = b
    /\ \A a \in 1 .. Len(out), i \in 1 .. Len(us) : \A p \in 1 .. Len(us[i]) : out[a] # us[i][p]
    /\ Fit(E, max) => \A e : NewestIn(E, e) =>
          \/ \E a \in 1 .. Len(out) : out[a] = e
          \/ \E i \in 1 .. Len(us) : \E p \in 1 .. Len(us[i]) : us[i][p] = e

LEMMA FlowTakes ==
    ASSUME NEW E, Numbered(E), NEW max, NEW out, NEW us, Flow(E, max, out, us),
           NEW k, Counts(us, k), NEW more, Wrote(us, Nothing(us), k, more)
    PROVE  Flow(E, max, out \o more, Remaining(us, k))
<1> DEFINE u == out \o more
           vs == Remaining(us, k)
<1>1. BufsOK(us) /\ out \in Seq(EntryType) /\ more \in Seq(EntryType)
      /\ Len(out) \in Nat /\ Len(more) \in Nat
  BY LenProperties DEF Flow, Wrote
<1>2. /\ u \in Seq(EntryType) /\ Len(u) = Len(out) + Len(more)
      /\ \A a \in 1 .. Len(out) + Len(more) : u[a] = IF a <= Len(out) THEN out[a] ELSE more[a - Len(out)]
  BY <1>1, ConcatProperties
<1>3. \A a \in 1 .. Len(u) :
         \/ a \in 1 .. Len(out) /\ u[a] = out[a]
         \/ a - Len(out) \in 1 .. Len(more) /\ u[a] = more[a - Len(out)]
  BY <1>1, <1>2
<1>4. /\ \A a \in 1 .. Len(out) : a \in 1 .. Len(u) /\ u[a] = out[a]
      /\ \A a \in 1 .. Len(more) : a + Len(out) \in 1 .. Len(u) /\ u[a + Len(out)] = more[a]
  <2>1. ASSUME NEW a \in 1 .. Len(more)
        PROVE  a + Len(out) \in 1 .. Len(u) /\ u[a + Len(out)] = more[a]
    <3>1. a + Len(out) \in 1 .. Len(out) + Len(more) /\ ~(a + Len(out) <= Len(out))
          /\ (a + Len(out)) - Len(out) = a
      BY <1>1
    <3> QED  BY <1>2, <3>1
  <2> QED  BY <1>1, <1>2, <2>1
<1> HIDE DEF u
<1>5. /\ vs \in Seq(Seq(EntryType)) /\ Len(vs) = Len(us) /\ Len(us) \in Nat
      /\ \A i \in 1 .. Len(us) :
            /\ Len(vs[i]) = Len(us[i]) - k[i] /\ k[i] \in 0 .. Len(us[i]) /\ Len(us[i]) \in Nat
            /\ \A p \in 1 .. Len(us[i]) - k[i] : vs[i][p] = us[i][k[i] + p]
  BY <1>1, RemainingIs, BufsTyped
<1> HIDE DEF vs
<1>6. \A i \in 1 .. Len(vs) : \A p \in 1 .. Len(vs[i]) :
         i \in 1 .. Len(us) /\ k[i] + p \in 1 .. Len(us[i]) /\ k[i] < k[i] + p /\ vs[i][p] = us[i][k[i] + p]
  <2> SUFFICES ASSUME NEW i \in 1 .. Len(vs), NEW p \in 1 .. Len(vs[i])
               PROVE  i \in 1 .. Len(us) /\ k[i] + p \in 1 .. Len(us[i]) /\ k[i] < k[i] + p
                      /\ vs[i][p] = us[i][k[i] + p]
    OBVIOUS
  <2>1. i \in 1 .. Len(us)
    BY <1>5
  <2>2. Len(vs[i]) = Len(us[i]) - k[i] /\ k[i] \in 0 .. Len(us[i]) /\ Len(us[i]) \in Nat
    BY <1>5, <2>1
  <2>3. p \in 1 .. Len(us[i]) - k[i]
    BY <2>2
  <2>4. vs[i][p] = us[i][k[i] + p]
    BY <1>5, <2>1, <2>3, Zenon
  <2>5. k[i] + p \in 1 .. Len(us[i]) /\ k[i] < k[i] + p
    BY <2>2, <2>3
  <2> QED  BY <2>1, <2>4, <2>5, Zenon
<1>7. \A a \in 1 .. Len(more) : \E i \in 1 .. Len(us) : \E p \in 1 .. Len(us[i]) :
         p <= k[i] /\ more[a] = us[i][p]
  <2> SUFFICES ASSUME NEW a \in 1 .. Len(more)
               PROVE  \E i \in 1 .. Len(us) : \E p \in 1 .. Len(us[i]) : p <= k[i] /\ more[a] = us[i][p]
    OBVIOUS
  <2>1. PICK i \in 1 .. Len(us), p \in Nat : Nothing(us)[i] < p /\ p <= k[i] /\ more[a] = us[i][p]
    BY DEF Wrote
  <2>2. Nothing(us)[i] = 0 /\ k[i] \in 0 .. Len(us[i]) /\ Len(us[i]) \in Nat
    BY <1>5 DEF Nothing
  <2>3. p \in 1 .. Len(us[i])
    BY <2>1, <2>2
  <2> QED  BY <2>1, <2>3
<1>8. BufsOK(vs)
  <2>1. ASSUME NEW i \in 1 .. Len(vs), NEW j \in 1 .. Len(vs),
               NEW p \in 1 .. Len(vs[i]), NEW q \in 1 .. Len(vs[j]), vs[i][p] = vs[j][q]
        PROVE  i = j /\ p = q
    <3>1. /\ i \in 1 .. Len(us) /\ k[i] + p \in 1 .. Len(us[i]) /\ vs[i][p] = us[i][k[i] + p]
          /\ j \in 1 .. Len(us) /\ k[j] + q \in 1 .. Len(us[j]) /\ vs[j][q] = us[j][k[j] + q]
      BY <1>6
    <3>2. i = j /\ k[i] + p = k[j] + q
      <4> DEFINE x == k[i] + p
                 y == k[j] + q
      <4>1. /\ i \in 1 .. Len(us) /\ x \in 1 .. Len(us[i]) /\ j \in 1 .. Len(us) /\ y \in 1 .. Len(us[j])
            /\ us[i][x] = us[j][y]
        BY <2>1, <3>1
      <4> HIDE DEF x, y
      <4>2. i = j /\ x = y
        BY <1>1, <4>1 DEF BufsOK
      <4> QED  BY <4>2 DEF x, y
    <3>3. k[i] \in Nat /\ p \in Int /\ q \in Int
      <4>1. k[i] \in 0 .. Len(us[i]) /\ Len(us[i]) \in Nat
        BY <1>5, <3>1
      <4> QED  BY <4>1
    <3> QED  BY <3>2, <3>3
  <2> QED  BY <1>5, <2>1 DEF BufsOK
<1>9. \A a \in 1 .. Len(u) : u[a] \in E
  <2>1. \A a \in 1 .. Len(more) : more[a] \in E
    <3>1. \A i \in 1 .. Len(us) : \A p \in 1 .. Len(us[i]) : us[i][p] \in E
      BY DEF Flow
    <3> QED  BY <1>7, <3>1
  <2>2. \A a \in 1 .. Len(out) : out[a] \in E
    BY DEF Flow
  <2> QED  BY <1>3, <2>1, <2>2
<1>10. \A i \in 1 .. Len(vs) : \A p \in 1 .. Len(vs[i]) : vs[i][p] \in E
  <2>1. \A i \in 1 .. Len(us) : \A p \in 1 .. Len(us[i]) : us[i][p] \in E
    BY DEF Flow
  <2> QED  BY <1>6, <2>1
<1>11. \A a \in 1 .. Len(out), i \in 1 .. Len(us) : \A p \in 1 .. Len(us[i]) : out[a] # us[i][p]
  BY DEF Flow
<1>12. \A a \in 1 .. Len(out), b \in 1 .. Len(more) : out[a] # more[b]
  BY <1>7, <1>11
<1>13. \A a, b \in 1 .. Len(u) : u[a] = u[b] => a = b
  <2> SUFFICES ASSUME NEW a \in 1 .. Len(u), NEW b \in 1 .. Len(u), u[a] = u[b] PROVE a = b
    OBVIOUS
  <2>1. /\ \A x, y \in 1 .. Len(out) : out[x] = out[y] => x = y
        /\ \A x, y \in 1 .. Len(more) : more[x] = more[y] => x = y
    BY DEF Flow, Wrote
  <2>2. CASE a \in 1 .. Len(out) /\ u[a] = out[a] /\ b \in 1 .. Len(out) /\ u[b] = out[b]
    BY <2>1, <2>2
  <2>3. CASE /\ a - Len(out) \in 1 .. Len(more) /\ u[a] = more[a - Len(out)]
             /\ b - Len(out) \in 1 .. Len(more) /\ u[b] = more[b - Len(out)]
    <3>1. a - Len(out) = b - Len(out)
      BY <2>1, <2>3
    <3>2. a \in Int /\ b \in Int
      BY <1>1, <1>2
    <3> QED  BY <1>1, <3>1, <3>2
  <2>4. CASE a \in 1 .. Len(out) /\ u[a] = out[a] /\ b - Len(out) \in 1 .. Len(more)
             /\ u[b] = more[b - Len(out)]
    BY <1>12, <2>4
  <2>5. CASE b \in 1 .. Len(out) /\ u[b] = out[b] /\ a - Len(out) \in 1 .. Len(more)
             /\ u[a] = more[a - Len(out)]
    BY <1>12, <2>5
  <2> QED  BY <1>3, <2>2, <2>3, <2>4, <2>5
<1>14. \A b \in 1 .. Len(more), i \in 1 .. Len(vs) : \A p \in 1 .. Len(vs[i]) : more[b] # vs[i][p]
  <2> SUFFICES ASSUME NEW b \in 1 .. Len(more), NEW i \in 1 .. Len(vs), NEW p \in 1 .. Len(vs[i]),
                      more[b] = vs[i][p]
               PROVE  FALSE
    OBVIOUS
  <2>1. i \in 1 .. Len(us) /\ k[i] + p \in 1 .. Len(us[i]) /\ k[i] < k[i] + p /\ vs[i][p] = us[i][k[i] + p]
    BY <1>6
  <2>2. PICK j \in 1 .. Len(us) : \E q \in 1 .. Len(us[j]) : q <= k[j] /\ more[b] = us[j][q]
    BY <1>7
  <2>3. PICK q \in 1 .. Len(us[j]) : q <= k[j] /\ more[b] = us[j][q]
    BY <2>2
  <2>4. i = j /\ k[i] + p = q
    <3> DEFINE x == k[i] + p
    <3>1. /\ i \in 1 .. Len(us) /\ x \in 1 .. Len(us[i]) /\ j \in 1 .. Len(us) /\ q \in 1 .. Len(us[j])
          /\ us[i][x] = us[j][q]
      BY <2>1, <2>3
    <3> HIDE DEF x
    <3>2. i = j /\ x = q
      BY <1>1, <3>1, SamePlace
    <3> QED  BY <3>2 DEF x
  <2>5. k[i] \in Nat /\ q \in Nat /\ k[i] < q /\ q <= k[i]
    BY <1>5, <2>1, <2>3, <2>4
  <2> QED  BY <2>5
<1>15. ASSUME NEW a \in 1 .. Len(u), NEW i \in 1 .. Len(vs), NEW p \in 1 .. Len(vs[i])
       PROVE  u[a] # vs[i][p]
  <2> DEFINE x == k[i] + p
  <2>1. i \in 1 .. Len(us) /\ x \in 1 .. Len(us[i]) /\ vs[i][p] = us[i][x]
    BY <1>6
  <2> HIDE DEF x
  <2>2. CASE a \in 1 .. Len(out) /\ u[a] = out[a]
    BY <1>11, <2>1, <2>2
  <2> DEFINE b == a - Len(out)
  <2>3. CASE b \in 1 .. Len(more) /\ u[a] = more[b]
    <3> HIDE DEF b
    <3> QED  BY <1>14, <2>3
  <2> QED  BY <1>3, <2>2, <2>3
<1>16. ASSUME Fit(E, max), NEW e, NewestIn(E, e)
       PROVE  \/ \E a \in 1 .. Len(u) : u[a] = e
              \/ \E i \in 1 .. Len(vs) : \E p \in 1 .. Len(vs[i]) : vs[i][p] = e
  <2>1. \/ \E a \in 1 .. Len(out) : out[a] = e
        \/ \E i \in 1 .. Len(us) : \E p \in 1 .. Len(us[i]) : us[i][p] = e
    BY <1>16 DEF Flow
  <2>2. CASE \E a \in 1 .. Len(out) : out[a] = e
    BY <1>4, <2>2
  <2>3. CASE \E i \in 1 .. Len(us) : \E p \in 1 .. Len(us[i]) : us[i][p] = e
    <3>1. PICK i \in 1 .. Len(us) : \E p \in 1 .. Len(us[i]) : us[i][p] = e
      BY <2>3
    <3>2. PICK p \in 1 .. Len(us[i]) : us[i][p] = e
      BY <3>1
    <3>3. k[i] \in 0 .. Len(us[i]) /\ Len(us[i]) \in Nat /\ Nothing(us)[i] = 0
      BY <1>5 DEF Nothing
    <3>4. CASE p <= k[i]
      <4>1. Nothing(us)[i] < p /\ p \in Nat
        BY <3>3
      <4>2. PICK a \in 1 .. Len(more) : more[a].key = us[i][p].key /\ us[i][p].seq <= more[a].seq
        BY <3>4, <4>1 DEF Wrote
      <4>3. more[a] \in E /\ e \in E
        BY <1>4, <1>9, <1>16 DEF NewestIn
      <4>4. more[a].seq <= e.seq /\ more[a].seq \in Nat /\ e.seq \in Nat
        <5>1. \A d \in E : d.key = e.key => d.seq <= e.seq
          BY <1>16 DEF NewestIn
        <5>2. \A d \in E : d.seq \in Nat
          BY DEF Numbered, EntryType
        <5> QED  BY <3>2, <4>2, <4>3, <5>1, <5>2
      <4>5. more[a].seq = e.seq /\ more[a].key = e.key
        BY <3>2, <4>2, <4>4
      <4>6. more[a] = e
        BY <4>3, <4>5 DEF Numbered
      <4> QED  BY <1>4, <4>6
    <3>5. CASE ~(p <= k[i])
      <4>1. p - k[i] \in 1 .. Len(us[i]) - k[i] /\ k[i] + (p - k[i]) = p
        BY <3>3, <3>5
      <4>2. i \in 1 .. Len(vs) /\ p - k[i] \in 1 .. Len(vs[i]) /\ vs[i][p - k[i]] = us[i][p]
        BY <1>5, <4>1
      <4> QED  BY <3>2, <4>2
    <3> QED  BY <3>4, <3>5
  <2> QED  BY <2>1, <2>2, <2>3
<1> QED  BY <1>2, <1>8, <1>9, <1>10, <1>13, <1>15, <1>16 DEF Flow, u, vs

(* The read buffers.                                                        *)
ReaderType == [rest : Seq(EntryType), buf : Seq(EntryType)]

Unread(b) == b.buf \o b.rest

UnreadOf(readers) == [i \in DOMAIN readers |-> Unread(readers[i])]

Roomy(b, max) == b \in ReaderType /\ DataSize(b.buf) <= max

ReadersOK(readers, max) ==
    readers \in Seq(ReaderType) /\ \A i \in 1 .. Len(readers) : DataSize(readers[i].buf) <= max

LEMMA UnreadTyped ==
    ASSUME NEW b \in ReaderType
    PROVE  /\ b.buf \in Seq(EntryType) /\ b.rest \in Seq(EntryType) /\ Unread(b) \in Seq(EntryType)
           /\ Len(b.buf) \in Nat /\ Len(b.rest) \in Nat /\ Len(Unread(b)) = Len(b.buf) + Len(b.rest)
           /\ \A p \in 1 .. Len(b.buf) : p \in 1 .. Len(Unread(b)) /\ Unread(b)[p] = b.buf[p]
           /\ \A p \in 1 .. Len(b.rest) : /\ Len(b.buf) + p \in 1 .. Len(Unread(b))
                                          /\ Unread(b)[Len(b.buf) + p] = b.rest[p]
<1> DEFINE s == b.buf
           t == b.rest
           u == s \o t
<1>1. s \in Seq(EntryType) /\ t \in Seq(EntryType)
  BY DEF ReaderType
<1>2. Unread(b) = u
  BY DEF Unread
<1> HIDE DEF s, t
<1>3. Len(s) \in Nat /\ Len(t) \in Nat
  BY <1>1, LenProperties
<1>4. /\ u \in Seq(EntryType) /\ Len(u) = Len(s) + Len(t)
      /\ \A i \in 1 .. Len(s) + Len(t) : u[i] = IF i <= Len(s) THEN s[i] ELSE t[i - Len(s)]
  BY <1>1, ConcatProperties
<1> HIDE DEF u
<1>5. ASSUME NEW p \in 1 .. Len(t) PROVE Len(s) + p \in 1 .. Len(u) /\ u[Len(s) + p] = t[p]
  <2>1. Len(s) + p \in 1 .. Len(s) + Len(t) /\ ~(Len(s) + p <= Len(s)) /\ (Len(s) + p) - Len(s) = p
    BY <1>3
  <2> QED  BY <1>4, <2>1
<1>6. \A p \in 1 .. Len(s) : p \in 1 .. Len(u) /\ u[p] = s[p]
  BY <1>3, <1>4
<1> QED  BY <1>1, <1>2, <1>3, <1>4, <1>5, <1>6 DEF s, t

LEMMA CutFirst ==
    ASSUME NEW s \in Seq(EntryType), Len(s) > 0
    PROVE  Cut(s, 0, 1) = <<s[1]>> /\ s[1] \in EntryType
<1>1. Len(s) \in Nat /\ 1 \in 1 .. Len(s)
  BY LenProperties
<1>2. s[1] \in EntryType
  BY <1>1, ElementOfSeq
<1>3. IsCut(Cut(s, 0, 1), EntryType, s, 0, 1)
  BY <1>1, CutIs
<1> DEFINE u == Cut(s, 0, 1)
<1>4. u \in Seq(EntryType) /\ Len(u) = 1 /\ u[1] = s[1]
  <2> HIDE DEF u
  <2>1. IsCut(u, EntryType, s, 0, 1)
    BY <1>3 DEF u
  <2>2. u \in Seq(EntryType) /\ Len(u) = 1 - 0 /\ \A p \in 1 .. 1 - 0 : u[p] = s[0 + p]
    BY <2>1 DEF IsCut
  <2>3. 1 - 0 = 1 /\ 0 + 1 = 1 /\ 1 \in 1 .. 1
    OBVIOUS
  <2> QED  BY <2>2, <2>3
<1> HIDE DEF u
<1>5. <<s[1]>> \in Seq(EntryType) /\ Len(<<s[1]>>) = 1 /\ <<s[1]>>[1] = s[1]
  BY <1>2
<1> DEFINE v == <<s[1]>>
<1>6. v \in Seq(EntryType) /\ Len(v) = 1 /\ v[1] = s[1]
  BY <1>5
<1> HIDE DEF v
<1>7. \A i \in 1 .. Len(u) : u[i] = v[i]
  BY <1>4, <1>6
<1>8. u = v
  BY <1>4, <1>6, <1>7, SeqEqual
<1> QED  BY <1>2, <1>8 DEF u, v

LEMMA CutJoins ==
    ASSUME NEW s \in Seq(EntryType), NEW n \in 0 .. Len(s)
    PROVE  Cut(s, 0, n) \o Cut(s, n, Len(s)) = s
<1>1. Len(s) \in Nat /\ 1 \in 1 .. Len(s) + 1 /\ n \in 1 - 1 .. Len(s) /\ Len(s) \in n .. Len(s)
  BY LenProperties
<1>2. SubSeq(s, 1, n) \o SubSeq(s, n + 1, Len(s)) = SubSeq(s, 1, Len(s))
  BY <1>1, ConcatAdjacentSubSeq
<1>3. 0 + 1 = 1
  OBVIOUS
<1> QED  BY <1>2, <1>3, SubSeqFull DEF Cut

LEMMA FillKeeps ==
    ASSUME NEW max \in Nat, NEW b, Roomy(b, max)
    PROVE  /\ Roomy(fill(b, max), max) /\ Unread(fill(b, max)) = Unread(b)
           /\ fill(b, max).buf = <<>> /\ (\A p \in 1 .. Len(Unread(b)) : Unread(b)[p].size <= max)
                => Len(Unread(b)) = 0
<1> DEFINE s == b.buf
           t == b.rest
           free == max - DataSize(s)
           N == {i \in 0 .. Len(t) : DataSize(SubSeq(t, 1, i)) <= free}
           n == Max(N)
           x == Cut(t, 0, n)
           y == Cut(t, n, Len(t))
<1>1. /\ s \in Seq(EntryType) /\ t \in Seq(EntryType) /\ DataSize(s) <= max
      /\ Len(s) \in Nat /\ Len(t) \in Nat /\ Len(Unread(b)) = Len(s) + Len(t) /\ Unread(b) = s \o t
      /\ \A p \in 1 .. Len(t) : /\ Len(s) + p \in 1 .. Len(Unread(b))
                                /\ Unread(b)[Len(s) + p] = t[p]
  BY UnreadTyped DEF Roomy, Unread
<1>2. fill(b, max) = [rest |-> y, buf |-> s \o x]
  <2>1. 0 + 1 = 1
    OBVIOUS
  <2> QED  BY <2>1 DEF fill, Cut
<1> HIDE DEF s, t
<1>3. DataSize(s) \in Nat /\ free \in Nat
  <2>1. DataSize(s) \in Nat
    BY <1>1, SizesTyped
  <2> QED  BY <1>1, <2>1
<1>4. \A i \in 0 .. Len(t) : i \in N <=> DataSize(Cut(t, 0, i)) <= free
  <2>1. 0 + 1 = 1
    OBVIOUS
  <2> QED  BY <2>1 DEF Cut
<1>5. 0 \in N
  <2>1. 0 \in 0 .. Len(t)
    BY <1>1
  <2>2. IsCut(Cut(t, 0, 0), EntryType, t, 0, 0)
    BY <1>1, CutIs
  <2>3. Cut(t, 0, 0) \in Seq(EntryType) /\ Len(Cut(t, 0, 0)) = 0 - 0
    BY <2>2 DEF IsCut
  <2>4. Cut(t, 0, 0) = <<>>
    <3> DEFINE u == Cut(t, 0, 0)
    <3>1. u \in Seq(EntryType) /\ Len(u) = 0 - 0
      BY <2>3
    <3> HIDE DEF u
    <3>2. Len(u) = 0
      BY <3>1
    <3>3. u = <<>>
      BY <3>1, <3>2, EmptySeq
    <3> QED  BY <3>3 DEF u
  <2>5. DataSize(Cut(t, 0, 0)) <= free
    BY <1>3, <2>4, DataFew
  <2> HIDE DEF free, N
  <2> QED  BY <1>4, <2>1, <2>5
<1>6. n \in N /\ (\A i \in N : i <= n) /\ n \in 0 .. Len(t)
  <2>1. N \in SUBSET (0 .. Len(t))
    OBVIOUS
  <2> HIDE DEF N
  <2> QED  BY <1>1, <1>5, <2>1, MaxGreatest
<1> HIDE DEF N, n
<1>7. x \in Seq(EntryType) /\ Len(x) = n
  <2>1. IsCut(x, EntryType, t, 0, n)
    BY <1>1, <1>6, CutIs
  <2>2. x \in Seq(EntryType) /\ Len(x) = n - 0
    BY <2>1 DEF IsCut
  <2> QED  BY <1>6, <2>2
<1>8. y \in Seq(EntryType)
  <2>1. IsCut(y, EntryType, t, n, Len(t))
    BY <1>1, <1>6, CutIs
  <2> QED  BY <2>1 DEF IsCut
<1>9. x \o y = t
  BY <1>1, <1>6, CutJoins
<1>10. DataSize(x) <= free /\ DataSize(x) \in Nat
  BY <1>4, <1>6, <1>7, SizesTyped
<1> HIDE DEF x, y
<1>11. (s \o x) \o y = s \o t
  <2>1. (s \o x) \o y = s \o (x \o y)
    BY <1>1, <1>7, <1>8, EntriesAssociate
  <2> QED  BY <1>9, <2>1
<1>12. s \o x \in Seq(EntryType) /\ Len(s \o x) = Len(s) + Len(x)
  BY <1>1, <1>7, ConcatProperties
<1>13. DataSize(s \o x) <= max
  <2>1. DataSize(s \o x) = DataSize(s) + DataSize(x)
    BY <1>1, <1>7, DataConcat
  <2> QED  BY <1>3, <1>10, <2>1
<1> DEFINE c == fill(b, max)
           z == s \o x
<1>14. c = [rest |-> y, buf |-> z]
  BY <1>2
<1>15. z \in Seq(EntryType) /\ DataSize(z) <= max /\ Len(z) = Len(s) + n
  BY <1>7, <1>12, <1>13
<1>16. Unread(c) = Unread(b)
  <2>1. Unread(c) = z \o y
    BY <1>14 DEF Unread
  <2> QED  BY <1>1, <1>11, <2>1
<1> HIDE DEF c, z, free
<1>17. Roomy(c, max)
  BY <1>8, <1>14, <1>15 DEF Roomy, ReaderType
<1>18. ASSUME c.buf = <<>>, \A p \in 1 .. Len(Unread(b)) : Unread(b)[p].size <= max
       PROVE  Len(Unread(b)) = 0
  <2>1. Len(z) = 0
    <3>1. z = <<>>
      BY <1>14, <1>18
    <3> QED  BY <3>1, EmptySeq
  <2>2. Len(s) = 0 /\ n = 0
    <3>1. Len(s) \in Nat /\ n \in Nat
      BY <1>1, <1>6
    <3>2. Len(s) + n = 0
      BY <1>15, <2>1, Zenon
    <3> QED  BY <3>1, <3>2
  <2>3. SUFFICES ASSUME Len(t) > 0 PROVE FALSE
    BY <1>1, <2>2
  <2>4. Cut(t, 0, 1) = <<t[1]>> /\ t[1] \in EntryType
    BY <1>1, <2>3, CutFirst
  <2>5. t[1].size <= max
    <3>1. 1 \in 1 .. Len(t)
      BY <1>1, <2>3
    <3>2. Len(s) + 1 \in 1 .. Len(Unread(b)) /\ Unread(b)[Len(s) + 1] = t[1]
      BY <1>1, <3>1
    <3> QED  BY <1>18, <3>2
  <2>6. DataSize(s) = 0
    <3>1. s = <<>>
      BY <1>1, <2>2, EmptySeq
    <3> QED  BY <3>1, DataFew
  <2>7. DataSize(Cut(t, 0, 1)) <= free
    <3>1. DataSize(Cut(t, 0, 1)) = t[1].size
      BY <2>4, DataFew
    <3>2. max - 0 = max
      OBVIOUS
    <3> QED  BY <2>5, <2>6, <3>1, <3>2 DEF free
  <2>8. 1 \in N
    BY <1>1, <1>4, <2>3, <2>7
  <2> QED  BY <1>6, <2>2, <2>8
<1> QED  BY <1>16, <1>17, <1>18 DEF c

(* vs are some of the buffers us.                                            *)
SomeOf(vs, us, f) ==
    /\ \A i \in 1 .. Len(vs) : f[i] \in 1 .. Len(us) /\ vs[i] = us[f[i]]
    /\ \A i, j \in 1 .. Len(vs) : f[i] = f[j] => i = j

LEMMA BufsPicked ==
    ASSUME NEW us, BufsOK(us), NEW f, NEW vs \in Seq(Seq(EntryType)), SomeOf(vs, us, f)
    PROVE  BufsOK(vs)
<1>1. ASSUME NEW i \in 1 .. Len(vs), NEW j \in 1 .. Len(vs), NEW k \in 1 .. Len(vs[i]),
             NEW m \in 1 .. Len(vs[j]), vs[i][k] = vs[j][m]
      PROVE  i = j /\ k = m
  <2> DEFINE x == f[i]
             y == f[j]
  <2>1. x \in 1 .. Len(us) /\ y \in 1 .. Len(us) /\ vs[i] = us[x] /\ vs[j] = us[y]
    BY DEF SomeOf
  <2>2. x = y => i = j
    BY DEF SomeOf
  <2> HIDE DEF x, y
  <2>3. k \in 1 .. Len(us[x]) /\ m \in 1 .. Len(us[y]) /\ us[x][k] = us[y][m]
    BY <1>1, <2>1
  <2>4. x \in 1 .. Len(us) /\ y \in 1 .. Len(us)
    BY <2>1
  <2>5. x = y /\ k = m
    <3>1. \A a \in 1 .. Len(us), b \in 1 .. Len(us) : \A c \in 1 .. Len(us[a]), d \in 1 .. Len(us[b]) :
             us[a][c] = us[b][d] => a = b /\ c = d
      BY DEF BufsOK
    <3>2. \A c \in 1 .. Len(us[x]), d \in 1 .. Len(us[y]) : us[x][c] = us[y][d] => x = y /\ c = d
      BY <2>4, <3>1
    <3>3. us[x][k] = us[y][m] => x = y /\ k = m
      BY <2>3, <3>2
    <3> QED  BY <2>3, <3>3
  <2> QED  BY <2>2, <2>5
<1> QED  BY <1>1 DEF BufsOK

(* Some of the readers: the others have nothing left to take, if every entry *)
(* fits.                                                                    *)
LEMMA FlowPicked ==
    ASSUME NEW E, NEW max, NEW out, NEW us, Flow(E, max, out, us), NEW P \in SUBSET (1 .. Len(us)),
           Fit(E, max) => \A i \in 1 .. Len(us) : i \notin P => Len(us[i]) = 0,
           NEW f, NEW n \in Nat, Picks(f, n, P),
           NEW vs, vs = [j \in 1 .. n |-> us[f[j]]]
    PROVE  Flow(E, max, out, vs)
<1>1. BufsOK(us) /\ Len(us) \in Nat
  BY BufsTyped DEF Flow
<1>2. \A i \in 1 .. Len(us) : us[i] \in Seq(EntryType) /\ Len(us[i]) \in Nat
  BY <1>1, BufsTyped
<1>3. \A j \in 1 .. n : f[j] \in 1 .. Len(us) /\ f[j] \in Nat /\ vs[j] = us[f[j]]
  <2>1. \A j \in 1 .. n : f[j] \in P
    BY DEF Picks
  <2>2. \A j \in 1 .. n : f[j] \in 1 .. Len(us)
    BY <2>1
  <2>3. \A i \in 1 .. Len(us) : i \in Nat
    BY <1>1
  <2> QED  BY <2>2, <2>3
<1>4. vs \in Seq(Seq(EntryType)) /\ Len(vs) = n
  <2>1. \A j \in 1 .. n : us[f[j]] \in Seq(EntryType)
    BY <1>2, <1>3
  <2> QED  BY <2>1
<1>5. \A i, j \in 1 .. n : f[i] = f[j] => i = j
  <2>1. SUFFICES ASSUME NEW i \in 1 .. n, NEW j \in 1 .. n, f[i] = f[j], i # j PROVE FALSE
    OBVIOUS
  <2>2. i < j \/ j < i
    BY <2>1
  <2>3. f[i] < f[j] \/ f[j] < f[i]
    BY <2>2 DEF Picks
  <2> QED  BY <1>3, <2>1, <2>3
<1>6. BufsOK(vs)
  <2>1. SomeOf(vs, us, f)
    BY <1>3, <1>4, <1>5 DEF SomeOf
  <2> QED  BY <1>1, <1>4, <2>1, BufsPicked
<1>7. \A i \in 1 .. Len(vs) : i \in 1 .. n /\ f[i] \in 1 .. Len(us) /\ vs[i] = us[f[i]]
  BY <1>3, <1>4
<1>8. /\ out \in Seq(EntryType)
      /\ \A a \in 1 .. Len(out) : out[a] \in E
      /\ \A a, b \in 1 .. Len(out) : out[a] = out[b] => a = b
  BY DEF Flow
<1>9. \A i \in 1 .. Len(vs) : \A p \in 1 .. Len(vs[i]) : vs[i][p] \in E
  <2>1. \A i \in 1 .. Len(us) : \A p \in 1 .. Len(us[i]) : us[i][p] \in E
    BY DEF Flow
  <2> QED  BY <1>7, <2>1
<1>10. \A a \in 1 .. Len(out), i \in 1 .. Len(vs) : \A p \in 1 .. Len(vs[i]) : out[a] # vs[i][p]
  <2>1. \A a \in 1 .. Len(out), i \in 1 .. Len(us) : \A p \in 1 .. Len(us[i]) : out[a] # us[i][p]
    BY DEF Flow
  <2> QED  BY <1>7, <2>1
<1>11. ASSUME Fit(E, max), NEW e, NewestIn(E, e)
       PROVE  \/ \E a \in 1 .. Len(out) : out[a] = e
              \/ \E i \in 1 .. Len(vs) : \E p \in 1 .. Len(vs[i]) : vs[i][p] = e
  <2>1. CASE \E a \in 1 .. Len(out) : out[a] = e
    BY <2>1
  <2>2. CASE \E i \in 1 .. Len(us) : \E p \in 1 .. Len(us[i]) : us[i][p] = e
    <3>1. PICK i \in 1 .. Len(us) : \E p \in 1 .. Len(us[i]) : us[i][p] = e
      BY <2>2
    <3>2. PICK p \in 1 .. Len(us[i]) : us[i][p] = e
      BY <3>1
    <3>3. Len(us[i]) # 0
      BY <1>2, <3>2
    <3>4. i \in P
      BY <1>11, <3>3
    <3>5. PICK j \in 1 .. n : f[j] = i
      BY <3>4 DEF Picks
    <3>6. j \in 1 .. Len(vs) /\ vs[j] = us[i]
      BY <1>3, <1>4, <3>5
    <3> QED  BY <3>2, <3>6
  <2> QED  BY <1>11, <2>1, <2>2 DEF Flow
<1> QED  BY <1>6, <1>8, <1>9, <1>10, <1>11 DEF Flow

LEMMA ReadersAre ==
    ASSUME NEW max \in Nat, NEW readers, ReadersOK(readers, max)
    PROVE  /\ Len(readers) \in Nat /\ DOMAIN readers = 1 .. Len(readers)
           /\ \A i \in 1 .. Len(readers) : Roomy(readers[i], max) /\ readers[i] \in ReaderType
           /\ Len(UnreadOf(readers)) = Len(readers) /\ UnreadOf(readers) \in Seq(Seq(EntryType))
           /\ \A i \in 1 .. Len(readers) : UnreadOf(readers)[i] = Unread(readers[i])
<1>1. readers \in Seq(ReaderType) /\ \A i \in 1 .. Len(readers) : DataSize(readers[i].buf) <= max
  BY DEF ReadersOK
<1>2. Len(readers) \in Nat /\ DOMAIN readers = 1 .. Len(readers)
  BY <1>1
<1>3. \A i \in 1 .. Len(readers) : readers[i] \in ReaderType
  BY <1>1
<1>4. \A i \in 1 .. Len(readers) : Roomy(readers[i], max)
  BY <1>1, <1>3 DEF Roomy
<1>5. \A i \in 1 .. Len(readers) : Unread(readers[i]) \in Seq(EntryType)
  BY <1>3, UnreadTyped
<1>6. UnreadOf(readers) = [i \in 1 .. Len(readers) |-> Unread(readers[i])]
  BY <1>2 DEF UnreadOf
<1>7. UnreadOf(readers) \in Seq(Seq(EntryType)) /\ Len(UnreadOf(readers)) = Len(readers)
  BY <1>2, <1>5, <1>6
<1>8. \A i \in 1 .. Len(readers) : UnreadOf(readers)[i] = Unread(readers[i])
  BY <1>6
<1> QED  BY <1>2, <1>3, <1>4, <1>7, <1>8

(* Some readers in another place.                                            *)
LEMMA ReadersMade ==
    ASSUME NEW max \in Nat, NEW n \in Nat, NEW readers, DOMAIN readers = 1 .. n,
           readers = [i \in 1 .. n |-> readers[i]], \A i \in 1 .. n : Roomy(readers[i], max)
    PROVE  ReadersOK(readers, max) /\ Len(readers) = n
<1>1. \A i \in 1 .. n : readers[i] \in ReaderType /\ DataSize(readers[i].buf) <= max
  BY DEF Roomy
<1>2. readers \in Seq(ReaderType) /\ Len(readers) = n
  BY <1>1
<1> QED  BY <1>1, <1>2 DEF ReadersOK

(* r is what is left of the readers when they have been filled: those at P,  *)
(* with something in their buffers.  The others seem exhausted.              *)
FilledTo(readers, max, P, f, k, r) ==
    /\ P \in SUBSET (1 .. Len(readers)) /\ k \in Nat /\ Picks(f, k, P)
    /\ ReadersOK(r, max) /\ Len(r) = k
    /\ UnreadOf(r) = [j \in 1 .. k |-> UnreadOf(readers)[f[j]]]
    /\ \A j \in 1 .. k : r[j].buf # <<>>
    /\ \A i \in 1 .. Len(readers) :
          LET u == UnreadOf(readers)[i] IN
          i \notin P /\ (\A p \in 1 .. Len(u) : u[p].size <= max) => Len(u) = 0

LEMMA FilledIs ==
    ASSUME NEW max \in Nat, NEW readers, ReadersOK(readers, max)
    PROVE  \E P, f, k : FilledTo(readers, max, P, f, k, Filled(readers, max))
<1> DEFINE n == Len(readers)
           fr == [i \in DOMAIN readers |-> fill(readers[i], max)]
           P == {i \in DOMAIN fr : fr[i].buf # <<>>}
           us == UnreadOf(readers)
<1>1. /\ n \in Nat /\ DOMAIN readers = 1 .. n
      /\ \A i \in 1 .. n : Roomy(readers[i], max)
      /\ Len(us) = n
      /\ \A i \in 1 .. n : us[i] = Unread(readers[i])
  BY ReadersAre
<1>2. \A i \in 1 .. n : fr[i] = fill(readers[i], max)
  BY <1>1
<1>3. \A i \in 1 .. n :
         /\ Roomy(fr[i], max) /\ Unread(fr[i]) = us[i]
         /\ fr[i].buf = <<>> /\ (\A p \in 1 .. Len(us[i]) : us[i][p].size <= max)
              => Len(us[i]) = 0
  BY <1>1, <1>2, FillKeeps
<1>4. DOMAIN fr = 1 .. n /\ P \in SUBSET (1 .. n)
  BY <1>1
<1>5. Filled(readers, max) = Picked(fr, P)
  BY DEF Filled, NotEmpty
<1>6. (\A i \in 1 .. n : i \notin P => fr[i].buf = <<>>) /\ \A i \in P : fr[i].buf # <<>>
  BY <1>4
<1> HIDE DEF fr, P, us, n
<1>7. PICK f : \E k \in Nat : PickedBy(fr, P, f, k)
  <2>1. n \in Nat /\ P \in SUBSET (1 .. n)
    BY <1>1, <1>4, Zenon
  <2> QED  BY <2>1, PickedIs
<1>8. PICK k \in Nat : Picked(fr, P) = [j \in 1 .. k |-> fr[f[j]]] /\ Picks(f, k, P)
  BY <1>7 DEF PickedBy
<1> DEFINE r == Picked(fr, P)
           vs == UnreadOf(r)
<1>9. DOMAIN r = 1 .. k /\ \A j \in 1 .. k : r[j] = fr[f[j]] /\ f[j] \in 1 .. n /\ f[j] \in P
  <2>1. \A j \in 1 .. k : f[j] \in P
    BY <1>8 DEF Picks
  <2> QED  BY <1>4, <1>8, <2>1
<1>10. r = [j \in 1 .. k |-> r[j]]
  BY <1>8
<1>11. vs = [j \in 1 .. k |-> us[f[j]]]
  <2>1. vs = [j \in 1 .. k |-> Unread(r[j])]
    BY <1>9 DEF UnreadOf
  <2>2. \A j \in 1 .. k : Unread(r[j]) = us[f[j]]
    BY <1>3, <1>9
  <2> HIDE DEF vs, r
  <2> QED  BY <2>1, <2>2
<1>12. \A j \in 1 .. k : Roomy(r[j], max) /\ r[j].buf # <<>>
  BY <1>3, <1>6, <1>9
<1> HIDE DEF vs, r
<1>13. ReadersOK(r, max) /\ Len(r) = k
  BY <1>9, <1>10, <1>12, ReadersMade
<1>14. ASSUME NEW i \in 1 .. n, i \notin P, \A p \in 1 .. Len(us[i]) : us[i][p].size <= max
       PROVE  Len(us[i]) = 0
  BY <1>3, <1>6, <1>14
<1>15. Picks(f, k, P)
  BY <1>8
<1>16. FilledTo(readers, max, P, f, k, r)
  BY <1>4, <1>11, <1>12, <1>13, <1>14, <1>15 DEF FilledTo, vs, us, n
<1> QED  BY <1>5, <1>16 DEF r

(* Filling the readers and dropping those that seem exhausted.               *)
LEMMA FilledFlows ==
    ASSUME NEW E, NEW max \in Nat, NEW readers, ReadersOK(readers, max),
           NEW out, Flow(E, max, out, UnreadOf(readers))
    PROVE  ReadersOK(Filled(readers, max), max) /\ Flow(E, max, out, UnreadOf(Filled(readers, max)))
<1> DEFINE us == UnreadOf(readers)
           r == Filled(readers, max)
<1>1. Len(us) = Len(readers)
  BY ReadersAre
<1>2. PICK P, f, k : FilledTo(readers, max, P, f, k, r)
  BY FilledIs
<1> HIDE DEF r, us
<1>3. /\ P \in SUBSET (1 .. Len(us)) /\ k \in Nat /\ Picks(f, k, P)
      /\ ReadersOK(r, max) /\ UnreadOf(r) = [j \in 1 .. k |-> us[f[j]]]
      /\ \A i \in 1 .. Len(us) :
            i \notin P /\ (\A p \in 1 .. Len(us[i]) : us[i][p].size <= max) => Len(us[i]) = 0
  BY <1>1, <1>2 DEF FilledTo, us
<1>4. ASSUME Fit(E, max), NEW i \in 1 .. Len(us), i \notin P
      PROVE  Len(us[i]) = 0
  <2>1. \A p \in 1 .. Len(us[i]) : us[i][p] \in E
    BY DEF us, Flow
  <2>2. \A p \in 1 .. Len(us[i]) : us[i][p].size <= max
    BY <1>4, <2>1 DEF Fit
  <2> QED  BY <1>3, <1>4, <2>2
<1>5. Flow(E, max, out, us)
  BY DEF us
<1>6. Flow(E, max, out, UnreadOf(r))
  BY <1>3, <1>4, <1>5, FlowPicked
<1> QED  BY <1>3, <1>6 DEF r

(* What is in the buffers comes first of what has not been taken.            *)
Leads(bufs, us) ==
    /\ bufs \in Seq(Seq(EntryType)) /\ Len(bufs) = Len(us)
    /\ \A i \in 1 .. Len(us) :
          /\ Len(bufs[i]) <= Len(us[i])
          /\ \A p \in 1 .. Len(bufs[i]) : bufs[i][p] = us[i][p]

LEMMA LeadsTyped ==
    ASSUME NEW us, BufsOK(us), NEW bufs, Leads(bufs, us)
    PROVE  /\ Len(bufs) = Len(us) /\ Len(us) \in Nat
           /\ \A i \in 1 .. Len(us) : Len(bufs[i]) \in Nat /\ Len(us[i]) \in Nat /\ Len(bufs[i]) <= Len(us[i])
           /\ \A i \in 1 .. Len(us) : \A p \in 1 .. Len(bufs[i]) :
                 p \in 1 .. Len(us[i]) /\ bufs[i][p] = us[i][p]
<1>1. Len(us) \in Nat /\ \A i \in 1 .. Len(us) : Len(us[i]) \in Nat
  BY BufsTyped
<1>2. Len(bufs) = Len(us) /\ bufs \in Seq(Seq(EntryType))
  BY DEF Leads
<1>3. \A i \in 1 .. Len(bufs) : bufs[i] \in Seq(EntryType)
  BY <1>2
<1>4. \A i \in 1 .. Len(us) : Len(bufs[i]) \in Nat
  BY <1>2, <1>3
<1>5. \A i \in 1 .. Len(us) : Len(bufs[i]) <= Len(us[i]) /\ \A p \in 1 .. Len(bufs[i]) : bufs[i][p] = us[i][p]
  BY DEF Leads
<1>6. \A i \in 1 .. Len(us) : \A p \in 1 .. Len(bufs[i]) : p \in 1 .. Len(us[i])
  BY <1>1, <1>4, <1>5
<1> QED  BY <1>1, <1>2, <1>4, <1>5, <1>6

LEMMA LeadsOK ==
    ASSUME NEW us, BufsOK(us), NEW bufs, Leads(bufs, us)
    PROVE  BufsOK(bufs)
<1>1. ASSUME NEW i \in 1 .. Len(bufs), NEW j \in 1 .. Len(bufs), NEW k \in 1 .. Len(bufs[i]),
             NEW m \in 1 .. Len(bufs[j]), bufs[i][k] = bufs[j][m]
      PROVE  i = j /\ k = m
  <2>1. i \in 1 .. Len(us) /\ j \in 1 .. Len(us)
    BY LeadsTyped
  <2>2. k \in 1 .. Len(us[i]) /\ bufs[i][k] = us[i][k]
    BY <2>1, LeadsTyped
  <2>3. m \in 1 .. Len(us[j]) /\ bufs[j][m] = us[j][m]
    BY <2>1, LeadsTyped
  <2>4. us[i][k] = us[j][m]
    BY <1>1, <2>2, <2>3
  <2>5. \A c \in 1 .. Len(us[i]), d \in 1 .. Len(us[j]) : us[i][c] = us[j][d] => i = j /\ c = d
    BY <2>1 DEF BufsOK
  <2>6. us[i][k] = us[j][m] => i = j /\ k = m
    BY <2>2, <2>3, <2>5
  <2> QED  BY <2>4, <2>6
<1>2. bufs \in Seq(Seq(EntryType))
  BY DEF Leads
<1> QED  BY <1>1, <1>2 DEF BufsOK

LEMMA LeadsTakes ==
    ASSUME NEW us, BufsOK(us), NEW bufs, Leads(bufs, us), NEW k, Counts(bufs, k),
           NEW out, Wrote(bufs, Nothing(bufs), k, out)
    PROVE  Counts(us, k) /\ Wrote(us, Nothing(us), k, out)
<1>1. /\ Len(bufs) = Len(us) /\ Len(us) \in Nat
      /\ \A i \in 1 .. Len(us) : Len(bufs[i]) \in Nat /\ Len(us[i]) \in Nat /\ Len(bufs[i]) <= Len(us[i])
      /\ \A i \in 1 .. Len(us) : \A p \in 1 .. Len(bufs[i]) :
            p \in 1 .. Len(us[i]) /\ bufs[i][p] = us[i][p]
  BY LeadsTyped
<1>2. Nothing(us) = Nothing(bufs)
  BY <1>1 DEF Nothing
<1>3. k \in [1 .. Len(us) -> Nat] /\ \A i \in 1 .. Len(us) : k[i] <= Len(bufs[i])
  BY <1>1 DEF Counts
<1>4. \A i \in 1 .. Len(us) : k[i] \in Nat /\ k[i] <= Len(us[i])
  BY <1>1, <1>3
<1>5. \A i \in 1 .. Len(us), p \in Nat : Nothing(us)[i] < p /\ p <= k[i] => bufs[i][p] = us[i][p]
  <2>1. ASSUME NEW i \in 1 .. Len(us), NEW p \in Nat, Nothing(us)[i] < p, p <= k[i]
        PROVE  bufs[i][p] = us[i][p]
    <3>1. 0 < p
      BY <2>1 DEF Nothing
    <3>2. p \in 1 .. Len(bufs[i])
      BY <1>1, <1>3, <1>4, <2>1, <3>1
    <3> QED  BY <1>1, <3>2
  <2> QED  BY <2>1
<1>6. /\ out \in Seq(EntryType)
      /\ \A a, b \in 1 .. Len(out) : out[a] = out[b] => a = b
      /\ \A a \in 1 .. Len(out) :
           \E i \in 1 .. Len(us), p \in Nat : Nothing(us)[i] < p /\ p <= k[i] /\ out[a] = bufs[i][p]
      /\ \A i \in 1 .. Len(us), p \in Nat : Nothing(us)[i] < p /\ p <= k[i] =>
           \E a \in 1 .. Len(out) : out[a].key = bufs[i][p].key /\ bufs[i][p].seq <= out[a].seq
  <2>1. Len(bufs) = Len(us)
    BY <1>1
  <2> QED  BY <1>2, <2>1 DEF Wrote
<1>7. \A a \in 1 .. Len(out) :
           \E i \in 1 .. Len(us), p \in Nat : Nothing(us)[i] < p /\ p <= k[i] /\ out[a] = us[i][p]
  BY <1>5, <1>6
<1>8. \A i \in 1 .. Len(us), p \in Nat : Nothing(us)[i] < p /\ p <= k[i] =>
           \E a \in 1 .. Len(out) : out[a].key = us[i][p].key /\ us[i][p].seq <= out[a].seq
  <2>1. ASSUME NEW i \in 1 .. Len(us), NEW p \in Nat, Nothing(us)[i] < p, p <= k[i]
        PROVE  \E a \in 1 .. Len(out) : out[a].key = us[i][p].key /\ us[i][p].seq <= out[a].seq
    <3>1. \E a \in 1 .. Len(out) : out[a].key = bufs[i][p].key /\ bufs[i][p].seq <= out[a].seq
      BY <1>6, <2>1
    <3>2. bufs[i][p] = us[i][p]
      BY <1>5, <2>1
    <3> QED  BY <3>1, <3>2, Zenon
  <2> QED  BY <2>1
<1> QED  BY <1>3, <1>4, <1>6, <1>7, <1>8 DEF Counts, Wrote

(* Taking from the front of a sequence leaves what is behind it alone.       *)
LEMMA CutBefore ==
    ASSUME NEW s \in Seq(EntryType), NEW t \in Seq(EntryType), NEW k \in 0 .. Len(s)
    PROVE  Cut(s, k, Len(s)) \o t = Cut(s \o t, k, Len(s \o t))
<1> DEFINE u == Cut(s, k, Len(s))
           c == s \o t
           v == Cut(c, k, Len(c))
           w == u \o t
<1>1. Len(s) \in Nat /\ Len(t) \in Nat /\ k \in Nat /\ k <= Len(s)
  BY LenProperties
<1>2. IsCut(u, EntryType, s, k, Len(s))
  BY <1>1, CutIs
<1>3. /\ c \in Seq(EntryType) /\ Len(c) = Len(s) + Len(t)
      /\ \A i \in 1 .. Len(s) + Len(t) : c[i] = IF i <= Len(s) THEN s[i] ELSE t[i - Len(s)]
  BY ConcatProperties
<1> HIDE DEF u, c
<1>4. IsCut(v, EntryType, c, k, Len(c))
  <2>1. k <= Len(c) /\ Len(c) \in Nat
    BY <1>1, <1>3
  <2> QED  BY <1>1, <1>3, <2>1, CutIs
<1>5. u \in Seq(EntryType) /\ Len(u) = Len(s) - k /\ \A p \in 1 .. Len(s) - k : u[p] = s[k + p]
  BY <1>2 DEF IsCut
<1>6. /\ w \in Seq(EntryType) /\ Len(w) = Len(u) + Len(t)
      /\ \A i \in 1 .. Len(u) + Len(t) : w[i] = IF i <= Len(u) THEN u[i] ELSE t[i - Len(u)]
  BY <1>5, ConcatProperties
<1> HIDE DEF v, w
<1>7. v \in Seq(EntryType) /\ Len(v) = Len(c) - k /\ \A p \in 1 .. Len(c) - k : v[p] = c[k + p]
  BY <1>4 DEF IsCut
<1>8. Len(v) = Len(w)
  BY <1>1, <1>3, <1>5, <1>6, <1>7
<1>9. ASSUME NEW p \in 1 .. Len(w) PROVE w[p] = v[p]
  <2>1. p \in 1 .. Len(u) + Len(t) /\ p \in 1 .. Len(c) - k /\ k + p \in 1 .. Len(s) + Len(t)
    BY <1>1, <1>3, <1>5, <1>6
  <2>2. CASE p <= Len(u)
    <3>1. p \in 1 .. Len(s) - k /\ k + p <= Len(s)
      BY <1>1, <1>5, <2>1, <2>2
    <3>2. w[p] = s[k + p]
      BY <1>5, <1>6, <2>1, <2>2, <3>1
    <3>3. v[p] = s[k + p]
      BY <1>3, <1>7, <2>1, <3>1
    <3> QED  BY <3>2, <3>3
  <2>3. CASE ~(p <= Len(u))
    <3>1. ~(k + p <= Len(s)) /\ (k + p) - Len(s) = p - Len(u)
      BY <1>1, <1>5, <2>1, <2>3
    <3>2. w[p] = t[p - Len(u)]
      BY <1>6, <2>1, <2>3
    <3>3. v[p] = t[(k + p) - Len(s)]
      BY <1>3, <1>7, <2>1, <3>1
    <3> QED  BY <3>1, <3>2, <3>3
  <2> QED  BY <2>2, <2>3
<1>10. w = v
  BY <1>6, <1>7, <1>8, <1>9, SeqEqual
<1> QED  BY <1>10 DEF u, v, w, c

(* What is left of a buffer is not larger.                                   *)
LEMMA CutSmaller ==
    ASSUME NEW s \in Seq(EntryType), NEW k \in 0 .. Len(s)
    PROVE  DataSize(Cut(s, k, Len(s))) <= DataSize(s)
<1> DEFINE u == Cut(s, 0, k)
           v == Cut(s, k, Len(s))
<1>1. Len(s) \in Nat /\ k \in Nat /\ k <= Len(s)
  BY LenProperties
<1>2. IsCut(u, EntryType, s, 0, k)
  BY <1>1, CutIs
<1>3. IsCut(v, EntryType, s, k, Len(s))
  BY <1>1, CutIs
<1>4. u \o v = s
  BY CutJoins
<1> HIDE DEF u, v
<1>5. u \in Seq(EntryType) /\ v \in Seq(EntryType)
  BY <1>2, <1>3 DEF IsCut
<1>6. DataSize(s) = DataSize(u) + DataSize(v)
  BY <1>4, <1>5, DataConcat
<1>7. DataSize(u) \in Nat /\ DataSize(v) \in Nat
  BY <1>5, SizesTyped
<1>8. DataSize(v) <= DataSize(s)
  BY <1>6, <1>7
<1> QED  BY <1>8 DEF v

BufsOf(readers) == [i \in DOMAIN readers |-> readers[i].buf]

LEMMA BufsLead ==
    ASSUME NEW max \in Nat, NEW readers, ReadersOK(readers, max)
    PROVE  Leads(BufsOf(readers), UnreadOf(readers))
<1> DEFINE n == Len(readers)
           bufs == BufsOf(readers)
           us == UnreadOf(readers)
<1>1. /\ n \in Nat /\ DOMAIN readers = 1 .. n
      /\ \A i \in 1 .. n : readers[i] \in ReaderType
      /\ Len(us) = n
      /\ \A i \in 1 .. n : us[i] = Unread(readers[i])
  BY ReadersAre
<1>2. bufs = [i \in 1 .. n |-> readers[i].buf]
  BY <1>1 DEF BufsOf
<1>3. \A i \in 1 .. n :
         /\ readers[i].buf \in Seq(EntryType) /\ Len(readers[i].buf) \in Nat
         /\ Len(readers[i].buf) <= Len(us[i])
         /\ \A p \in 1 .. Len(readers[i].buf) : readers[i].buf[p] = us[i][p]
  <2>1. ASSUME NEW i \in 1 .. n
        PROVE  /\ readers[i].buf \in Seq(EntryType) /\ Len(readers[i].buf) \in Nat
               /\ Len(readers[i].buf) <= Len(us[i])
               /\ \A p \in 1 .. Len(readers[i].buf) : readers[i].buf[p] = us[i][p]
    <3>1. us[i] = Unread(readers[i]) /\ readers[i] \in ReaderType
      BY <1>1
    <3> HIDE DEF us
    <3>2. /\ readers[i].buf \in Seq(EntryType) /\ Len(readers[i].buf) \in Nat
          /\ Len(readers[i].rest) \in Nat
          /\ Len(Unread(readers[i])) = Len(readers[i].buf) + Len(readers[i].rest)
          /\ \A p \in 1 .. Len(readers[i].buf) : Unread(readers[i])[p] = readers[i].buf[p]
      BY <3>1, UnreadTyped
    <3>3. Len(readers[i].buf) <= Len(Unread(readers[i]))
      <4> DEFINE a == Len(readers[i].buf)
                 b == Len(readers[i].rest)
                 c == Len(Unread(readers[i]))
      <4>1. a \in Nat /\ b \in Nat /\ c = a + b
        BY <3>2
      <4> HIDE DEF a, b, c
      <4>2. a <= c
        BY <4>1
      <4> QED  BY <4>2 DEF a, c
    <3> QED  BY <3>1, <3>2, <3>3
  <2> QED  BY <2>1
<1> HIDE DEF us, n
<1>4. bufs \in Seq(Seq(EntryType)) /\ Len(bufs) = n /\ \A i \in 1 .. n : bufs[i] = readers[i].buf
  BY <1>1, <1>2, <1>3
<1> HIDE DEF bufs
<1>5. Leads(bufs, us)
  BY <1>1, <1>3, <1>4 DEF Leads
<1> QED  BY <1>5 DEF bufs, us

(* What a pass of merge_sort leaves behind: what it has taken from the       *)
(* readers is written.                                                      *)
LEMMA PassLeaves ==
    ASSUME NEW max \in Nat, NEW readers, ReadersOK(readers, max), BufsOK(UnreadOf(readers)),
           NEW m, Served(BufsOf(readers), m),
           NEW left, left = [i \in DOMAIN readers |-> [readers[i] EXCEPT !.buf = m.bufs[i]]]
    PROVE  /\ ReadersOK(left, max) /\ Len(left) = Len(readers)
           /\ \E k : /\ UnreadOf(left) = Remaining(UnreadOf(readers), k)
                    /\ Counts(UnreadOf(readers), k)
                    /\ Wrote(UnreadOf(readers), Nothing(UnreadOf(readers)), k, m.out)
<1> DEFINE n == Len(readers)
           bufs == BufsOf(readers)
           us == UnreadOf(readers)
<1>1. /\ n \in Nat /\ DOMAIN readers = 1 .. n
      /\ \A i \in 1 .. n : readers[i] \in ReaderType /\ Roomy(readers[i], max)
      /\ Len(us) = n
      /\ \A i \in 1 .. n : us[i] = Unread(readers[i])
  BY ReadersAre
<1>2. Leads(bufs, us)
  BY BufsLead
<1>3. BufsOK(us)
  OBVIOUS
<1>4. \A i \in 1 .. n : bufs[i] = readers[i].buf
  BY <1>1 DEF BufsOf
<1> HIDE DEF n, bufs, us
<1>5. BufsOK(bufs) /\ Len(bufs) = n
  BY <1>1, <1>2, <1>3, LeadsOK, LeadsTyped
<1>6. PICK k : ServedTo(bufs, k, m)
  BY DEF Served, bufs
<1>7. Counts(bufs, k) /\ m.bufs = Remaining(bufs, k) /\ Wrote(bufs, Nothing(bufs), k, m.out)
  BY <1>6 DEF ServedTo
<1>8. Counts(us, k) /\ Wrote(us, Nothing(us), k, m.out)
  BY <1>2, <1>3, <1>7, LeadsTakes
<1>10. \A i \in 1 .. n :
          /\ k[i] \in 0 .. Len(bufs[i])
          /\ m.bufs[i] \in Seq(EntryType) /\ m.bufs[i] = Cut(bufs[i], k[i], Len(bufs[i]))
  BY <1>5, <1>7, RemainingIs
<1>11. \A i \in 1 .. n : left[i] = [readers[i] EXCEPT !.buf = m.bufs[i]]
  BY <1>1
<1>12. ASSUME NEW i \in 1 .. n
       PROVE  /\ Roomy(left[i], max) /\ Unread(left[i]) = Cut(us[i], k[i], Len(us[i]))
  <2> DEFINE s == readers[i].buf
             t == readers[i].rest
             u == Cut(s, k[i], Len(s))
  <2>1. s \in Seq(EntryType) /\ t \in Seq(EntryType) /\ DataSize(s) <= max
    <3>1. readers[i] \in ReaderType /\ DataSize(s) <= max
      BY <1>1 DEF Roomy
    <3> QED  BY <3>1 DEF ReaderType
  <2>2. k[i] \in 0 .. Len(s) /\ m.bufs[i] = u /\ u \in Seq(EntryType)
    BY <1>4, <1>10
  <2>3. left[i] = [rest |-> t, buf |-> u]
    <3>1. readers[i] = [rest |-> t, buf |-> s]
      BY <1>1 DEF ReaderType
    <3>2. left[i] = [readers[i] EXCEPT !.buf = u]
      BY <1>11, <2>2
    <3> HIDE DEF s, t, u
    <3> QED  BY <3>1, <3>2
  <2>4. us[i] = s \o t
    BY <1>1 DEF Unread
  <2>5. u \o t = Cut(us[i], k[i], Len(us[i]))
    BY <2>1, <2>2, <2>4, CutBefore
  <2>6. DataSize(u) <= max
    <3>1. DataSize(u) <= DataSize(s)
      BY <2>1, <2>2, CutSmaller
    <3>2. DataSize(u) \in Nat /\ DataSize(s) \in Nat
      BY <2>1, <2>2, SizesTyped
    <3> HIDE DEF u, s
    <3> QED  BY <2>1, <3>1, <3>2
  <2> HIDE DEF s, t, u
  <2>7. Roomy(left[i], max)
    BY <2>1, <2>2, <2>3, <2>6 DEF Roomy, ReaderType
  <2>8. Unread(left[i]) = u \o t
    <3>1. Unread([rest |-> t, buf |-> u]) = u \o t
      BY DEF Unread
    <3> QED  BY <2>3, <3>1, Zenon
  <2> QED  BY <2>5, <2>7, <2>8
<1>13. DOMAIN left = 1 .. n /\ left = [i \in 1 .. n |-> left[i]]
  BY <1>1
<1>14. ReadersOK(left, max) /\ Len(left) = n
  BY <1>1, <1>12, <1>13, ReadersMade
<1>15. UnreadOf(left) = Remaining(us, k)
  <2>1. UnreadOf(left) = [i \in 1 .. n |-> Unread(left[i])]
    BY <1>13 DEF UnreadOf
  <2>2. Remaining(us, k) = [i \in 1 .. n |-> Cut(us[i], k[i], Len(us[i]))]
    BY <1>1 DEF Remaining
  <2> QED  BY <1>12, <2>1, <2>2
<1> QED  BY <1>8, <1>14, <1>15, Zenon DEF us, n

LEMMA PassFlows ==
    ASSUME NEW E, Numbered(E), NEW max \in Nat, NEW readers, ReadersOK(readers, max),
           NEW out, Flow(E, max, out, UnreadOf(readers)),
           NEW m, Served(BufsOf(readers), m),
           NEW left, left = [i \in DOMAIN readers |-> [readers[i] EXCEPT !.buf = m.bufs[i]]]
    PROVE  ReadersOK(left, max) /\ Flow(E, max, out \o m.out, UnreadOf(left))
<1> DEFINE us == UnreadOf(readers)
<1>1. BufsOK(us)
  BY DEF Flow
<1>2. PICK k : /\ ReadersOK(left, max) /\ UnreadOf(left) = Remaining(us, k)
               /\ Counts(us, k) /\ Wrote(us, Nothing(us), k, m.out)
  BY <1>1, PassLeaves
<1> HIDE DEF us
<1>3. Flow(E, max, out \o m.out, Remaining(us, k))
  BY <1>2, FlowTakes DEF us
<1> QED  BY <1>2, <1>3

(* What holds before and after every pass of merge_and_write.                *)
Keeping(E, max, acc) ==
    /\ ReadersOK(acc.readers, max)
    /\ Flow(E, max, acc.out, UnreadOf(acc.readers))
    /\ acc.result \in {"ok", "spins"}

LEMMA PassKeeps ==
    ASSUME NEW E, Numbered(E), NEW max \in Nat, NEW acc, Keeping(E, max, acc)
    PROVE  Keeping(E, max, Pass(acc, max))
<1> DEFINE readers == acc.readers
           bufs == BufsOf(readers)
           m == merge_sort(bufs)
           left == [i \in DOMAIN readers |-> [readers[i] EXCEPT !.buf = m.bufs[i]]]
           next == [out |-> acc.out \o m.out, readers |-> Filled(left, max), result |-> m.result]
<1>1. Pass(acc, max) = acc \/ Pass(acc, max) = next
  BY DEF Pass, AfterPass, BufsOf
<1>2. ReadersOK(readers, max) /\ Flow(E, max, acc.out, UnreadOf(readers)) /\ BufsOK(UnreadOf(readers))
  BY DEF Keeping, Flow
<1>3. BufsOK(bufs)
  BY <1>2, BufsLead, LeadsOK
<1>4. Served(bufs, m)
  BY <1>3, MergeSortServes
<1>5. m.result \in {"ok", "spins"}
  <2>1. m \in AccType
    BY <1>3, <1>4, ServedBufs
  <2> HIDE DEF m
  <2> QED  BY <2>1 DEF AccType
<1> HIDE DEF m
<1>6. left = [i \in DOMAIN readers |-> [readers[i] EXCEPT !.buf = m.bufs[i]]]
  OBVIOUS
<1> HIDE DEF left, readers
<1>7. ReadersOK(left, max) /\ Flow(E, max, acc.out \o m.out, UnreadOf(left))
  BY <1>2, <1>4, <1>6, PassFlows
<1>8. /\ ReadersOK(Filled(left, max), max)
      /\ Flow(E, max, acc.out \o m.out, UnreadOf(Filled(left, max)))
  BY <1>7, FilledFlows
<1>9. Keeping(E, max, next)
  <2>1. next.out = acc.out \o m.out /\ next.readers = Filled(left, max) /\ next.result = m.result
    OBVIOUS
  <2> HIDE DEF next
  <2> QED  BY <1>5, <1>8, <2>1 DEF Keeping
<1> QED  BY <1>1, <1>9

PassStep(max, acc, x) == Pass(acc, max)

PassesOver == INSTANCE Iteration WITH Step <- PassStep

LEMMA PassesKeep ==
    ASSUME NEW E, Numbered(E), NEW max \in Nat, NEW base, Keeping(E, max, base), NEW n \in Nat
    PROVE  Keeping(E, max, FoldLeft(LAMBDA acc, e : Pass(acc, max), base, Turns(n)))
<1> DEFINE turns == Turns(n)
<1>1. FoldLeft(LAMBDA acc, e : Pass(acc, max), base, turns) = PassesOver!Result(max, base, turns)
  BY DEF PassesOver!Result, PassStep, FoldLeft, MapThenFoldSet,
         PassesOver!FoldLeft, PassesOver!MapThenFoldSet, PassesOver!Max, Max
<1>2. turns \in Seq(Nat)
  BY TurnsTyped
<1> HIDE DEF turns
<1>3. PICK f : PassesOver!IsRun(f, max, base, turns) /\ PassesOver!Result(max, base, turns) = f[Len(turns)]
  BY <1>2, PassesOver!FoldRuns
<1> DEFINE P == {t \in Nat : t <= Len(turns) => Keeping(E, max, f[t])}
<1>4. 0 \in P
  BY <1>3 DEF PassesOver!IsRun
<1>5. ASSUME NEW t \in Nat, t \in P PROVE t + 1 \in P
  <2> SUFFICES ASSUME t + 1 <= Len(turns) PROVE Keeping(E, max, f[t + 1])
    OBVIOUS
  <2>1. Len(turns) \in Nat
    BY <1>2, LenProperties
  <2>2. Keeping(E, max, f[t]) /\ t + 1 \in 1 .. Len(turns) /\ (t + 1) - 1 = t
    BY <1>5, <2>1
  <2>3. f[t + 1] = Pass(f[t], max)
    BY <1>3, <2>2 DEF PassesOver!IsRun, PassStep
  <2> HIDE DEF P
  <2> QED  BY <2>2, <2>3, PassKeeps
<1>6. \A t \in Nat : t \in P
  <2> HIDE DEF P
  <2> QED  BY <1>4, <1>5, Adding!SetInduction
<1>7. Len(turns) \in Nat
  BY <1>2, LenProperties
<1>8. Keeping(E, max, f[Len(turns)])
  BY <1>6, <1>7
<1> QED  BY <1>1, <1>3, <1>8 DEF turns

EntrySeqs(segments) == [i \in 1 .. Len(segments) |-> segments[i].entries]

(* The segments that are merged: E is what is in them, at one place each.    *)
Holds(E, segments) ==
    /\ Len(segments) \in Nat /\ DOMAIN segments = 1 .. Len(segments)
    /\ BufsOK(EntrySeqs(segments))
    /\ \A i \in 1 .. Len(segments) : \A p \in 1 .. Len(segments[i].entries) : segments[i].entries[p] \in E
    /\ \A e \in E : \E i \in 1 .. Len(segments) : \E p \in 1 .. Len(segments[i].entries) :
          segments[i].entries[p] = e

(* What is written of them.                                                 *)
Collected(E, out) ==
    /\ out \in Seq(EntryType)
    /\ \A a \in 1 .. Len(out) : out[a] \in E
    /\ \A a, b \in 1 .. Len(out) : out[a] = out[b] => a = b

HasNewest(E, out) == \A e : NewestIn(E, e) => \E a \in 1 .. Len(out) : out[a] = e

LEMMA StartReaders ==
    ASSUME NEW E, NEW max \in Nat, NEW segments, Holds(E, segments),
           NEW readers, readers = [i \in DOMAIN segments |-> new_read_buf(segments[i])]
    PROVE  ReadersOK(readers, max) /\ UnreadOf(readers) = EntrySeqs(segments)
           /\ Len(readers) = Len(segments)
<1> DEFINE n == Len(segments)
           us == EntrySeqs(segments)
<1>1. n \in Nat /\ DOMAIN segments = 1 .. n /\ BufsOK(us) /\ us = [i \in 1 .. n |-> segments[i].entries]
  BY DEF Holds, EntrySeqs
<1>2. Len(us) = n /\ \A i \in 1 .. n : us[i] = segments[i].entries
  BY <1>1
<1>3. \A i \in 1 .. n : us[i] \in Seq(EntryType)
  BY <1>1, <1>2, BufsTyped
<1>4. DOMAIN readers = 1 .. n /\ readers = [i \in 1 .. n |-> readers[i]]
  BY <1>1
<1>5. \A i \in 1 .. n : readers[i] = [rest |-> us[i], buf |-> <<>>]
  BY <1>1, <1>2 DEF new_read_buf
<1> HIDE DEF us, n
<1>6. ASSUME NEW i \in 1 .. n PROVE Roomy(readers[i], max) /\ Unread(readers[i]) = us[i]
  <2> DEFINE u == us[i]
             b == readers[i]
  <2>1. u \in Seq(EntryType) /\ b = [rest |-> u, buf |-> <<>>]
    BY <1>3, <1>5
  <2> HIDE DEF u, b
  <2>2. b \in ReaderType
    BY <2>1, EmptySeq DEF ReaderType
  <2>3. DataSize(b.buf) <= max
    <3>1. DataSize(<<>>) = 0 /\ b.buf = <<>>
      BY <2>1, DataFew
    <3>2. 0 <= max
      OBVIOUS
    <3> QED  BY <3>1, <3>2
  <2>4. Unread(b) = u
    <3>1. Unread(b) = <<>> \o u
      BY <2>1 DEF Unread
    <3>2. <<>> \o u = u
      BY <2>1, ConcatEmptySeq
    <3> QED  BY <3>1, <3>2
  <2> QED  BY <2>2, <2>3, <2>4 DEF Roomy, u, b
<1>7. ReadersOK(readers, max) /\ Len(readers) = n
  BY <1>1, <1>4, <1>6, ReadersMade
<1>8. UnreadOf(readers) = us
  <2>1. UnreadOf(readers) = [i \in 1 .. n |-> Unread(readers[i])]
    BY <1>4 DEF UnreadOf
  <2>2. us = [i \in 1 .. n |-> us[i]]
    BY <1>1, <1>2
  <2> QED  BY <1>6, <2>1, <2>2
<1> QED  BY <1>7, <1>8 DEF us, n

LEMMA StartKeeps ==
    ASSUME NEW E, NEW max \in Nat, NEW segments, Holds(E, segments)
    PROVE  Keeping(E, max, [out |-> <<>>, result |-> "ok",
                            readers |-> Filled([i \in DOMAIN segments |-> new_read_buf(segments[i])], max)])
<1> DEFINE n == Len(segments)
           readers == [i \in DOMAIN segments |-> new_read_buf(segments[i])]
           us == EntrySeqs(segments)
           base == [out |-> <<>>, result |-> "ok", readers |-> Filled(readers, max)]
<1>1. n \in Nat /\ DOMAIN segments = 1 .. n /\ BufsOK(us) /\ us = [i \in 1 .. n |-> segments[i].entries]
  BY DEF Holds, EntrySeqs
<1>2. Len(us) = n /\ \A i \in 1 .. n : us[i] = segments[i].entries
  BY <1>1
<1>3. readers = [i \in DOMAIN segments |-> new_read_buf(segments[i])]
  OBVIOUS
<1> HIDE DEF readers, us, n
<1>4. ReadersOK(readers, max) /\ UnreadOf(readers) = us
  BY <1>3, StartReaders DEF us
<1>9. Flow(E, max, <<>>, us)
  <2>1. <<>> \in Seq(EntryType) /\ 1 .. Len(<<>>) = {}
    BY EmptySeq
  <2>2. \A i \in 1 .. Len(us) : \A p \in 1 .. Len(us[i]) : us[i][p] \in E
    BY <1>2 DEF Holds, n
  <2>3. \A e : NewestIn(E, e) => \E i \in 1 .. Len(us) : \E p \in 1 .. Len(us[i]) : us[i][p] = e
    <3>1. ASSUME NEW e, NewestIn(E, e)
          PROVE  \E i \in 1 .. Len(us) : \E p \in 1 .. Len(us[i]) : us[i][p] = e
      <4>1. e \in E
        BY <3>1 DEF NewestIn
      <4>2. \E i \in 1 .. n : \E p \in 1 .. Len(segments[i].entries) : segments[i].entries[p] = e
        BY <4>1 DEF Holds, n
      <4> QED  BY <1>2, <4>2
    <3> QED  BY <3>1
  <2> QED  BY <1>1, <2>1, <2>2, <2>3 DEF Flow
<1>10. ReadersOK(Filled(readers, max), max) /\ Flow(E, max, <<>>, UnreadOf(Filled(readers, max)))
  BY <1>4, <1>9, FilledFlows
<1>11. Keeping(E, max, base)
  <2>1. base.out = <<>> /\ base.readers = Filled(readers, max) /\ base.result = "ok"
    OBVIOUS
  <2> HIDE DEF base
  <2> QED  BY <1>10, <2>1 DEF Keeping
<1> QED  BY <1>11 DEF readers

-----------------------------------------------------------------------------
(* With at most two readers every pass takes an entry.                       *)

InOrderAll(seqs) == \A i \in 1 .. Len(seqs) : Sorted(seqs[i])

LEMMA PickedFew ==
    ASSUME NEW n \in Nat, NEW P \in SUBSET (1 .. n), NEW f, NEW k \in Nat, Picks(f, k, P), n <= 2
    PROVE  k <= 2
<1> SUFFICES ASSUME k > 2 PROVE FALSE
  OBVIOUS
<1>1. 1 \in 1 .. k /\ 2 \in 1 .. k /\ 3 \in 1 .. k
  OBVIOUS
<1>2. \A i \in P : i = 1 \/ i = 2
  OBVIOUS
<1>3. f[1] \in P /\ f[2] \in P /\ f[3] \in P
  BY <1>1 DEF Picks
<1>4. \A i, j \in 1 .. k : i < j => f[i] < f[j]
  BY DEF Picks
<1>5. f[1] < f[2] /\ f[2] < f[3]
  <2>1. 1 < 2 /\ 2 < 3
    OBVIOUS
  <2> QED  BY <1>1, <1>4, <2>1
<1>6. (f[1] = 1 \/ f[1] = 2) /\ (f[2] = 1 \/ f[2] = 2) /\ (f[3] = 1 \/ f[3] = 2)
  BY <1>2, <1>3
<1> QED  BY <1>5, <1>6

(* Filling the readers leaves them in order.                                 *)
LEMMA FilledInOrder ==
    ASSUME NEW max \in Nat, NEW readers, ReadersOK(readers, max), Len(readers) <= 2,
           InOrderAll(UnreadOf(readers)), NEW r, r = Filled(readers, max)
    PROVE  /\ Len(r) \in 0 .. 2 /\ InOrderAll(UnreadOf(r))
           /\ \A i \in 1 .. Len(r) : r[i].buf # <<>>
<1> DEFINE us == UnreadOf(readers)
<1>1. Len(us) = Len(readers) /\ Len(readers) \in Nat
  BY ReadersAre
<1>2. PICK P, f, k : FilledTo(readers, max, P, f, k, r)
  BY FilledIs
<1>3. /\ P \in SUBSET (1 .. Len(us)) /\ k \in Nat /\ Picks(f, k, P)
      /\ Len(r) = k /\ UnreadOf(r) = [j \in 1 .. k |-> us[f[j]]]
      /\ \A j \in 1 .. k : r[j].buf # <<>>
  BY <1>1, <1>2 DEF FilledTo
<1>4. \A i \in 1 .. Len(us) : Sorted(us[i])
  BY DEF InOrderAll
<1> HIDE DEF us
<1>5. k <= 2
  BY <1>1, <1>3, PickedFew
<1>6. \A j \in 1 .. k : f[j] \in 1 .. Len(us)
  BY <1>3 DEF Picks
<1>7. Len(UnreadOf(r)) = k /\ \A j \in 1 .. k : UnreadOf(r)[j] = us[f[j]]
  BY <1>3
<1>8. InOrderAll(UnreadOf(r))
  BY <1>4, <1>6, <1>7 DEF InOrderAll
<1> QED  BY <1>3, <1>5, <1>8

(* What is left of sequences in order is in order.                           *)
LEMMA RemainingInOrder ==
    ASSUME NEW us, BufsOK(us), InOrderAll(us), NEW k, Counts(us, k)
    PROVE  InOrderAll(Remaining(us, k))
<1> DEFINE R == Remaining(us, k)
<1>1. /\ Len(R) = Len(us)
      /\ \A i \in 1 .. Len(us) :
            /\ Len(R[i]) = Len(us[i]) - k[i] /\ k[i] \in 0 .. Len(us[i])
            /\ \A p \in 1 .. Len(us[i]) - k[i] : R[i][p] = us[i][k[i] + p]
  BY RemainingIs
<1>2. \A i \in 1 .. Len(us) : Len(us[i]) \in Nat
  BY BufsTyped
<1> HIDE DEF R
<1>3. ASSUME NEW i \in 1 .. Len(us), NEW p \in 1 .. Len(R[i]), NEW q \in 1 .. Len(R[i]), p < q
      PROVE  R[i][p].key < R[i][q].key
  <2> DEFINE a == k[i]
             n == Len(us[i])
  <2>1. a \in Nat /\ n \in Nat /\ a <= n /\ Len(R[i]) = n - a
    BY <1>1, <1>2
  <2>2. R[i][p] = us[i][a + p] /\ R[i][q] = us[i][a + q]
    BY <1>1, <1>3
  <2> HIDE DEF a
  <2>3. a + p \in 1 .. n /\ a + q \in 1 .. n /\ a + p < a + q
    <3> HIDE DEF n
    <3> QED  BY <1>3, <2>1
  <2>4. us[i][a + p].key < us[i][a + q].key
    BY <2>3 DEF InOrderAll, Sorted
  <2> QED  BY <2>2, <2>4
<1>4. InOrderAll(R)
  BY <1>1, <1>3 DEF InOrderAll, Sorted
<1> QED  BY <1>4 DEF R

LEMMA LeadsInOrder ==
    ASSUME NEW us, BufsOK(us), InOrderAll(us), NEW bufs, Leads(bufs, us)
    PROVE  InOrderAll(bufs)
<1>1. /\ Len(bufs) = Len(us)
      /\ \A i \in 1 .. Len(us) : \A p \in 1 .. Len(bufs[i]) :
            p \in 1 .. Len(us[i]) /\ bufs[i][p] = us[i][p]
  BY LeadsTyped
<1>2. ASSUME NEW i \in 1 .. Len(us), NEW p \in 1 .. Len(bufs[i]), NEW q \in 1 .. Len(bufs[i]), p < q
      PROVE  bufs[i][p].key < bufs[i][q].key
  <2>1. p \in 1 .. Len(us[i]) /\ q \in 1 .. Len(us[i]) /\ bufs[i][p] = us[i][p] /\ bufs[i][q] = us[i][q]
    BY <1>1
  <2>2. us[i][p].key < us[i][q].key
    BY <1>2, <2>1 DEF InOrderAll, Sorted
  <2> QED  BY <2>1, <2>2
<1> QED  BY <1>1, <1>2 DEF InOrderAll, Sorted

LEMMA PassLeavesInOrder ==
    ASSUME NEW max \in Nat, NEW readers, ReadersOK(readers, max), BufsOK(UnreadOf(readers)),
           InOrderAll(UnreadOf(readers)), NEW m, Served(BufsOf(readers), m),
           NEW left, left = [i \in DOMAIN readers |-> [readers[i] EXCEPT !.buf = m.bufs[i]]]
    PROVE  ReadersOK(left, max) /\ Len(left) = Len(readers) /\ InOrderAll(UnreadOf(left))
<1> DEFINE us == UnreadOf(readers)
<1>1. PICK k : /\ ReadersOK(left, max) /\ Len(left) = Len(readers)
               /\ UnreadOf(left) = Remaining(us, k) /\ Counts(us, k)
  BY PassLeaves
<1>2. BufsOK(us) /\ InOrderAll(us)
  OBVIOUS
<1> HIDE DEF us
<1>3. InOrderAll(Remaining(us, k))
  BY <1>1, <1>2, RemainingInOrder
<1> QED  BY <1>1, <1>3

(* What holds after t passes: as many entries are written, or none is left.   *)
Ending(E, max, t, acc) ==
    /\ Keeping(E, max, acc) /\ acc.result = "ok" /\ Len(acc.readers) \in 0 .. 2
    /\ InOrderAll(UnreadOf(acc.readers))
    /\ \A i \in 1 .. Len(acc.readers) : acc.readers[i].buf # <<>>
    /\ acc.readers # <<>> => Len(acc.out) >= t

LEMMA PassEnds ==
    ASSUME NEW E, Numbered(E), NEW max \in Nat, NEW t \in Nat, NEW acc, Ending(E, max, t, acc)
    PROVE  Ending(E, max, t + 1, Pass(acc, max))
<1> DEFINE readers == acc.readers
           us == UnreadOf(readers)
           bufs == BufsOf(readers)
           m == merge_sort(bufs)
           left == [i \in DOMAIN readers |-> [readers[i] EXCEPT !.buf = m.bufs[i]]]
           next == [out |-> acc.out \o m.out, readers |-> Filled(left, max), result |-> m.result]
<1>1. CASE readers = <<>>
  <2>1. Pass(acc, max) = acc
    BY <1>1 DEF Pass
  <2> QED  BY <1>1, <2>1 DEF Ending
<1>2. CASE readers # <<>>
  <2>1. Pass(acc, max) = next
    BY <1>2 DEF Pass, AfterPass, BufsOf, Ending
  <2>2. /\ ReadersOK(readers, max) /\ BufsOK(us) /\ acc.out \in Seq(EntryType)
        /\ Len(readers) \in 0 .. 2 /\ InOrderAll(us) /\ Len(acc.out) >= t
        /\ \A i \in 1 .. Len(readers) : readers[i].buf # <<>>
    BY <1>2 DEF Ending, Keeping, Flow
  <2>3. /\ DOMAIN readers = 1 .. Len(readers) /\ Len(us) = Len(readers)
        /\ readers \in Seq(ReaderType)
    BY <2>2, ReadersAre DEF ReadersOK
  <2>4. Leads(bufs, us)
    BY <2>2, BufsLead
  <2>5. BufsOK(bufs) /\ InOrderAll(bufs) /\ Len(bufs) = Len(readers)
    BY <2>2, <2>3, <2>4, LeadsOK, LeadsInOrder, LeadsTyped
  <2>6. \A i \in 1 .. Len(readers) : bufs[i] = readers[i].buf
    BY <2>3 DEF BufsOf
  <2>7. Len(readers) \in {1, 2}
    <3>1. Len(readers) # 0
      BY <1>2, <2>3, EmptySeq
    <3> QED  BY <2>2, <3>1
  <2>8. left = [i \in DOMAIN readers |-> [readers[i] EXCEPT !.buf = m.bufs[i]]]
    OBVIOUS
  <2>9. Served(bufs, m)
    BY <2>5, MergeSortServes
  <2>10. m = merge_sort(bufs)
    OBVIOUS
  <2>11. Keeping(E, max, next)
    <3>1. Keeping(E, max, acc)
      BY DEF Ending
    <3>2. Keeping(E, max, Pass(acc, max))
      BY <3>1, PassKeeps
    <3> QED  BY <2>1, <3>2
  <2>12. next.out = acc.out \o m.out /\ next.readers = Filled(left, max) /\ next.result = m.result
    OBVIOUS
  <2> HIDE DEF m, left, next, bufs, us, readers
  <2>13. m.result = "ok" /\ Len(m.out) > 0
    <3>1. \A i \in 1 .. Len(bufs) : bufs[i] # <<>> /\ Sorted(bufs[i])
      BY <2>2, <2>5, <2>6 DEF InOrderAll
    <3> QED  BY <2>5, <2>7, <2>10, <3>1, SortGrows
  <2>14. ReadersOK(left, max) /\ Len(left) = Len(readers) /\ InOrderAll(UnreadOf(left))
    <3>1. Served(BufsOf(readers), m) /\ BufsOK(UnreadOf(readers)) /\ InOrderAll(UnreadOf(readers))
          /\ ReadersOK(readers, max)
      BY <2>2, <2>9 DEF us, bufs
    <3> QED  BY <2>8, <3>1, PassLeavesInOrder
  <2>16. /\ Len(next.readers) \in 0 .. 2 /\ InOrderAll(UnreadOf(next.readers))
         /\ \A i \in 1 .. Len(next.readers) : next.readers[i].buf # <<>>
    <3>1. Len(left) <= 2
      BY <2>7, <2>14
    <3> QED  BY <2>12, <2>14, <3>1, FilledInOrder
  <2>17. Len(next.out) >= t + 1
    <3>1. m.out \in Seq(EntryType)
      BY <2>5, <2>9, ServedBufs DEF AccType
    <3>2. Len(next.out) = Len(acc.out) + Len(m.out) /\ Len(acc.out) \in Nat /\ Len(m.out) \in Nat
      BY <2>2, <2>12, <3>1, ConcatProperties, LenProperties
    <3> DEFINE x == Len(acc.out)
               y == Len(m.out)
               z == Len(next.out)
    <3>3. z = x + y /\ x \in Nat /\ y \in Nat /\ x >= t /\ y > 0
      BY <2>2, <2>13, <3>2
    <3> HIDE DEF x, y, z
    <3>4. z >= t + 1
      BY <3>3
    <3> QED  BY <3>4 DEF z
  <2>18. Ending(E, max, t + 1, next)
    BY <2>11, <2>12, <2>13, <2>16, <2>17 DEF Ending
  <2> QED  BY <2>1, <2>18
<1> QED  BY <1>1, <1>2

LEMMA PassesEnd ==
    ASSUME NEW E, Numbered(E), NEW max \in Nat, NEW base, Ending(E, max, 0, base), NEW n \in Nat
    PROVE  Ending(E, max, n, FoldLeft(LAMBDA acc, e : Pass(acc, max), base, Turns(n)))
<1> DEFINE turns == Turns(n)
<1>1. FoldLeft(LAMBDA acc, e : Pass(acc, max), base, turns) = PassesOver!Result(max, base, turns)
  BY DEF PassesOver!Result, PassStep, FoldLeft, MapThenFoldSet,
         PassesOver!FoldLeft, PassesOver!MapThenFoldSet, PassesOver!Max, Max
<1>2. turns \in Seq(Nat) /\ Len(turns) = n
  BY TurnsTyped
<1> HIDE DEF turns
<1>3. PICK f : PassesOver!IsRun(f, max, base, turns) /\ PassesOver!Result(max, base, turns) = f[Len(turns)]
  BY <1>2, PassesOver!FoldRuns
<1> DEFINE P == {t \in Nat : t <= n => Ending(E, max, t, f[t])}
<1>4. 0 \in P
  BY <1>3 DEF PassesOver!IsRun
<1>5. ASSUME NEW t \in Nat, t \in P PROVE t + 1 \in P
  <2> SUFFICES ASSUME t + 1 <= n PROVE Ending(E, max, t + 1, f[t + 1])
    OBVIOUS
  <2>1. Ending(E, max, t, f[t]) /\ t + 1 \in 1 .. n /\ (t + 1) - 1 = t
    BY <1>5
  <2>2. f[t + 1] = Pass(f[t], max)
    BY <1>2, <1>3, <2>1 DEF PassesOver!IsRun, PassStep
  <2> HIDE DEF P
  <2> QED  BY <2>1, <2>2, PassEnds
<1>6. \A t \in Nat : t \in P
  <2> HIDE DEF P
  <2> QED  BY <1>4, <1>5, Adding!SetInduction
<1>7. Ending(E, max, n, f[n])
  BY <1>6
<1> QED  BY <1>1, <1>2, <1>3, <1>7 DEF turns

LEMMA StartEnds ==
    ASSUME NEW E, NEW max \in Nat, NEW segments, Holds(E, segments), Len(segments) <= 2,
           InOrderAll(EntrySeqs(segments))
    PROVE  Ending(E, max, 0, [out |-> <<>>, result |-> "ok",
                   readers |-> Filled([i \in DOMAIN segments |-> new_read_buf(segments[i])], max)])
<1> DEFINE readers == [i \in DOMAIN segments |-> new_read_buf(segments[i])]
           r == Filled(readers, max)
           base == [out |-> <<>>, result |-> "ok", readers |-> r]
<1>1. Keeping(E, max, base)
  BY StartKeeps
<1>2. readers = [i \in DOMAIN segments |-> new_read_buf(segments[i])]
  OBVIOUS
<1> HIDE DEF readers
<1>3. ReadersOK(readers, max) /\ UnreadOf(readers) = EntrySeqs(segments) /\ Len(readers) = Len(segments)
  BY <1>2, StartReaders
<1>4. /\ Len(r) \in 0 .. 2 /\ InOrderAll(UnreadOf(r))
      /\ \A i \in 1 .. Len(r) : r[i].buf # <<>>
  BY <1>3, FilledInOrder
<1>5. base.out = <<>> /\ base.result = "ok" /\ base.readers = r /\ Len(<<>>) >= 0
  OBVIOUS
<1> HIDE DEF base, r
<1>6. Ending(E, max, 0, base)
  BY <1>1, <1>4, <1>5 DEF Ending
<1> QED  BY <1>6 DEF base, r, readers

(* A set of entries that are all in one of two sequences, or in one.         *)
LEMMA ListedFew ==
    ASSUME NEW X, NEW s, Len(s) \in Nat, \A e \in X : \E p \in 1 .. Len(s) : s[p] = e
    PROVE  IsFiniteSet(X) /\ Cardinality(X) <= Len(s) /\ Cardinality(X) \in Nat
<1> DEFINE S == {p \in 1 .. Len(s) : s[p] \in X}
           g == [p \in S |-> s[p]]
<1>1. IsFiniteSet(1 .. Len(s)) /\ Cardinality(1 .. Len(s)) = Len(s)
  <2> DEFINE n == Len(s)
  <2>1. n \in Int /\ n >= 0
    OBVIOUS
  <2> HIDE DEF n
  <2>2. IsFiniteSet(1 .. n) /\ Cardinality(1 .. n) = IF 1 > n THEN 0 ELSE n - 1 + 1
    BY <2>1, FS_Interval
  <2>3. (IF 1 > n THEN 0 ELSE n - 1 + 1) = n
    BY <2>1
  <2>4. IsFiniteSet(1 .. n) /\ Cardinality(1 .. n) = n
    BY <2>2, <2>3
  <2> QED  BY <2>4 DEF n
<1>2. IsFiniteSet(S) /\ Cardinality(S) <= Len(s) /\ Cardinality(S) \in Nat
  <2>1. S \in SUBSET (1 .. Len(s))
    OBVIOUS
  <2> HIDE DEF S
  <2> QED  BY <1>1, <2>1, FS_Subset, FS_CardinalityType
<1>3. g \in Surjection(S, X)
  <2>1. g \in [S -> X] /\ \A e \in X : \E p \in S : g[p] = e
    OBVIOUS
  <2> HIDE DEF g, S
  <2> QED  BY <2>1 DEF Surjection
<1> HIDE DEF g, S
<1>4. IsFiniteSet(X) /\ Cardinality(X) <= Cardinality(S)
  BY <1>2, <1>3, FS_Surjection
<1>5. Cardinality(X) \in Nat
  BY <1>4, FS_CardinalityType
<1> QED  BY <1>2, <1>4, <1>5

LEMMA TotalOfTwo ==
    ASSUME NEW seqs, DOMAIN seqs = 1 .. 2, Len(seqs[1]) \in Nat, Len(seqs[2]) \in Nat
    PROVE  TotalLength(seqs) = Len(seqs[1]) + Len(seqs[2])
<1> DEFINE a == Len(seqs[1])
           b == Len(seqs[2])
           s == [i \in DOMAIN seqs |-> Len(seqs[i])]
<1>1. s = <<a, b>>
  <2>1. DOMAIN s = 1 .. 2 /\ s[1] = a /\ s[2] = b
    OBVIOUS
  <2>2. s = [i \in 1 .. 2 |-> s[i]]
    OBVIOUS
  <2> HIDE DEF s, a, b
  <2> QED  BY <2>1, <2>2
<1>2. TotalLength(seqs) = SumOf(s)
  BY DEF TotalLength
<1>3. a \in Nat /\ b \in Nat
  OBVIOUS
<1> HIDE DEF s, a, b
<1>4. <<a>> = Append(<<>>, a) /\ <<a, b>> = Append(<<a>>, b) /\ <<>> \in Seq(Nat) /\ <<a>> \in Seq(Nat)
  BY <1>3
<1>5. SumOf(<<a>>) = 0 + a
  BY <1>3, <1>4, SumAppend, SumEmpty
<1>6. SumOf(<<a, b>>) = SumOf(<<a>>) + b
  BY <1>3, <1>4, SumAppend
<1>7. SumOf(<<a, b>>) = a + b
  BY <1>3, <1>5, <1>6
<1> QED  BY <1>1, <1>2, <1>7 DEF a, b

(* There are no more entries than the segments are long together.            *)
LEMMA HeldFew ==
    ASSUME NEW E, NEW segments, Holds(E, segments), Len(segments) \in {1, 2},
           NEW seqs, seqs = [i \in DOMAIN segments |-> segments[i].entries]
    PROVE  IsFiniteSet(E) /\ Cardinality(E) \in Nat /\ Cardinality(E) <= TotalLength(seqs)
           /\ TotalLength(seqs) \in Nat
<1> DEFINE n == Len(segments)
<1>1. n \in Nat /\ DOMAIN seqs = 1 .. n /\ \A i \in 1 .. n : seqs[i] = segments[i].entries
  BY DEF Holds
<1>2. \A i \in 1 .. n : Len(seqs[i]) \in Nat
  <2>1. BufsOK(EntrySeqs(segments)) /\ Len(EntrySeqs(segments)) = n
    BY <1>1 DEF Holds, EntrySeqs
  <2>2. \A i \in 1 .. n : EntrySeqs(segments)[i] = seqs[i]
    BY <1>1 DEF EntrySeqs
  <2> QED  BY <2>1, <2>2, BufsTyped
<1>3. \A e \in E : \E i \in 1 .. n : \E p \in 1 .. Len(seqs[i]) : seqs[i][p] = e
  BY <1>1 DEF Holds
<1>4. n = 1 \/ n = 2
  OBVIOUS
<1> HIDE DEF n
<1>5. TotalLength(seqs) \in Nat
  BY <1>1, <1>2, TotalNat
<1>6. CASE n = 1
  <2>1. \A e \in E : \E p \in 1 .. Len(seqs[1]) : seqs[1][p] = e
    BY <1>3, <1>6
  <2>2. Len(seqs[1]) <= TotalLength(seqs) /\ Len(seqs[1]) \in Nat
    BY <1>1, <1>2, <1>6, TotalCovers
  <2>3. IsFiniteSet(E) /\ Cardinality(E) <= Len(seqs[1]) /\ Cardinality(E) \in Nat
    BY <2>1, <2>2, ListedFew
  <2> QED  BY <1>5, <2>2, <2>3
<1>7. CASE n = 2
  <2> DEFINE A == {e \in E : \E p \in 1 .. Len(seqs[1]) : seqs[1][p] = e}
             B == {e \in E : \E p \in 1 .. Len(seqs[2]) : seqs[2][p] = e}
  <2>1. A \cup B = E
    <3>1. \A e \in E : \/ \E p \in 1 .. Len(seqs[1]) : seqs[1][p] = e
                       \/ \E p \in 1 .. Len(seqs[2]) : seqs[2][p] = e
      BY <1>3, <1>7
    <3> QED  BY <3>1
  <2>2. Len(seqs[1]) \in Nat /\ Len(seqs[2]) \in Nat
    BY <1>2, <1>7
  <2>3. IsFiniteSet(A) /\ Cardinality(A) <= Len(seqs[1]) /\ Cardinality(A) \in Nat
    BY <2>2, ListedFew
  <2>4. IsFiniteSet(B) /\ Cardinality(B) <= Len(seqs[2]) /\ Cardinality(B) \in Nat
    BY <2>2, ListedFew
  <2> HIDE DEF A, B
  <2>5. /\ IsFiniteSet(E)
        /\ Cardinality(E) = Cardinality(A) + Cardinality(B) - Cardinality(A \cap B)
    BY <2>1, <2>3, <2>4, FS_Union
  <2>6. Cardinality(A \cap B) \in Nat /\ Cardinality(E) \in Nat
    <3>1. A \cap B \in SUBSET A
      OBVIOUS
    <3>2. IsFiniteSet(A \cap B)
      BY <2>3, <3>1, FS_Subset
    <3> QED  BY <2>5, <3>2, FS_CardinalityType
  <2>7. TotalLength(seqs) = Len(seqs[1]) + Len(seqs[2])
    BY <1>1, <1>7, <2>2, TotalOfTwo
  <2> DEFINE a == Cardinality(A)
             b == Cardinality(B)
             x == Cardinality(A \cap B)
             l == Len(seqs[1])
             k == Len(seqs[2])
             z == Cardinality(E)
  <2>8. a \in Nat /\ b \in Nat /\ x \in Nat /\ l \in Nat /\ k \in Nat /\ a <= l /\ b <= k /\ z = a + b - x
    BY <2>2, <2>3, <2>4, <2>5, <2>6
  <2> HIDE DEF a, b, x, l, k, z
  <2>9. z <= l + k
    BY <2>8
  <2> QED  BY <1>5, <2>5, <2>6, <2>7, <2>9 DEF z, l, k
<1> QED  BY <1>4, <1>6, <1>7

(* After as many passes as there are entries none can be left.               *)
LEMMA NoneLeft ==
    ASSUME NEW E, IsFiniteSet(E), Cardinality(E) \in Nat, NEW max \in Nat,
           NEW t \in Nat, Cardinality(E) <= t, NEW acc, Ending(E, max, t, acc)
    PROVE  acc.readers = <<>>
<1> SUFFICES ASSUME acc.readers # <<>> PROVE FALSE
  OBVIOUS
<1> DEFINE readers == acc.readers
           out == acc.out
           us == UnreadOf(readers)
           e == us[1][1]
<1>1. /\ ReadersOK(readers, max) /\ Flow(E, max, out, us) /\ Len(out) >= t
      /\ \A i \in 1 .. Len(readers) : readers[i].buf # <<>>
  BY DEF Ending, Keeping
<1>2. Len(readers) # 0 /\ Len(readers) \in Nat
  <2>1. readers \in Seq(ReaderType) /\ readers # <<>>
    BY <1>1 DEF ReadersOK
  <2> HIDE DEF readers
  <2> QED  BY <2>1, EmptySeq, LenProperties
<1>3. 1 \in 1 .. Len(readers) /\ Len(us) = Len(readers) /\ readers[1] \in ReaderType
      /\ us[1] = Unread(readers[1])
  BY <1>1, <1>2, ReadersAre
<1> HIDE DEF readers, out, us
<1>4. 1 \in 1 .. Len(us[1])
  <2>1. /\ readers[1].buf \in Seq(EntryType) /\ readers[1].buf # <<>>
        /\ Len(readers[1].buf) \in Nat /\ Len(readers[1].rest) \in Nat
        /\ Len(us[1]) = Len(readers[1].buf) + Len(readers[1].rest)
    BY <1>1, <1>3, UnreadTyped
  <2>2. Len(readers[1].buf) # 0
    BY <2>1, EmptySeq
  <2> DEFINE a == Len(readers[1].buf)
             b == Len(readers[1].rest)
             c == Len(us[1])
  <2>3. a \in Nat /\ b \in Nat /\ c = a + b /\ a # 0
    BY <2>1, <2>2
  <2> HIDE DEF a, b, c
  <2>4. 1 \in 1 .. c
    BY <2>3
  <2> QED  BY <2>4 DEF c
<1>5. e \in E /\ \A a \in 1 .. Len(out) : out[a] # e
  <2>1. 1 \in 1 .. Len(us)
    BY <1>3
  <2>2. \A i \in 1 .. Len(us) : \A p \in 1 .. Len(us[i]) : us[i][p] \in E
    BY <1>1 DEF Flow
  <2>3. \A a \in 1 .. Len(out), i \in 1 .. Len(us) : \A p \in 1 .. Len(us[i]) : out[a] # us[i][p]
    BY <1>1 DEF Flow
  <2> QED  BY <1>4, <2>1, <2>2, <2>3
<1>6. /\ out \in Seq(EntryType) /\ Len(out) \in Nat
      /\ \A a \in 1 .. Len(out) : out[a] \in E
      /\ \A a, b \in 1 .. Len(out) : out[a] = out[b] => a = b
  BY <1>1, LenProperties DEF Flow
<1> HIDE DEF e
<1>7. IsFiniteSet(E \ {e}) /\ Cardinality(E \ {e}) = Cardinality(E) - 1
  BY <1>5, FS_RemoveElement
<1> DEFINE g == [a \in 1 .. Len(out) |-> out[a]]
<1>8. g \in Injection(1 .. Len(out), E \ {e})
  <2>1. g \in [1 .. Len(out) -> E \ {e}]
    BY <1>5, <1>6
  <2>2. \A a, b \in 1 .. Len(out) : g[a] = g[b] => a = b
    BY <1>6
  <2> HIDE DEF g
  <2> QED  BY <2>1, <2>2 DEF Injection, IsInjective
<1> HIDE DEF g
<1>9. Cardinality(1 .. Len(out)) <= Cardinality(E \ {e})
  BY <1>7, <1>8, FS_Injection
<1>10. Cardinality(1 .. Len(out)) = Len(out)
  <2> DEFINE n == Len(out)
  <2>1. n \in Nat
    BY <1>6
  <2> HIDE DEF n
  <2>2. Cardinality(1 .. n) = n
    BY <2>1, FS_Interval
  <2> QED  BY <2>2 DEF n
<1> QED  BY <1>1, <1>6, <1>7, <1>9, <1>10

(* One or two segments are merged to the end.                                *)
LEMMA MergedEnds ==
    ASSUME NEW E, Numbered(E), NEW max \in Nat, NEW segments, Holds(E, segments),
           Len(segments) \in {1, 2}, InOrderAll(EntrySeqs(segments)),
           NEW m, m = MergedEntries(segments, max)
    PROVE  m.result = "ok"
<1>0. Len(segments) <= 2
  <2> DEFINE k == Len(segments)
  <2>1. k = 1 \/ k = 2
    OBVIOUS
  <2> HIDE DEF k
  <2>2. k <= 2
    BY <2>1
  <2> QED  BY <2>2 DEF k
<1> DEFINE base == [out |-> <<>>, result |-> "ok",
                    readers |-> Filled([i \in DOMAIN segments |-> new_read_buf(segments[i])], max)]
           seqs == [i \in DOMAIN segments |-> segments[i].entries]
           t == TotalLength(seqs)
           last == FoldLeft(LAMBDA acc, e : Pass(acc, max), base, Turns(t))
<1>1. m = Ended(last)
  BY DEF MergedEntries
<1>2. IsFiniteSet(E) /\ Cardinality(E) \in Nat /\ Cardinality(E) <= t /\ t \in Nat
  BY HeldFew
<1>3. Ending(E, max, 0, base)
  BY <1>0, StartEnds
<1> HIDE DEF base, seqs, t
<1>4. Ending(E, max, t, last)
  BY <1>2, <1>3, PassesEnd
<1> HIDE DEF last
<1>5. last.readers = <<>>
  BY <1>2, <1>4, NoneLeft
<1> QED  BY <1>1, <1>4, <1>5 DEF Ended, Ending

LEMMA MergedCollects ==
    ASSUME NEW E, Numbered(E), NEW max \in Nat, NEW segments, Holds(E, segments),
           NEW m, m = MergedEntries(segments, max)
    PROVE  /\ m.result \in {"ok", "spins"}
           /\ Collected(E, m.out)
           /\ m.result = "ok" /\ Fit(E, max) => HasNewest(E, m.out)
<1> DEFINE base == [out |-> <<>>, result |-> "ok",
                    readers |-> Filled([i \in DOMAIN segments |-> new_read_buf(segments[i])], max)]
           seqs == [i \in DOMAIN segments |-> segments[i].entries]
           last == FoldLeft(LAMBDA acc, e : Pass(acc, max), base, Turns(TotalLength(seqs)))
<1>1. m = Ended(last)
  BY DEF MergedEntries
<1>2. TotalLength(seqs) \in Nat
  <2>1. /\ Len(segments) \in Nat /\ DOMAIN seqs = 1 .. Len(segments)
        /\ \A i \in 1 .. Len(segments) : seqs[i] = EntrySeqs(segments)[i]
        /\ BufsOK(EntrySeqs(segments)) /\ Len(EntrySeqs(segments)) = Len(segments)
    BY DEF Holds, EntrySeqs
  <2>2. \A i \in 1 .. Len(segments) : Len(EntrySeqs(segments)[i]) \in Nat
    BY <2>1, BufsTyped
  <2>3. \A i \in 1 .. Len(segments) : Len(seqs[i]) \in Nat
    BY <2>1, <2>2
  <2> HIDE DEF seqs
  <2> QED  BY <2>1, <2>3, TotalNat
<1>3. Keeping(E, max, base)
  BY StartKeeps
<1> HIDE DEF base, seqs
<1>4. Keeping(E, max, last)
  BY <1>2, <1>3, PassesKeep
<1> HIDE DEF last
<1>5. /\ m.out = last.out /\ m.result \in {"ok", "spins"}
      /\ m.result = "ok" => last.readers = <<>>
  <2>1. CASE last.readers = <<>>
    BY <1>1, <1>4, <2>1 DEF Ended, Keeping
  <2>2. CASE last.readers # <<>>
    BY <1>1, <1>4, <2>2 DEF Ended
  <2> QED  BY <2>1, <2>2
<1>6. Flow(E, max, last.out, UnreadOf(last.readers))
  BY <1>4 DEF Keeping
<1>7. Collected(E, last.out)
  BY <1>6 DEF Flow, Collected
<1>8. ASSUME m.result = "ok", Fit(E, max) PROVE HasNewest(E, last.out)
  <2>1. UnreadOf(<<>>) = <<>> /\ 1 .. Len(<<>>) = {}
    BY DEF UnreadOf
  <2>2. Flow(E, max, last.out, <<>>)
    BY <1>5, <1>6, <1>8, <2>1
  <2>3. ASSUME NEW e, NewestIn(E, e) PROVE \E a \in 1 .. Len(last.out) : last.out[a] = e
    BY <1>8, <2>1, <2>2, <2>3 DEF Flow
  <2> QED  BY <2>3 DEF HasNewest
<1> QED  BY <1>5, <1>7, <1>8

-----------------------------------------------------------------------------
(* The split into files                                                     *)

LEMMA FrontCut ==
    ASSUME NEW S, NEW s \in Seq(S), Len(s) > 0
    PROVE  IsCut(Front(s), S, s, 0, Len(s) - 1)
<1>1. Len(s) \in Nat /\ Len(s) - 1 \in Nat /\ 0 <= Len(s) - 1 /\ Len(s) - 1 <= Len(s) /\ 0 + 1 = 1
  BY LenProperties
<1>2. Front(s) = Cut(s, 0, Len(s) - 1)
  BY <1>1 DEF Front, Cut
<1> QED  BY <1>1, <1>2, CutIs

(* A new file with one entry.                                                *)
GrownNew(files, e, g) ==
    /\ g \in Seq(Seq(EntryType)) /\ Len(g) = Len(files) + 1
    /\ \A j \in 1 .. Len(files) : g[j] = files[j]
    /\ g[Len(files) + 1] = <<e>>

(* One more entry in the last file.                                         *)
GrownLast(files, e, g) ==
    /\ g \in Seq(Seq(EntryType)) /\ Len(g) = Len(files)
    /\ \A j \in 1 .. Len(files) : j < Len(files) => g[j] = files[j]
    /\ g[Len(files)] = Append(files[Len(files)], e)

LEMMA FilesTyped ==
    ASSUME NEW files \in Seq(Seq(EntryType))
    PROVE  /\ Len(files) \in Nat /\ DOMAIN files = 1 .. Len(files)
           /\ \A j \in 1 .. Len(files) : files[j] \in Seq(EntryType) /\ Len(files[j]) \in Nat
<1>1. Len(files) \in Nat /\ DOMAIN files = 1 .. Len(files)
  BY LenProperties
<1>2. \A j \in 1 .. Len(files) : files[j] \in Seq(EntryType)
  OBVIOUS
<1> QED  BY <1>1, <1>2, LenProperties

LEMMA NewGrown ==
    ASSUME NEW files \in Seq(Seq(EntryType)), NEW e \in EntryType
    PROVE  GrownNew(files, e, Append(files, <<e>>))
<1>1. <<e>> \in Seq(EntryType)
  OBVIOUS
<1>2. /\ Append(files, <<e>>) \in Seq(Seq(EntryType))
      /\ Len(Append(files, <<e>>)) = Len(files) + 1
      /\ \A i \in 1 .. Len(files) : Append(files, <<e>>)[i] = files[i]
      /\ Append(files, <<e>>)[Len(files) + 1] = <<e>>
  BY <1>1, AppendProperties
<1> DEFINE g == Append(files, <<e>>)
<1>3. /\ g \in Seq(Seq(EntryType)) /\ Len(g) = Len(files) + 1
      /\ \A i \in 1 .. Len(files) : g[i] = files[i]
      /\ g[Len(files) + 1] = <<e>>
  BY <1>2
<1> HIDE DEF g
<1>4. GrownNew(files, e, g)
  BY <1>3 DEF GrownNew
<1> QED  BY <1>4 DEF g

LEMMA LastGrown ==
    ASSUME NEW files \in Seq(Seq(EntryType)), Len(files) > 0, NEW e \in EntryType
    PROVE  GrownLast(files, e, Front(files) \o <<Append(Last(files), e)>>)
<1> DEFINE n == Len(files)
           f == Front(files)
           a == Append(files[n], e)
           g == f \o <<a>>
<1>1. n \in Nat /\ n > 0 /\ n \in 1 .. n /\ files[n] \in Seq(EntryType)
  BY FilesTyped
<1>2. Last(files) = files[n]
  BY DEF Last
<1>3. a \in Seq(EntryType)
  BY <1>1, AppendProperties
<1>4. IsCut(f, Seq(EntryType), files, 0, n - 1)
  BY FrontCut
<1> HIDE DEF n, f, a
<1>5. /\ f \in Seq(Seq(EntryType)) /\ Len(f) = n - 1
      /\ \A p \in 1 .. n - 1 : f[p] = files[p]
  <2>1. /\ f \in Seq(Seq(EntryType)) /\ Len(f) = (n - 1) - 0
        /\ \A p \in 1 .. (n - 1) - 0 : f[p] = files[0 + p]
    BY <1>4 DEF IsCut
  <2>2. (n - 1) - 0 = n - 1 /\ \A p \in 1 .. n - 1 : 0 + p = p
    BY <1>1
  <2> QED  BY <2>1, <2>2
<1>6. <<a>> \in Seq(Seq(EntryType)) /\ Len(<<a>>) = 1 /\ <<a>>[1] = a
  BY <1>3
<1> DEFINE w == <<a>>
<1>7. w \in Seq(Seq(EntryType)) /\ Len(w) = 1 /\ w[1] = a
  BY <1>6
<1> HIDE DEF w
<1>8. /\ f \o w \in Seq(Seq(EntryType)) /\ Len(f \o w) = Len(f) + Len(w)
      /\ \A i \in 1 .. Len(f) + Len(w) : (f \o w)[i] = IF i <= Len(f) THEN f[i] ELSE w[i - Len(f)]
  BY <1>5, <1>7, ConcatProperties
<1> DEFINE h == f \o w
<1>9. /\ h \in Seq(Seq(EntryType)) /\ Len(h) = Len(f) + Len(w)
      /\ \A i \in 1 .. Len(f) + Len(w) : h[i] = IF i <= Len(f) THEN f[i] ELSE w[i - Len(f)]
  BY <1>8
<1> HIDE DEF h
<1>10. Len(f) + Len(w) = n /\ n \in 1 .. Len(f) + Len(w) /\ ~(n <= Len(f)) /\ n - Len(f) = 1
  BY <1>1, <1>5, <1>7
<1>11. h[n] = a
  BY <1>7, <1>9, <1>10
<1>12. \A j \in 1 .. n : j < n => h[j] = files[j]
  <2>1. ASSUME NEW j \in 1 .. n, j < n PROVE h[j] = files[j]
    <3>1. j \in 1 .. n - 1 /\ j <= Len(f) /\ j \in 1 .. Len(f) + Len(w)
      BY <1>1, <1>5, <1>10, <2>1
    <3> QED  BY <1>5, <1>9, <3>1
  <2> QED  BY <2>1
<1>13. GrownLast(files, e, h)
  BY <1>9, <1>10, <1>11, <1>12 DEF GrownLast, n, a
<1> QED  BY <1>2, <1>13 DEF h, w, f, a

SplitStep(factor, files, e) ==
    IF reached_target_size(Last(files), factor)
    THEN Append(files, <<e>>)
    ELSE Front(files) \o <<Append(Last(files), e)>>

Splitting == INSTANCE Iteration WITH Step <- SplitStep

LEMMA SplitGrows ==
    ASSUME NEW files \in Seq(Seq(EntryType)), Len(files) > 0, NEW e \in EntryType, NEW factor,
           NEW g, g = SplitStep(factor, files, e)
    PROVE  \/ reached_target_size(files[Len(files)], factor) /\ GrownNew(files, e, g)
           \/ ~reached_target_size(files[Len(files)], factor) /\ GrownLast(files, e, g)
<1>1. Last(files) = files[Len(files)]
  BY DEF Last
<1>2. CASE reached_target_size(files[Len(files)], factor)
  <2>1. g = Append(files, <<e>>)
    BY <1>1, <1>2, Zenon DEF SplitStep
  <2> QED  BY <1>2, <2>1, NewGrown
<1>3. CASE ~reached_target_size(files[Len(files)], factor)
  <2>1. g = Front(files) \o <<Append(Last(files), e)>>
    BY <1>1, <1>3, Zenon DEF SplitStep
  <2>2. GrownLast(files, e, Front(files) \o <<Append(Last(files), e)>>)
    BY LastGrown
  <2> QED  BY <1>3, <2>1, <2>2, Zenon
<1> QED  BY <1>2, <1>3

(* One more entry, behind all the others.                                    *)
Adds(files, e, g, i, k) ==
    /\ g \in Seq(Seq(EntryType))
    /\ i \in 1 .. Len(g) /\ k \in 1 .. Len(g[i]) /\ g[i][k] = e
    /\ \A j \in 1 .. Len(g) : \A m \in 1 .. Len(g[j]) :
          \/ j = i /\ m = k
          \/ j \in 1 .. Len(files) /\ m \in 1 .. Len(files[j]) /\ g[j][m] = files[j][m]
    /\ \A j \in 1 .. Len(files) : \A m \in 1 .. Len(files[j]) :
          j \in 1 .. Len(g) /\ m \in 1 .. Len(g[j]) /\ g[j][m] = files[j][m]

LEMMA NewAdds ==
    ASSUME NEW files \in Seq(Seq(EntryType)), NEW e \in EntryType, NEW g, GrownNew(files, e, g)
    PROVE  Adds(files, e, g, Len(files) + 1, 1)
<1> DEFINE n == Len(files)
<1>1. n \in Nat /\ \A j \in 1 .. n : Len(files[j]) \in Nat
  BY FilesTyped
<1>2. /\ g \in Seq(Seq(EntryType)) /\ Len(g) = n + 1 /\ g[n + 1] = <<e>>
      /\ \A j \in 1 .. n : g[j] = files[j]
  BY DEF GrownNew
<1>3. Len(<<e>>) = 1 /\ <<e>>[1] = e
  OBVIOUS
<1> HIDE DEF n
<1>4. n + 1 \in 1 .. Len(g) /\ Len(g[n + 1]) = 1 /\ g[n + 1][1] = e /\ 1 \in 1 .. Len(g[n + 1])
  BY <1>1, <1>2, <1>3
<1>5. ASSUME NEW j \in 1 .. Len(g), NEW m \in 1 .. Len(g[j])
      PROVE  \/ j = n + 1 /\ m = 1
             \/ j \in 1 .. n /\ m \in 1 .. Len(files[j]) /\ g[j][m] = files[j][m]
  <2>1. j = n + 1 \/ j \in 1 .. n
    BY <1>1, <1>2
  <2>2. CASE j = n + 1
    <3>1. m \in 1 .. 1
      BY <1>4, <2>2
    <3>2. m = 1
      BY <3>1
    <3> QED  BY <2>2, <3>2
  <2>3. CASE j \in 1 .. n
    BY <1>2, <2>3
  <2> QED  BY <2>1, <2>2, <2>3
<1>6. ASSUME NEW j \in 1 .. n, NEW m \in 1 .. Len(files[j])
      PROVE  j \in 1 .. Len(g) /\ m \in 1 .. Len(g[j]) /\ g[j][m] = files[j][m]
  <2>1. j \in 1 .. Len(g)
    BY <1>1, <1>2
  <2>2. g[j] = files[j]
    BY <1>2
  <2> QED  BY <2>1, <2>2
<1> QED  BY <1>2, <1>4, <1>5, <1>6 DEF Adds, n

LEMMA LastAdds ==
    ASSUME NEW files \in Seq(Seq(EntryType)), Len(files) > 0, NEW e \in EntryType, NEW g,
           GrownLast(files, e, g)
    PROVE  Adds(files, e, g, Len(files), Len(files[Len(files)]) + 1)
<1> DEFINE n == Len(files)
           s == files[n]
           a == Append(s, e)
           k == Len(s) + 1
<1>1. n \in Nat /\ n \in 1 .. n /\ s \in Seq(EntryType) /\ Len(s) \in Nat
  BY FilesTyped
<1>2. /\ g \in Seq(Seq(EntryType)) /\ Len(g) = n /\ g[n] = a
      /\ \A j \in 1 .. n : j < n => g[j] = files[j]
  BY DEF GrownLast
<1>3. Len(a) = k /\ a[k] = e /\ \A m \in 1 .. Len(s) : a[m] = s[m]
  BY <1>1, AppendProperties
<1> HIDE DEF a
<1>4. k \in 1 .. k /\ k \in Nat /\ \A m \in 1 .. k : m = k \/ m \in 1 .. Len(s)
  BY <1>1
<1>5. \A m \in 1 .. Len(s) : m \in 1 .. k
  BY <1>1
<1> HIDE DEF k
<1>6. files[n] = s
  OBVIOUS
<1> HIDE DEF n, s
<1>7. ASSUME NEW j \in 1 .. Len(g), NEW m \in 1 .. Len(g[j])
      PROVE  \/ j = n /\ m = k
             \/ j \in 1 .. n /\ m \in 1 .. Len(files[j]) /\ g[j][m] = files[j][m]
  <2>1. j \in 1 .. n /\ (j = n \/ j < n)
    BY <1>1, <1>2
  <2>2. CASE j = n
    <3>1. m \in 1 .. k /\ g[j][m] = a[m]
      <4>1. g[j] = a
        BY <1>2, <2>2
      <4>2. m \in 1 .. Len(a)
        BY <4>1
      <4> QED  BY <1>3, <4>1, <4>2
    <3>2. CASE m = k
      BY <2>2, <3>2
    <3>3. CASE m \in 1 .. Len(s)
      <4>1. a[m] = s[m] /\ files[j] = s
        BY <1>3, <1>6, <2>2, <3>3
      <4> QED  BY <2>1, <3>1, <3>3, <4>1
    <3>4. m = k \/ m \in 1 .. Len(s)
      BY <1>4, <3>1
    <3> QED  BY <3>2, <3>3, <3>4
  <2>3. CASE j < n
    <3>1. g[j] = files[j]
      BY <1>2, <2>1, <2>3
    <3> QED  BY <2>1, <3>1
  <2> QED  BY <2>1, <2>2, <2>3
<1>8. ASSUME NEW j \in 1 .. n, NEW m \in 1 .. Len(files[j])
      PROVE  j \in 1 .. Len(g) /\ m \in 1 .. Len(g[j]) /\ g[j][m] = files[j][m]
  <2>1. j \in 1 .. Len(g) /\ (j = n \/ j < n)
    BY <1>1, <1>2
  <2>2. CASE j = n
    <3>1. m \in 1 .. Len(s)
      BY <1>6, <2>2
    <3>2. m \in 1 .. k /\ a[m] = s[m]
      BY <1>3, <1>5, <3>1
    <3>3. g[j] = a /\ Len(a) = k /\ files[j] = s
      BY <1>2, <1>3, <1>6, <2>2
    <3>4. a[m] = s[m]
      BY <1>3, <3>1
    <3> QED  BY <2>1, <3>2, <3>3, <3>4
  <2>3. CASE j < n
    <3>1. g[j] = files[j]
      BY <1>2, <2>3
    <3> QED  BY <2>1, <3>1
  <2> QED  BY <2>1, <2>2, <2>3
<1>9. n \in 1 .. Len(g) /\ k \in 1 .. Len(g[n]) /\ g[n][k] = e
  BY <1>1, <1>2, <1>3, <1>4
<1> HIDE DEF k
<1>10. Adds(files, e, g, n, k)
  <2>1. Len(files) = n
    BY DEF n
  <2> QED  BY <1>2, <1>7, <1>8, <1>9, <2>1 DEF Adds
<1> QED  BY <1>10 DEF n, k, s

(* The first t entries of out are in the files, at one place each.           *)
Distributed(files, out, t) ==
    /\ BufsOK(files)
    /\ \A j \in 1 .. Len(files) : \A k \in 1 .. Len(files[j]) : \E a \in 1 .. t : files[j][k] = out[a]
    /\ \A a \in 1 .. t : \E j \in 1 .. Len(files) : \E k \in 1 .. Len(files[j]) : files[j][k] = out[a]

LEMMA AddsDistributes ==
    ASSUME NEW out \in Seq(EntryType), \A a, b \in 1 .. Len(out) : out[a] = out[b] => a = b,
           NEW t \in Nat, t + 1 <= Len(out), NEW files, Distributed(files, out, t),
           NEW g, NEW i, NEW k, Adds(files, out[t + 1], g, i, k)
    PROVE  Distributed(g, out, t + 1)
<1> DEFINE e == out[t + 1]
<1>1. /\ g \in Seq(Seq(EntryType))
      /\ i \in 1 .. Len(g) /\ k \in 1 .. Len(g[i]) /\ g[i][k] = e
      /\ \A j \in 1 .. Len(g) : \A m \in 1 .. Len(g[j]) :
            \/ j = i /\ m = k
            \/ j \in 1 .. Len(files) /\ m \in 1 .. Len(files[j]) /\ g[j][m] = files[j][m]
      /\ \A j \in 1 .. Len(files) : \A m \in 1 .. Len(files[j]) :
            j \in 1 .. Len(g) /\ m \in 1 .. Len(g[j]) /\ g[j][m] = files[j][m]
  BY DEF Adds
<1>2. /\ \A p, q \in 1 .. Len(files) : \A m \in 1 .. Len(files[p]), l \in 1 .. Len(files[q]) :
            files[p][m] = files[q][l] => p = q /\ m = l
      /\ \A j \in 1 .. Len(files) : \A m \in 1 .. Len(files[j]) : \E a \in 1 .. t : files[j][m] = out[a]
      /\ \A a \in 1 .. t : \E j \in 1 .. Len(files) : \E m \in 1 .. Len(files[j]) : files[j][m] = out[a]
  BY DEF Distributed, BufsOK
<1>3. t + 1 \in 1 .. t + 1 /\ \A a \in 1 .. t + 1 : a = t + 1 \/ a \in 1 .. t
  OBVIOUS
<1>4. \A j \in 1 .. Len(files) : \A m \in 1 .. Len(files[j]) : files[j][m] # e
  <2>1. ASSUME NEW j \in 1 .. Len(files), NEW m \in 1 .. Len(files[j]), files[j][m] = e PROVE FALSE
    <3>1. PICK a \in 1 .. t : files[j][m] = out[a]
      BY <1>2
    <3>2. out[a] = out[t + 1] /\ a \in 1 .. Len(out) /\ t + 1 \in 1 .. Len(out) /\ a # t + 1
      BY <2>1, <3>1, LenProperties
    <3> QED  BY <3>2
  <2> QED  BY <2>1
<1> HIDE DEF e
<1>5. ASSUME NEW p \in 1 .. Len(g), NEW q \in 1 .. Len(g), NEW m \in 1 .. Len(g[p]),
             NEW l \in 1 .. Len(g[q]), g[p][m] = g[q][l]
      PROVE  p = q /\ m = l
  <2> DEFINE old(j, x) == j \in 1 .. Len(files) /\ x \in 1 .. Len(files[j]) /\ g[j][x] = files[j][x]
  <2>1. ((p = i /\ m = k) \/ old(p, m)) /\ ((q = i /\ l = k) \/ old(q, l))
    BY <1>1
  <2>2. CASE old(p, m) /\ old(q, l)
    <3>1. files[p][m] = files[q][l]
      BY <1>5, <2>2
    <3>2. \A x \in 1 .. Len(files[p]), y \in 1 .. Len(files[q]) : files[p][x] = files[q][y] => p = q /\ x = y
      BY <1>2, <2>2
    <3>3. files[p][m] = files[q][l] => p = q /\ m = l
      BY <2>2, <3>2
    <3> QED  BY <3>1, <3>3
  <2>3. CASE p = i /\ m = k /\ old(q, l)
    <3>1. files[q][l] = e
      BY <1>1, <1>5, <2>3
    <3> QED  BY <1>4, <2>3, <3>1
  <2>4. CASE old(p, m) /\ q = i /\ l = k
    <3>1. files[p][m] = e
      BY <1>1, <1>5, <2>4
    <3> QED  BY <1>4, <2>4, <3>1
  <2>5. CASE p = i /\ m = k /\ q = i /\ l = k
    BY <2>5
  <2> HIDE DEF old
  <2> QED  BY <2>1, <2>2, <2>3, <2>4, <2>5
<1>6. ASSUME NEW j \in 1 .. Len(g), NEW m \in 1 .. Len(g[j])
      PROVE  \E a \in 1 .. t + 1 : g[j][m] = out[a]
  <2>1. CASE j = i /\ m = k
    <3>1. g[j][m] = out[t + 1]
      BY <1>1, <2>1 DEF e
    <3> QED  BY <1>3, <3>1
  <2>2. CASE j \in 1 .. Len(files) /\ m \in 1 .. Len(files[j]) /\ g[j][m] = files[j][m]
    <3>1. PICK a \in 1 .. t : files[j][m] = out[a]
      BY <1>2, <2>2
    <3>2. a \in 1 .. t + 1
      OBVIOUS
    <3> QED  BY <2>2, <3>1, <3>2
  <2> QED  BY <1>1, <2>1, <2>2
<1>7. ASSUME NEW a \in 1 .. t + 1
      PROVE  \E j \in 1 .. Len(g) : \E m \in 1 .. Len(g[j]) : g[j][m] = out[a]
  <2>1. CASE a = t + 1
    BY <1>1, <2>1 DEF e
  <2>2. CASE a \in 1 .. t
    <3>1. PICK j \in 1 .. Len(files) : \E m \in 1 .. Len(files[j]) : files[j][m] = out[a]
      BY <1>2, <2>2
    <3>2. PICK m \in 1 .. Len(files[j]) : files[j][m] = out[a]
      BY <3>1
    <3>3. j \in 1 .. Len(g) /\ m \in 1 .. Len(g[j]) /\ g[j][m] = files[j][m]
      BY <1>1
    <3> QED  BY <3>2, <3>3
  <2> QED  BY <1>3, <2>1, <2>2
<1>8. BufsOK(g)
  BY <1>1, <1>5 DEF BufsOK
<1> QED  BY <1>6, <1>7, <1>8 DEF Distributed

LEMMA FrontAppend ==
    ASSUME NEW s \in Seq(EntryType), NEW e \in EntryType
    PROVE  Front(Append(s, e)) = s
<1> DEFINE a == Append(s, e)
           f == Front(a)
<1>1. Len(s) \in Nat
  BY LenProperties
<1>2. a \in Seq(EntryType) /\ Len(a) = Len(s) + 1 /\ \A i \in 1 .. Len(s) : a[i] = s[i]
  BY AppendProperties
<1> HIDE DEF a
<1>3. IsCut(f, EntryType, a, 0, Len(a) - 1)
  BY <1>1, <1>2, FrontCut
<1> HIDE DEF f
<1>4. /\ f \in Seq(EntryType) /\ Len(f) = (Len(a) - 1) - 0
      /\ \A p \in 1 .. (Len(a) - 1) - 0 : f[p] = a[0 + p]
  BY <1>3 DEF IsCut
<1>5. (Len(a) - 1) - 0 = Len(s) /\ \A p \in 1 .. Len(s) : 0 + p = p
  BY <1>1, <1>2
<1>6. Len(f) = Len(s) /\ \A p \in 1 .. Len(s) : f[p] = s[p]
  BY <1>2, <1>4, <1>5
<1>7. f = s
  BY <1>4, <1>6, SeqEqual
<1> QED  BY <1>7 DEF f, a

(* Every file but the last has reached its target size, and none had with an *)
(* entry less.                                                              *)
CutInTime(files, factor) ==
    /\ files \in Seq(Seq(EntryType)) /\ Len(files) > 0
    /\ \A j \in 1 .. Len(files) : j < Len(files) => reached_target_size(files[j], factor)
    /\ \A j \in 1 .. Len(files) : Len(files[j]) <= 1 \/ ~reached_target_size(Front(files[j]), factor)

LEMMA GrownInTime ==
    ASSUME NEW factor, NEW files, CutInTime(files, factor), NEW e \in EntryType,
           NEW g, g = SplitStep(factor, files, e)
    PROVE  CutInTime(g, factor) /\ \E i, k : Adds(files, e, g, i, k)
<1> DEFINE n == Len(files)
<1>1. /\ files \in Seq(Seq(EntryType)) /\ n > 0 /\ n \in Nat
      /\ \A j \in 1 .. n : j < n => reached_target_size(files[j], factor)
      /\ \A j \in 1 .. n : Len(files[j]) <= 1 \/ ~reached_target_size(Front(files[j]), factor)
      /\ \A j \in 1 .. n : files[j] \in Seq(EntryType)
  BY FilesTyped DEF CutInTime
<1>2. \/ reached_target_size(files[n], factor) /\ GrownNew(files, e, g)
      \/ ~reached_target_size(files[n], factor) /\ GrownLast(files, e, g)
  BY <1>1, SplitGrows
<1> HIDE DEF n
<1>3. CASE reached_target_size(files[n], factor) /\ GrownNew(files, e, g)
  <2>1. /\ g \in Seq(Seq(EntryType)) /\ Len(g) = n + 1 /\ g[n + 1] = <<e>>
        /\ \A j \in 1 .. n : g[j] = files[j]
    BY <1>3 DEF GrownNew, n
  <2>2. Len(<<e>>) = 1
    OBVIOUS
  <2>3. \A j \in 1 .. Len(g) : j = n + 1 \/ j \in 1 .. n
    BY <1>1, <2>1
  <2>4. ASSUME NEW j \in 1 .. Len(g), j < Len(g) PROVE reached_target_size(g[j], factor)
    <3>1. j \in 1 .. n /\ (j = n \/ j < n)
      <4>1. n \in Nat /\ Len(g) = n + 1
        BY <1>1, <2>1
      <4> QED  BY <2>4, <4>1
    <3>2. reached_target_size(files[j], factor)
      BY <1>1, <1>3, <3>1
    <3> QED  BY <2>1, <3>1, <3>2
  <2>5. ASSUME NEW j \in 1 .. Len(g)
        PROVE  Len(g[j]) <= 1 \/ ~reached_target_size(Front(g[j]), factor)
    <3>1. CASE j = n + 1
      <4>1. Len(g[j]) = 1
        BY <2>1, <2>2, <3>1
      <4> QED  BY <4>1
    <3>2. CASE j \in 1 .. n
      <4>1. g[j] = files[j]
        BY <2>1, <3>2
      <4> QED  BY <1>1, <3>2, <4>1
    <3> QED  BY <2>3, <3>1, <3>2
  <2>6. CutInTime(g, factor)
    <3>1. Len(g) > 0
      BY <1>1, <2>1
    <3> QED  BY <2>1, <2>4, <2>5, <3>1 DEF CutInTime
  <2>7. Adds(files, e, g, n + 1, 1)
    BY <1>1, <1>3, NewAdds DEF n
  <2> QED  BY <2>6, <2>7
<1>4. CASE ~reached_target_size(files[n], factor) /\ GrownLast(files, e, g)
  <2>1. /\ g \in Seq(Seq(EntryType)) /\ Len(g) = n /\ g[n] = Append(files[n], e)
        /\ \A j \in 1 .. n : j < n => g[j] = files[j]
    BY <1>4 DEF GrownLast, n
  <2>2. n \in 1 .. n /\ files[n] \in Seq(EntryType)
    BY <1>1
  <2>3. Front(g[n]) = files[n]
    <3>1. Front(Append(files[n], e)) = files[n]
      BY <2>2, FrontAppend
    <3> QED  BY <2>1, <3>1, Zenon
  <2>4. ASSUME NEW j \in 1 .. Len(g), j < Len(g) PROVE reached_target_size(g[j], factor)
    BY <1>1, <2>1, <2>4
  <2>5. ASSUME NEW j \in 1 .. Len(g)
        PROVE  Len(g[j]) <= 1 \/ ~reached_target_size(Front(g[j]), factor)
    <3>1. CASE j = n
      BY <1>4, <2>3, <3>1
    <3>2. CASE j < n
      <4>1. g[j] = files[j] /\ j \in 1 .. n
        BY <2>1, <3>2
      <4> QED  BY <1>1, <4>1
    <3>3. j = n \/ j < n
      BY <1>1, <2>1
    <3> QED  BY <3>1, <3>2, <3>3
  <2>6. CutInTime(g, factor)
    <3>1. Len(g) > 0
      BY <1>1, <2>1
    <3> QED  BY <2>1, <2>4, <2>5, <3>1 DEF CutInTime
  <2>7. Adds(files, e, g, n, Len(files[n]) + 1)
    BY <1>1, <1>4, LastAdds DEF n
  <2> QED  BY <2>6, <2>7
<1> QED  BY <1>2, <1>3, <1>4

(* The files a merge writes hold its entries, each once, and are cut when    *)
(* they have reached their size.                                            *)
LEMMA SplitDistributes ==
    ASSUME NEW out \in Seq(EntryType), \A a, b \in 1 .. Len(out) : out[a] = out[b] => a = b,
           NEW factor
    PROVE  Distributed(Split(out, factor), out, Len(out)) /\ CutInTime(Split(out, factor), factor)
<1> DEFINE base == << <<>> >>
<1>1. Split(out, factor) = Splitting!Result(factor, base, out)
  BY DEF Split, Splitting!Result, SplitStep, FoldLeft, MapThenFoldSet,
         Splitting!FoldLeft, Splitting!MapThenFoldSet, Splitting!Max, Max
<1>2. /\ base \in Seq(Seq(EntryType)) /\ Len(base) = 1 /\ base[1] = <<>> /\ Len(base[1]) = 0
  BY EmptySeq
<1> HIDE DEF base
<1>3. Distributed(base, out, 0) /\ CutInTime(base, factor)
  <2>1. \A j \in 1 .. Len(base) : j = 1 /\ Len(base[j]) = 0
    BY <1>2
  <2>2. \A j \in 1 .. Len(base) : \A k \in 1 .. Len(base[j]) : FALSE
    BY <2>1
  <2>3. 1 .. 0 = {}
    OBVIOUS
  <2>4. BufsOK(base)
    BY <1>2, <2>2 DEF BufsOK
  <2>5. Distributed(base, out, 0)
    BY <2>2, <2>3, <2>4 DEF Distributed
  <2>6. \A j \in 1 .. Len(base) : ~(j < Len(base)) /\ Len(base[j]) <= 1
    BY <1>2, <2>1
  <2> QED  BY <1>2, <2>5, <2>6 DEF CutInTime
<1>4. PICK f : Splitting!IsRun(f, factor, base, out) /\ Splitting!Result(factor, base, out) = f[Len(out)]
  BY Splitting!FoldRuns
<1> DEFINE P == {t \in Nat : t <= Len(out) => Distributed(f[t], out, t) /\ CutInTime(f[t], factor)}
<1>5. 0 \in P
  BY <1>3, <1>4 DEF Splitting!IsRun
<1>6. ASSUME NEW t \in Nat, t \in P PROVE t + 1 \in P
  <2> SUFFICES ASSUME t + 1 <= Len(out)
               PROVE  Distributed(f[t + 1], out, t + 1) /\ CutInTime(f[t + 1], factor)
    OBVIOUS
  <2>1. Len(out) \in Nat
    BY LenProperties
  <2>2. Distributed(f[t], out, t) /\ CutInTime(f[t], factor) /\ t + 1 \in 1 .. Len(out) /\ (t + 1) - 1 = t
    BY <1>6, <2>1
  <2>3. f[t + 1] = SplitStep(factor, f[t], out[t + 1])
    BY <1>4, <2>2 DEF Splitting!IsRun
  <2>4. out[t + 1] \in EntryType
    BY <2>2, ElementOfSeq
  <2> HIDE DEF P
  <2>5. CutInTime(f[t + 1], factor) /\ \E i, k : Adds(f[t], out[t + 1], f[t + 1], i, k)
    BY <2>2, <2>3, <2>4, GrownInTime
  <2>6. PICK i, k : Adds(f[t], out[t + 1], f[t + 1], i, k)
    BY <2>5
  <2>7. Distributed(f[t + 1], out, t + 1)
    BY <2>2, <2>6, AddsDistributes
  <2> QED  BY <2>5, <2>7
<1>7. \A t \in Nat : t \in P
  <2> HIDE DEF P
  <2> QED  BY <1>5, <1>6, Adding!SetInduction
<1>8. Len(out) \in Nat
  BY LenProperties
<1>9. Distributed(f[Len(out)], out, Len(out)) /\ CutInTime(f[Len(out)], factor)
  BY <1>7, <1>8
<1> QED  BY <1>1, <1>4, <1>9

-----------------------------------------------------------------------------
(* The segments of the new level                                            *)

(* e at the p-th place, all others in their order.                           *)
Inserted(S, s, p, e, g) ==
    /\ g \in Seq(S) /\ Len(g) = Len(s) + 1
    /\ \A q \in 1 .. Len(s) + 1 : q < p => g[q] = s[q]
    /\ g[p] = e
    /\ \A q \in 1 .. Len(s) + 1 : p < q => g[q] = s[q - 1]

LEMMA InsertIs ==
    ASSUME NEW S, NEW s \in Seq(S), NEW e \in S, NEW p \in 1 .. Len(s) + 1
    PROVE  Inserted(S, s, p, e, InsertAt(s, p, e))
<1> DEFINE n == Len(s)
           m == p - 1
           u == Cut(s, 0, m)
           v == Cut(s, m, n)
           w == <<e>>
           x == u \o w
           g == x \o v
<1>1. /\ n \in Nat /\ m \in Nat /\ m <= n /\ p \in Nat /\ 0 + 1 = 1 /\ m + 1 = p
      /\ m - 0 = m /\ \A q \in 1 .. m : 0 + q = q
  BY LenProperties
<1>2. InsertAt(s, p, e) = g
  <2> HIDE DEF m
  <2>1. u = SubSeq(s, 1, m) /\ v = SubSeq(s, p, n)
    BY <1>1 DEF Cut
  <2>2. InsertAt(s, p, e) = (SubSeq(s, 1, p - 1) \o <<e>>) \o SubSeq(s, p, Len(s))
    BY DEF InsertAt
  <2>3. p - 1 = m
    BY DEF m
  <2> HIDE DEF u, v, n
  <2> QED  BY <2>1, <2>2, <2>3 DEF n
<1> HIDE DEF m
<1>3. IsCut(u, S, s, 0, m)
  BY <1>1, CutIs
<1>4. IsCut(v, S, s, m, n)
  BY <1>1, CutIs
<1>5. w \in Seq(S) /\ Len(w) = 1 /\ w[1] = e
  OBVIOUS
<1> HIDE DEF u, v, w, n
<1>6. u \in Seq(S) /\ Len(u) = m /\ \A q \in 1 .. m : u[q] = s[q]
  <2>1. u \in Seq(S) /\ Len(u) = m - 0 /\ \A q \in 1 .. m - 0 : u[q] = s[0 + q]
    BY <1>3 DEF IsCut
  <2> QED  BY <1>1, <2>1
<1>7. v \in Seq(S) /\ Len(v) = n - m /\ \A q \in 1 .. n - m : v[q] = s[m + q]
  BY <1>4 DEF IsCut
<1>8. /\ x \in Seq(S) /\ Len(x) = Len(u) + Len(w)
      /\ \A i \in 1 .. Len(u) + Len(w) : x[i] = IF i <= Len(u) THEN u[i] ELSE w[i - Len(u)]
  BY <1>5, <1>6, ConcatProperties
<1> HIDE DEF x
<1>9. /\ g \in Seq(S) /\ Len(g) = Len(x) + Len(v)
      /\ \A i \in 1 .. Len(x) + Len(v) : g[i] = IF i <= Len(x) THEN x[i] ELSE v[i - Len(x)]
  <2>1. x \in Seq(S) /\ v \in Seq(S)
    BY <1>7, <1>8
  <2> QED  BY <2>1, ConcatProperties
<1> HIDE DEF g
<1>10. Len(u) = m /\ Len(w) = 1 /\ Len(x) = p /\ Len(v) = n - m /\ Len(g) = n + 1
  BY <1>1, <1>5, <1>6, <1>7, <1>8, <1>9
<1>11. ASSUME NEW q \in 1 .. n + 1, q < p PROVE g[q] = s[q]
  <2>1. q \in 1 .. m /\ q \in 1 .. Len(u) + Len(w) /\ q \in 1 .. Len(x) + Len(v) /\ q <= Len(x) /\ q <= Len(u)
    BY <1>1, <1>10, <1>11
  <2>2. g[q] = x[q]
    BY <1>9, <2>1
  <2>3. x[q] = u[q]
    BY <1>8, <2>1
  <2> QED  BY <1>6, <2>1, <2>2, <2>3
<1>12. g[p] = e
  <2>1. /\ p \in 1 .. Len(u) + Len(w) /\ p \in 1 .. Len(x) + Len(v) /\ p <= Len(x) /\ ~(p <= Len(u))
        /\ p - Len(u) = 1
    BY <1>1, <1>10
  <2>2. g[p] = x[p]
    BY <1>9, <2>1
  <2>3. x[p] = w[1]
    BY <1>8, <2>1
  <2> QED  BY <1>5, <2>2, <2>3
<1>13. ASSUME NEW q \in 1 .. n + 1, p < q PROVE g[q] = s[q - 1]
  <2>1. /\ q \in 1 .. Len(x) + Len(v) /\ ~(q <= Len(x)) /\ q - Len(x) = q - p
        /\ q - p \in 1 .. n - m /\ m + (q - p) = q - 1
    BY <1>1, <1>10, <1>13
  <2>2. g[q] = v[q - p]
    BY <1>9, <2>1
  <2>3. v[q - p] = s[m + (q - p)]
    BY <1>7, <2>1
  <2> QED  BY <2>1, <2>2, <2>3
<1>14. Inserted(S, s, p, e, g)
  BY <1>9, <1>10, <1>11, <1>12, <1>13 DEF Inserted, n
<1> QED  BY <1>2, <1>14, Zenon

(* r holds the first t elements of segs, each once.                          *)
Arranged(S, segs, t, r) ==
    /\ r \in Seq(S)
    /\ \A i, j \in 1 .. Len(r) : r[i] = r[j] => i = j
    /\ \A i \in 1 .. Len(r) : \E a \in 1 .. t : r[i] = segs[a]
    /\ \A a \in 1 .. t : \E i \in 1 .. Len(r) : r[i] = segs[a]

Different(segs) == \A a, b \in 1 .. Len(segs) : segs[a] = segs[b] => a = b

LEMMA InsertArranges ==
    ASSUME NEW S, NEW segs \in Seq(S), Different(segs), NEW t \in Nat, t + 1 <= Len(segs),
           NEW r, Arranged(S, segs, t, r), NEW p \in 1 .. Len(r) + 1,
           NEW g, Inserted(S, r, p, segs[t + 1], g)
    PROVE  Arranged(S, segs, t + 1, g)
<1> DEFINE e == segs[t + 1]
           n == Len(r)
           from(q) == IF q < p THEN q ELSE q - 1
<1>1. /\ r \in Seq(S) /\ n \in Nat
      /\ \A i, j \in 1 .. n : r[i] = r[j] => i = j
      /\ \A i \in 1 .. n : \E a \in 1 .. t : r[i] = segs[a]
      /\ \A a \in 1 .. t : \E i \in 1 .. n : r[i] = segs[a]
  BY LenProperties DEF Arranged
<1>2. /\ g \in Seq(S) /\ Len(g) = n + 1 /\ g[p] = e
      /\ \A q \in 1 .. n + 1 : q < p => g[q] = r[q]
      /\ \A q \in 1 .. n + 1 : p < q => g[q] = r[q - 1]
  BY DEF Inserted
<1>3. \A a \in 1 .. t : segs[a] # e
  <2>1. t + 1 \in 1 .. Len(segs) /\ \A a \in 1 .. t : a \in 1 .. Len(segs) /\ a # t + 1
    BY LenProperties
  <2> QED  BY <2>1 DEF Different
<1> HIDE DEF e, n
<1>4. p \in 1 .. n + 1 /\ p \in Nat
  BY <1>1 DEF n
<1>5. ASSUME NEW q \in 1 .. n + 1, q # p PROVE from(q) \in 1 .. n /\ g[q] = r[from(q)]
  <2>1. CASE q < p
    <3>1. from(q) = q /\ q \in 1 .. n
      BY <1>1, <1>4, <2>1
    <3> QED  BY <1>2, <2>1, <3>1
  <2>2. CASE p < q
    <3>1. from(q) = q - 1 /\ q - 1 \in 1 .. n
      BY <1>1, <1>4, <2>2
    <3> QED  BY <1>2, <2>2, <3>1
  <2>3. q < p \/ p < q
    BY <1>1, <1>4, <1>5
  <2> QED  BY <2>1, <2>2, <2>3
<1>6. \A q, k \in 1 .. n + 1 : q # p /\ k # p /\ from(q) = from(k) => q = k
  <2>1. n \in Nat /\ p \in Nat
    BY <1>1, <1>4
  <2> QED  BY <2>1
<1>7. \A i \in 1 .. n : \E q \in 1 .. n + 1 : q # p /\ from(q) = i
  <2>1. ASSUME NEW i \in 1 .. n PROVE \E q \in 1 .. n + 1 : q # p /\ from(q) = i
    <3>1. CASE i < p
      <4>1. i \in 1 .. n + 1 /\ i # p /\ from(i) = i
        BY <1>1, <1>4, <3>1
      <4> QED  BY <4>1
    <3>2. CASE ~(i < p)
      <4>1. i + 1 \in 1 .. n + 1 /\ i + 1 # p /\ from(i + 1) = i
        BY <1>1, <1>4, <3>2
      <4> QED  BY <4>1
    <3> QED  BY <3>1, <3>2
  <2> QED  BY <2>1
<1> HIDE DEF from
<1>8. ASSUME NEW q \in 1 .. n + 1, q # p PROVE g[q] # e
  <2>1. PICK a \in 1 .. t : r[from(q)] = segs[a]
    BY <1>1, <1>5, <1>8
  <2> QED  BY <1>3, <1>5, <1>8, <2>1
<1>9. ASSUME NEW i \in 1 .. n + 1, NEW j \in 1 .. n + 1, g[i] = g[j] PROVE i = j
  <2>1. CASE i # p /\ j # p
    <3>1. r[from(i)] = r[from(j)] /\ from(i) \in 1 .. n /\ from(j) \in 1 .. n
      BY <1>5, <1>9, <2>1
    <3>2. from(i) = from(j)
      BY <1>1, <3>1
    <3> QED  BY <1>6, <2>1, <3>2
  <2>2. CASE i = p
    BY <1>2, <1>8, <1>9, <2>2
  <2>3. CASE j = p
    BY <1>2, <1>8, <1>9, <2>3
  <2> QED  BY <2>1, <2>2, <2>3
<1>10. t + 1 \in 1 .. t + 1 /\ \A a \in 1 .. t : a \in 1 .. t + 1
  OBVIOUS
<1>11. ASSUME NEW i \in 1 .. n + 1 PROVE \E a \in 1 .. t + 1 : g[i] = segs[a]
  <2>1. CASE i = p
    <3>1. g[i] = segs[t + 1]
      BY <1>2, <2>1 DEF e
    <3> QED  BY <1>10, <3>1
  <2>2. CASE i # p
    <3>1. PICK a \in 1 .. t : r[from(i)] = segs[a]
      BY <1>1, <1>5, <2>2
    <3>2. g[i] = segs[a] /\ a \in 1 .. t + 1
      BY <1>5, <1>10, <2>2, <3>1
    <3> QED  BY <3>2
  <2> QED  BY <2>1, <2>2
<1>12. ASSUME NEW a \in 1 .. t + 1 PROVE \E i \in 1 .. n + 1 : g[i] = segs[a]
  <2>1. CASE a = t + 1
    <3>1. g[p] = segs[a]
      BY <1>2, <2>1 DEF e
    <3> QED  BY <1>4, <3>1
  <2>2. CASE a \in 1 .. t
    <3>1. PICK i \in 1 .. n : r[i] = segs[a]
      BY <1>1, <2>2
    <3>2. PICK q \in 1 .. n + 1 : q # p /\ from(q) = i
      BY <1>7
    <3>3. g[q] = segs[a]
      BY <1>5, <3>1, <3>2
    <3> QED  BY <3>3
  <2>3. a = t + 1 \/ a \in 1 .. t
    OBVIOUS
  <2> QED  BY <2>1, <2>2, <2>3
<1> QED  BY <1>2, <1>9, <1>11, <1>12 DEF Arranged

SortStep(c, sorted, s) == InsertByFirstKey(sorted, s)

Sorting == INSTANCE Iteration WITH Step <- SortStep

LEMMA SortInserts ==
    ASSUME NEW S, NEW r \in Seq(S), NEW s \in S
    PROVE  \E p \in 1 .. Len(r) + 1 : Inserted(S, r, p, s, InsertByFirstKey(r, s))
<1> DEFINE X == {0} \cup {i \in DOMAIN r : first_key(r[i]) <= first_key(s)}
           p == Max(X) + 1
<1>1. Len(r) \in Nat /\ DOMAIN r = 1 .. Len(r)
  BY LenProperties
<1>2. X \in SUBSET (0 .. Len(r)) /\ X # {}
  BY <1>1
<1>3. InsertByFirstKey(r, s) = InsertAt(r, p, s)
  BY DEF InsertByFirstKey
<1> HIDE DEF X
<1>4. Max(X) \in 0 .. Len(r)
  BY <1>1, <1>2, MaxGreatest
<1>5. p \in 1 .. Len(r) + 1
  BY <1>1, <1>4
<1> HIDE DEF p
<1>6. Inserted(S, r, p, s, InsertAt(r, p, s))
  BY <1>5, InsertIs
<1> QED  BY <1>3, <1>5, <1>6

(* Sorting by the first key loses no segment and doubles none.               *)
LEMMA SortArranges ==
    ASSUME NEW S, NEW segs \in Seq(S), Different(segs)
    PROVE  Arranged(S, segs, Len(segs), SortByFirstKey(segs))
<1> DEFINE base == <<>>
<1>1. SortByFirstKey(segs) = Sorting!Result(0, base, segs)
  BY DEF SortByFirstKey, Sorting!Result, SortStep, FoldLeft, MapThenFoldSet,
         Sorting!FoldLeft, Sorting!MapThenFoldSet, Sorting!Max, Max
<1>2. Arranged(S, segs, 0, base)
  <2>1. base \in Seq(S) /\ 1 .. Len(base) = {} /\ 1 .. 0 = {}
    BY EmptySeq
  <2> HIDE DEF base
  <2> QED  BY <2>1 DEF Arranged
<1> HIDE DEF base
<1>3. PICK f : Sorting!IsRun(f, 0, base, segs) /\ Sorting!Result(0, base, segs) = f[Len(segs)]
  BY Sorting!FoldRuns
<1> DEFINE P == {t \in Nat : t <= Len(segs) => Arranged(S, segs, t, f[t])}
<1>4. 0 \in P
  BY <1>2, <1>3 DEF Sorting!IsRun
<1>5. ASSUME NEW t \in Nat, t \in P PROVE t + 1 \in P
  <2> SUFFICES ASSUME t + 1 <= Len(segs) PROVE Arranged(S, segs, t + 1, f[t + 1])
    OBVIOUS
  <2>1. Len(segs) \in Nat
    BY LenProperties
  <2>2. Arranged(S, segs, t, f[t]) /\ t + 1 \in 1 .. Len(segs) /\ (t + 1) - 1 = t
    BY <1>5, <2>1
  <2>3. f[t + 1] = InsertByFirstKey(f[t], segs[t + 1])
    BY <1>3, <2>2 DEF Sorting!IsRun, SortStep
  <2>4. segs[t + 1] \in S /\ f[t] \in Seq(S)
    BY <2>2, ElementOfSeq DEF Arranged
  <2> HIDE DEF P
  <2>5. PICK p \in 1 .. Len(f[t]) + 1 : Inserted(S, f[t], p, segs[t + 1], f[t + 1])
    BY <2>3, <2>4, SortInserts
  <2> QED  BY <2>2, <2>5, InsertArranges
<1>6. \A t \in Nat : t \in P
  <2> HIDE DEF P
  <2> QED  BY <1>4, <1>5, Adding!SetInduction
<1>7. Len(segs) \in Nat
  BY LenProperties
<1>8. Arranged(S, segs, Len(segs), f[Len(segs)])
  BY <1>6, <1>7
<1> QED  BY <1>1, <1>3, <1>8

-----------------------------------------------------------------------------
(* What is merged                                                           *)

(* A file whose entries carry the age of the file in their sequence numbers. *)
Aged(s, age) ==
    /\ s.entries \in Seq(EntryType)
    /\ Len(s.entries) > 0
    /\ Sorted(s.entries)
    /\ \A p \in 1 .. Len(s.entries) : s.entries[p].seq = age * 100 + s.entries[p].key

(* n files in the level, numbered as they follow one another, and m newer    *)
(* ones that are to be merged.                                               *)
Started(n, m) ==
    /\ DOMAIN level = {"number", "target", "factor", "segments"}
    /\ level.segments = [i \in 1 .. n |-> level.segments[i]]
    /\ incoming = [i \in 1 .. m |-> incoming[i]]
    /\ m > 0
    /\ \A i \in 1 .. n :
          /\ level.segments[i].number = i /\ level.segments[i].level = level.number
          /\ Aged(level.segments[i], i)
    /\ \A i \in 1 .. m : Aged(incoming[i], n + i)

LEMMA FilesAged ==
    ASSUME NEW content \in Contents, NEW age \in Nat, NEW number, NEW factor \in Factors, NEW s,
           LET e == SortedEntries(content, age) IN
           s = flushed_segment(number, e, factor) \/ s = written_segment(1, number, e, factor)
    PROVE  Aged(s, age)
<1>1. SortedSegment(s)
  BY FilesSorted
<1>2. s.entries \in Seq(EntryType) /\ Sorted(s.entries)
  BY <1>1 DEF SortedSegment
<1> DEFINE e == SortedEntries(content, age)
<1>3. s.entries = e
  BY DEF flushed_segment, written_segment, from_file
<1>4. PICK n \in Nat : n > 0 /\ content \in [1 .. n -> [key : Keys, size : Sizes]]
  BY ContentsForm
<1>5. e = [i \in 1 .. n |-> [key |-> content[i].key, seq |-> age * 100 + content[i].key,
                             size |-> content[i].size]]
  BY <1>4 DEF SortedEntries
<1>6. \A i \in 1 .. n : e[i].seq = age * 100 + content[i].key /\ e[i].key = content[i].key
  BY <1>5
<1>7. Len(e) = n
  BY <1>4, <1>5
<1> HIDE DEF e
<1>8. \A i \in 1 .. n : e[i].seq = age * 100 + e[i].key
  BY <1>6
<1> QED  BY <1>2, <1>3, <1>4, <1>7, <1>8 DEF Aged

LEMMA InitStarts == Init => \E n, m \in Nat : Started(n, m)
<1> SUFFICES ASSUME Init PROVE \E n, m \in Nat : Started(n, m)
  OBVIOUS
<1>1. PICK factor \in Factors, n \in 0 .. MaxOld, m \in 1 .. MaxIncoming :
       \E old \in {o \in [1 .. n -> Contents] : Partition(o)}, new \in [1 .. m -> Contents] :
          /\ level = [new_level(1, SegmentSize, factor) EXCEPT !.segments =
                [i \in 1 .. n |-> written_segment(1, i, SortedEntries(old[i], i), factor)]]
          /\ incoming =
                [i \in 1 .. m |-> flushed_segment(i, SortedEntries(new[i], n + i), factor)]
  BY DEF Init
<1>2. PICK old \in [1 .. n -> Contents], new \in [1 .. m -> Contents] :
          /\ level = [new_level(1, SegmentSize, factor) EXCEPT !.segments =
                [i \in 1 .. n |-> written_segment(1, i, SortedEntries(old[i], i), factor)]]
          /\ incoming =
                [i \in 1 .. m |-> flushed_segment(i, SortedEntries(new[i], n + i), factor)]
  BY <1>1
<1>3. /\ level.segments =
            [i \in 1 .. n |-> written_segment(1, i, SortedEntries(old[i], i), factor)]
      /\ DOMAIN level = {"number", "target", "factor", "segments"} /\ level.number = 1
      /\ incoming =
            [i \in 1 .. m |-> flushed_segment(i, SortedEntries(new[i], n + i), factor)]
  BY <1>2 DEF new_level
<1>4. n \in Nat /\ m \in Nat /\ m > 0
  BY MergeAssumption
<1>5. ASSUME NEW i \in 1 .. n
      PROVE  /\ level.segments[i].number = i /\ level.segments[i].level = 1
             /\ Aged(level.segments[i], i)
  <2>1. level.segments[i] = written_segment(1, i, SortedEntries(old[i], i), factor)
    BY <1>3
  <2>2. old[i] \in Contents /\ i \in Nat
    BY <1>2, <1>4
  <2>3. level.segments[i].number = i /\ level.segments[i].level = 1
    BY <2>1 DEF written_segment, from_file
  <2> QED  BY <2>1, <2>2, <2>3, FilesAged
<1>6. ASSUME NEW i \in 1 .. m PROVE Aged(incoming[i], n + i)
  <2>1. incoming[i] = flushed_segment(i, SortedEntries(new[i], n + i), factor)
    BY <1>3
  <2>2. new[i] \in Contents /\ n + i \in Nat
    BY <1>2, <1>4
  <2> QED  BY <2>1, <2>2, FilesAged
<1>7. /\ level.segments = [i \in 1 .. n |-> level.segments[i]]
      /\ incoming = [i \in 1 .. m |-> incoming[i]]
  BY <1>3
<1>8. Started(n, m)
  BY <1>3, <1>4, <1>5, <1>6, <1>7 DEF Started
<1> QED  BY <1>4, <1>8

(* Files of different ages.                                                  *)
Ages(srcs, g) ==
    /\ Len(srcs) \in Nat /\ DOMAIN srcs = 1 .. Len(srcs)
    /\ \A i \in 1 .. Len(srcs) : g[i] \in Nat /\ Aged(srcs[i], g[i])
    /\ \A i, j \in 1 .. Len(srcs) : g[i] = g[j] => i = j

LEMMA AgeFound ==
    ASSUME NEW a \in Nat, NEW b \in Nat, NEW x \in Nat, a * 100 + x = b * 100 + x
    PROVE  a = b
OBVIOUS

(* A key and a sequence number occur at one place only.                      *)
LEMMA AgesPlace ==
    ASSUME NEW srcs, NEW g, Ages(srcs, g), NEW i \in 1 .. Len(srcs), NEW j \in 1 .. Len(srcs),
           NEW p \in 1 .. Len(srcs[i].entries), NEW q \in 1 .. Len(srcs[j].entries),
           srcs[i].entries[p].key = srcs[j].entries[q].key,
           srcs[i].entries[p].seq = srcs[j].entries[q].seq
    PROVE  i = j /\ p = q
<1> DEFINE d == srcs[i].entries[p]
           e == srcs[j].entries[q]
<1>1. Aged(srcs[i], g[i]) /\ Aged(srcs[j], g[j]) /\ g[i] \in Nat /\ g[j] \in Nat
  BY DEF Ages
<1>2. d \in EntryType /\ e \in EntryType /\ d.seq = g[i] * 100 + d.key /\ e.seq = g[j] * 100 + e.key
  BY <1>1, ElementOfSeq DEF Aged
<1>3. d.key = e.key /\ d.seq = e.seq
  OBVIOUS
<1>4. d.key \in Nat
  <2> HIDE DEF d
  <2> QED  BY <1>2 DEF EntryType
<1>5. g[i] * 100 + d.key = g[j] * 100 + d.key
  BY <1>2, <1>3
<1> DEFINE a == g[i]
           b == g[j]
           x == d.key
<1>6. a \in Nat /\ b \in Nat /\ x \in Nat /\ a * 100 + x = b * 100 + x
  BY <1>1, <1>4, <1>5
<1> HIDE DEF a, b, x
<1>7. a = b
  BY <1>6, AgeFound
<1>8. i = j
  BY <1>7 DEF Ages, a, b
<1>9. p = q
  <2> DEFINE s == srcs[i].entries
  <2>1. s \in Seq(EntryType) /\ Sorted(s)
    BY <1>1 DEF Aged
  <2>2. p \in 1 .. Len(s) /\ q \in 1 .. Len(s) /\ s[p].key = s[q].key /\ s[p].key \in Nat
    BY <1>3, <1>4, <1>8
  <2> HIDE DEF s
  <2>3. ~(p < q) /\ ~(q < p)
    BY <2>1, <2>2 DEF Sorted
  <2>4. p \in Nat /\ q \in Nat
    BY <2>1, <2>2, LenProperties
  <2> QED  BY <2>3, <2>4
<1> QED  BY <1>8, <1>9

InFiles(srcs, e) ==
    \E i \in 1 .. Len(srcs) : \E p \in 1 .. Len(srcs[i].entries) : srcs[i].entries[p] = e

LEMMA EntriesAre ==
    ASSUME NEW srcs, Len(srcs) \in Nat, DOMAIN srcs = 1 .. Len(srcs),
           \A i \in 1 .. Len(srcs) : srcs[i].entries \in Seq(EntryType), NEW e
    PROVE  e \in EntriesOf(srcs) <=> InFiles(srcs, e)
<1>1. \A i \in 1 .. Len(srcs) : DOMAIN srcs[i].entries = 1 .. Len(srcs[i].entries)
  BY LenProperties
<1>2. e \in EntriesOf(srcs) <=> \E i \in 1 .. Len(srcs) : e \in ToSet(srcs[i].entries)
  BY DEF EntriesOf
<1>3. \A i \in 1 .. Len(srcs) :
         e \in ToSet(srcs[i].entries) <=> \E p \in 1 .. Len(srcs[i].entries) : srcs[i].entries[p] = e
  BY <1>1 DEF ToSet
<1> QED  BY <1>2, <1>3 DEF InFiles

LEMMA AgesTyped ==
    ASSUME NEW srcs, NEW g, Ages(srcs, g)
    PROVE  /\ Len(srcs) \in Nat /\ DOMAIN srcs = 1 .. Len(srcs)
           /\ \A i \in 1 .. Len(srcs) :
                 /\ srcs[i].entries \in Seq(EntryType)
                 /\ \A p \in 1 .. Len(srcs[i].entries) : srcs[i].entries[p] \in EntryType
<1>1. \A i \in 1 .. Len(srcs) : srcs[i].entries \in Seq(EntryType)
  BY DEF Ages, Aged
<1> QED  BY <1>1, ElementOfSeq DEF Ages

LEMMA AgesHold ==
    ASSUME NEW srcs, NEW g, Ages(srcs, g)
    PROVE  Holds(EntriesOf(srcs), srcs) /\ Numbered(EntriesOf(srcs))
<1> DEFINE n == Len(srcs)
           E == EntriesOf(srcs)
           us == EntrySeqs(srcs)
<1>1. /\ n \in Nat /\ DOMAIN srcs = 1 .. n
      /\ \A i \in 1 .. n :
            /\ srcs[i].entries \in Seq(EntryType)
            /\ \A p \in 1 .. Len(srcs[i].entries) : srcs[i].entries[p] \in EntryType
  BY AgesTyped
<1>2. \A e : e \in E <=> InFiles(srcs, e)
  BY <1>1, EntriesAre
<1>3. us = [i \in 1 .. n |-> srcs[i].entries]
  BY DEF EntrySeqs
<1> HIDE DEF us, E
<1>4. us \in Seq(Seq(EntryType)) /\ Len(us) = n /\ \A i \in 1 .. n : us[i] = srcs[i].entries
  BY <1>1, <1>3
<1>5. BufsOK(us)
  <2>1. ASSUME NEW i \in 1 .. Len(us), NEW j \in 1 .. Len(us), NEW p \in 1 .. Len(us[i]),
               NEW q \in 1 .. Len(us[j]), us[i][p] = us[j][q]
        PROVE  i = j /\ p = q
    <3>1. i \in 1 .. Len(srcs) /\ j \in 1 .. Len(srcs)
      BY <1>4
    <3>2. us[i] = srcs[i].entries /\ us[j] = srcs[j].entries
      BY <1>4, <3>1
    <3>3. /\ p \in 1 .. Len(srcs[i].entries) /\ q \in 1 .. Len(srcs[j].entries)
          /\ srcs[i].entries[p].key = srcs[j].entries[q].key
          /\ srcs[i].entries[p].seq = srcs[j].entries[q].seq
      BY <2>1, <3>2
    <3> QED  BY <3>1, <3>3, AgesPlace
  <2> QED  BY <1>4, <2>1 DEF BufsOK
<1>6. Holds(E, srcs)
  <2>1. \A i \in 1 .. n : \A p \in 1 .. Len(srcs[i].entries) : srcs[i].entries[p] \in E
    BY <1>2 DEF InFiles
  <2>2. \A e \in E : \E i \in 1 .. n : \E p \in 1 .. Len(srcs[i].entries) : srcs[i].entries[p] = e
    BY <1>2 DEF InFiles
  <2> QED  BY <1>1, <1>5, <2>1, <2>2 DEF Holds, us
<1>7. Numbered(E)
  <2>1. E \subseteq EntryType
    BY <1>1, <1>2 DEF InFiles
  <2>2. ASSUME NEW d \in E, NEW e \in E, d.key = e.key, d.seq = e.seq PROVE d = e
    <3>1. PICK i \in 1 .. n : \E p \in 1 .. Len(srcs[i].entries) : srcs[i].entries[p] = d
      BY <1>2 DEF InFiles
    <3>2. PICK p \in 1 .. Len(srcs[i].entries) : srcs[i].entries[p] = d
      BY <3>1
    <3>3. PICK j \in 1 .. n : \E q \in 1 .. Len(srcs[j].entries) : srcs[j].entries[q] = e
      BY <1>2 DEF InFiles
    <3>4. PICK q \in 1 .. Len(srcs[j].entries) : srcs[j].entries[q] = e
      BY <3>3
    <3>5. i = j /\ p = q
      <4>1. /\ srcs[i].entries[p].key = srcs[j].entries[q].key
            /\ srcs[i].entries[p].seq = srcs[j].entries[q].seq
        BY <2>2, <3>2, <3>4, Zenon
      <4>2. i \in 1 .. Len(srcs) /\ j \in 1 .. Len(srcs)
        BY DEF n
      <4> QED  BY <4>1, <4>2, AgesPlace
    <3> QED  BY <3>2, <3>4, <3>5
  <2> QED  BY <2>1, <2>2 DEF Numbered
<1> QED  BY <1>6, <1>7 DEF E

(* The segments of the level: those that are merged, at P, and the others.   *)
Parted(n, P, k, f, l, u) ==
    /\ P \in SUBSET (1 .. n) /\ k \in Nat /\ l \in Nat
    /\ Overlapping(level, incoming) = [j \in 1 .. k |-> level.segments[f[j]]]
    /\ Picks(f, k, P)
    /\ Untouched(level, incoming) = [j \in 1 .. l |-> level.segments[u[j]]]
    /\ Picks(u, l, (1 .. n) \ P)

LEMMA LevelParted ==
    ASSUME NEW n \in Nat, NEW m \in Nat, Started(n, m)
    PROVE  \E P, f, u : \E k, l \in Nat : Parted(n, P, k, f, l, u)
<1> DEFINE P == OverlappingAt(level, incoming)
           s == level.segments
<1>1. DOMAIN s = 1 .. n
  <2>1. s = [i \in 1 .. n |-> s[i]]
    BY DEF Started
  <2> HIDE DEF s
  <2> QED  BY <2>1
<1>2. P \in SUBSET (1 .. n) /\ (1 .. n) \ P \in SUBSET (1 .. n)
  BY <1>1 DEF OverlappingAt
<1>3. Overlapping(level, incoming) = Picked(s, P)
  BY DEF Overlapping
<1>4. Untouched(level, incoming) = Picked(s, (1 .. n) \ P)
  BY <1>1 DEF Untouched
<1> HIDE DEF P, s
<1> DEFINE Q == (1 .. n) \ P
<1>5. Q \in SUBSET (1 .. n)
  BY <1>2
<1> HIDE DEF Q
<1>6. \E u : \E l \in Nat : PickedBy(s, Q, u, l)
  BY <1>5, PickedIs
<1>7. \E f : \E k \in Nat : PickedBy(s, P, f, k)
  BY <1>2, PickedIs
<1>8. PICK f : \E k \in Nat : PickedBy(s, P, f, k)
  BY <1>7
<1>9. PICK k \in Nat : Picked(s, P) = [j \in 1 .. k |-> s[f[j]]] /\ Picks(f, k, P)
  BY <1>8 DEF PickedBy
<1>10. PICK u : \E l \in Nat : PickedBy(s, Q, u, l)
  BY <1>6
<1>11. PICK l \in Nat : Picked(s, Q) = [j \in 1 .. l |-> s[u[j]]] /\ Picks(u, l, Q)
  BY <1>10 DEF PickedBy
<1>12. Parted(n, P, k, f, l, u)
  <2>1. Overlapping(level, incoming) = [j \in 1 .. k |-> s[f[j]]]
    BY <1>3, <1>9
  <2>2. Untouched(level, incoming) = [j \in 1 .. l |-> s[u[j]]]
    BY <1>4, <1>11 DEF Q
  <2>3. Picks(u, l, (1 .. n) \ P)
    BY <1>11 DEF Q
  <2> QED  BY <1>2, <1>9, <2>1, <2>2, <2>3 DEF Parted, s
<1> QED  BY <1>12

EachOnce(f, k, n, P) ==
    /\ \A j \in 1 .. k : f[j] \in P /\ f[j] \in 1 .. n /\ f[j] \in Nat
    /\ \A i, j \in 1 .. k : f[i] = f[j] => i = j

LEMMA PicksApart ==
    ASSUME NEW n \in Nat, NEW P \in SUBSET (1 .. n), NEW k \in Nat, NEW f, Picks(f, k, P)
    PROVE  EachOnce(f, k, n, P)
<1>1. \A j \in 1 .. k : f[j] \in P
  BY DEF Picks
<1>2. \A j \in 1 .. k : f[j] \in 1 .. n
  BY <1>1
<1>3. \A j \in 1 .. k : f[j] \in Nat
  BY <1>2
<1>4. ASSUME NEW i \in 1 .. k, NEW j \in 1 .. k, f[i] = f[j], i # j PROVE FALSE
  <2>1. i < j \/ j < i
    BY <1>4
  <2>2. f[i] < f[j] \/ f[j] < f[i]
    BY <2>1 DEF Picks
  <2>3. f[i] \in Nat /\ f[j] \in Nat
    BY <1>3
  <2> QED  BY <1>4, <2>2, <2>3
<1> QED  BY <1>1, <1>2, <1>3, <1>4 DEF EachOnce

LEMMA SeqMade ==
    ASSUME NEW S, NEW n \in Nat, NEW s, s = [i \in 1 .. n |-> s[i]], \A i \in 1 .. n : s[i] \in S
    PROVE  s \in Seq(S) /\ Len(s) = n /\ DOMAIN s = 1 .. n
OBVIOUS

(* The segments that are merged are those at P and the incoming ones, with   *)
(* the ages g.                                                               *)
Merging(n, m, P, srcs, g) ==
    /\ Ages(srcs, g)
    /\ Len(srcs) > 0
    /\ \A i \in 1 .. Len(srcs) :
          \/ g[i] \in P /\ srcs[i] = level.segments[g[i]]
          \/ \E j \in 1 .. m : g[i] = n + j /\ srcs[i] = incoming[j]
    /\ \A p \in P : \E i \in 1 .. Len(srcs) : srcs[i] = level.segments[p]
    /\ \A j \in 1 .. m : \E i \in 1 .. Len(srcs) : srcs[i] = incoming[j]

LEMMA SourcesMerging ==
    ASSUME NEW n \in Nat, NEW m \in Nat, Started(n, m),
           NEW P, NEW k, NEW f, NEW l, NEW u, Parted(n, P, k, f, l, u),
           NEW srcs, srcs = Overlapping(level, incoming) \o incoming
    PROVE  \E g : Merging(n, m, P, srcs, g)
<1> DEFINE old == Overlapping(level, incoming)
           S == {level.segments[i] : i \in 1 .. n} \cup {incoming[i] : i \in 1 .. m}
           g == [i \in 1 .. k + m |-> IF i <= k THEN f[i] ELSE n + (i - k)]
<1>1. /\ P \in SUBSET (1 .. n) /\ k \in Nat /\ Picks(f, k, P)
      /\ old = [j \in 1 .. k |-> level.segments[f[j]]]
  BY DEF Parted
<1>2. /\ \A j \in 1 .. k : f[j] \in P /\ f[j] \in 1 .. n /\ f[j] \in Nat
      /\ \A i, j \in 1 .. k : f[i] = f[j] => i = j
  <2>1. P \in SUBSET (1 .. n) /\ k \in Nat /\ Picks(f, k, P)
    BY <1>1
  <2>2. EachOnce(f, k, n, P)
    BY <2>1, PicksApart
  <2> QED  BY <2>2 DEF EachOnce
<1>3. /\ incoming = [i \in 1 .. m |-> incoming[i]] /\ m > 0
      /\ \A i \in 1 .. n : Aged(level.segments[i], i)
      /\ \A i \in 1 .. m : Aged(incoming[i], n + i)
  BY DEF Started
<1>4. old \in Seq(S) /\ Len(old) = k /\ \A j \in 1 .. k : old[j] = level.segments[f[j]]
  <2>1. \A j \in 1 .. k : level.segments[f[j]] \in S
    BY <1>2
  <2> HIDE DEF S, old
  <2> QED  BY <1>1, <2>1
<1>5. incoming \in Seq(S) /\ Len(incoming) = m
  <2>1. \A j \in 1 .. m : incoming[j] \in S
    OBVIOUS
  <2>2. incoming = [i \in 1 .. m |-> incoming[i]]
    BY <1>3
  <2> HIDE DEF S
  <2> QED  BY <2>1, <2>2, SeqMade
<1> HIDE DEF S
<1>6. srcs = old \o incoming
  OBVIOUS
<1> HIDE DEF old
<1>7. /\ old \o incoming \in Seq(S) /\ Len(old \o incoming) = Len(old) + Len(incoming)
      /\ \A i \in 1 .. Len(old) + Len(incoming) :
            (old \o incoming)[i] = IF i <= Len(old) THEN old[i] ELSE incoming[i - Len(old)]
  BY <1>4, <1>5, ConcatProperties
<1>8. /\ srcs \in Seq(S) /\ Len(srcs) = k + m
      /\ \A i \in 1 .. k + m : srcs[i] = IF i <= k THEN old[i] ELSE incoming[i - k]
  BY <1>4, <1>5, <1>6, <1>7, Zenon
<1>9. Len(srcs) \in Nat /\ DOMAIN srcs = 1 .. Len(srcs) /\ Len(srcs) > 0
  BY <1>1, <1>3, <1>8, LenProperties
<1>10. ASSUME NEW i \in 1 .. k + m, i <= k
       PROVE  g[i] = f[i] /\ i \in 1 .. k /\ srcs[i] = level.segments[f[i]]
  <2>1. i \in 1 .. k
    BY <1>1, <1>10
  <2>2. srcs[i] = old[i]
    BY <1>8, <1>10
  <2> QED  BY <1>4, <1>10, <2>1, <2>2
<1>11. ASSUME NEW i \in 1 .. k + m, ~(i <= k)
       PROVE  g[i] = n + (i - k) /\ i - k \in 1 .. m /\ srcs[i] = incoming[i - k]
  <2>1. i - k \in 1 .. m
    BY <1>1, <1>11
  <2>2. srcs[i] = incoming[i - k]
    BY <1>8, <1>11
  <2> QED  BY <1>11, <2>1, <2>2
<1> HIDE DEF g
<1>12. ASSUME NEW i \in 1 .. k + m
       PROVE  /\ g[i] \in Nat /\ Aged(srcs[i], g[i])
              /\ \/ g[i] \in P /\ srcs[i] = level.segments[g[i]]
                 \/ \E j \in 1 .. m : g[i] = n + j /\ srcs[i] = incoming[j]
  <2>1. CASE i <= k
    <3>1. g[i] = f[i] /\ i \in 1 .. k /\ srcs[i] = level.segments[f[i]]
      BY <1>10, <2>1
    <3>2. f[i] \in P /\ f[i] \in 1 .. n /\ f[i] \in Nat
      BY <1>2, <3>1
    <3>3. Aged(level.segments[f[i]], f[i])
      BY <1>3, <3>2
    <3> QED  BY <3>1, <3>2, <3>3
  <2>2. CASE ~(i <= k)
    <3>1. g[i] = n + (i - k) /\ i - k \in 1 .. m /\ srcs[i] = incoming[i - k]
      BY <1>11, <2>2
    <3>2. Aged(incoming[i - k], n + (i - k))
      BY <1>3, <3>1
    <3>3. n + (i - k) \in Nat
      BY <3>1
    <3> QED  BY <3>1, <3>2, <3>3
  <2> QED  BY <2>1, <2>2
<1>13. ASSUME NEW i \in 1 .. k + m, NEW j \in 1 .. k + m, g[i] = g[j] PROVE i = j
  <2>1. CASE i <= k /\ j <= k
    BY <1>2, <1>10, <1>13, <2>1
  <2>2. CASE ~(i <= k) /\ ~(j <= k)
    <3>1. n + (i - k) = n + (j - k)
      BY <1>11, <1>13, <2>2
    <3> QED  BY <1>1, <3>1
  <2>3. CASE i <= k /\ ~(j <= k)
    <3>1. f[i] = n + (j - k) /\ f[i] \in 1 .. n /\ j - k \in 1 .. m
      BY <1>2, <1>10, <1>11, <1>13, <2>3
    <3> QED  BY <3>1
  <2>4. CASE ~(i <= k) /\ j <= k
    <3>1. f[j] = n + (i - k) /\ f[j] \in 1 .. n /\ i - k \in 1 .. m
      BY <1>2, <1>10, <1>11, <1>13, <2>4
    <3> QED  BY <3>1
  <2> QED  BY <2>1, <2>2, <2>3, <2>4
<1>14. Ages(srcs, g)
  BY <1>8, <1>9, <1>12, <1>13 DEF Ages
<1>15. ASSUME NEW p \in P PROVE \E i \in 1 .. k + m : srcs[i] = level.segments[p]
  <2>1. PICK i \in 1 .. k : f[i] = p
    BY <1>1 DEF Picks
  <2>2. i \in 1 .. k + m /\ i <= k
    BY <1>1
  <2>3. srcs[i] = level.segments[f[i]]
    BY <1>10, <2>2
  <2> QED  BY <2>1, <2>2, <2>3
<1>16. ASSUME NEW j \in 1 .. m PROVE \E i \in 1 .. k + m : srcs[i] = incoming[j]
  <2>1. k + j \in 1 .. k + m /\ ~(k + j <= k) /\ (k + j) - k = j
    BY <1>1
  <2>2. srcs[k + j] = incoming[(k + j) - k]
    BY <1>8, <2>1
  <2>3. srcs[k + j] = incoming[j]
    BY <2>1, <2>2
  <2> QED  BY <2>1, <2>3
<1>17. Merging(n, m, P, srcs, g)
  <2>1. Len(srcs) = k + m /\ Len(srcs) > 0
    BY <1>8, <1>9
  <2>2. \A i \in 1 .. k + m : \/ g[i] \in P /\ srcs[i] = level.segments[g[i]]
                             \/ \E j \in 1 .. m : g[i] = n + j /\ srcs[i] = incoming[j]
    BY <1>12
  <2> QED  BY <1>14, <1>15, <1>16, <2>1, <2>2, Zenon DEF Merging
<1> QED  BY <1>17

IsTuple(s) == s = [i \in 1 .. Len(s) |-> s[i]]

(* The new files.                                                           *)
WrittenOK(E, max, l, W) ==
    /\ Len(W) \in Nat /\ DOMAIN W = 1 .. Len(W) /\ IsTuple(W)
    /\ \A j \in 1 .. Len(W) :
          /\ W[j].level = l.number /\ W[j].number = FirstNewNumber(l) + j - 1
          /\ W[j].entries \in Seq(EntryType) /\ W[j].entries # <<>>
          /\ \A p \in 1 .. Len(W[j].entries) : W[j].entries[p] \in E
    /\ BufsOK(EntrySeqs(W))
    /\ CutInTime(EntrySeqs(W), l.factor)
    /\ Fit(E, max) => \A e : NewestIn(E, e) => InFiles(W, e)

LEMMA SeqFunction ==
    ASSUME NEW S, NEW s \in Seq(S)
    PROVE  s = [i \in 1 .. Len(s) |-> s[i]]
OBVIOUS

LEMMA WrittenIs ==
    ASSUME NEW a, NEW b, NEW c, NEW d, NEW s, s = written_segment(a, b, c, d)
    PROVE  s.level = a /\ s.number = b /\ s.entries = c
BY DEF written_segment, from_file

LEMMA WritesFiles ==
    ASSUME NEW E, NEW max, NEW l, NEW out, Collected(E, out), Fit(E, max) => HasNewest(E, out),
           NEW W, NEW files, files = Split(out, l.factor), \A j \in DOMAIN files : files[j] # <<>>,
           W = [j \in DOMAIN files |->
                  written_segment(l.number, FirstNewNumber(l) + j - 1, files[j], l.factor)]
    PROVE  WrittenOK(E, max, l, W)
<1> DEFINE n == Len(files)
<1>1. out \in Seq(EntryType) /\ \A a, b \in 1 .. Len(out) : out[a] = out[b] => a = b
  BY DEF Collected
<1>2. Distributed(files, out, Len(out)) /\ CutInTime(files, l.factor)
  BY <1>1, SplitDistributes
<1>3. BufsOK(files) /\ files \in Seq(Seq(EntryType))
  BY <1>2 DEF Distributed, BufsOK
<1>4. /\ n \in Nat /\ DOMAIN files = 1 .. n
      /\ \A j \in 1 .. n : files[j] \in Seq(EntryType)
  BY <1>3, FilesTyped
<1> HIDE DEF n
<1>5. \A j \in 1 .. n :
         W[j] = written_segment(l.number, FirstNewNumber(l) + j - 1, files[j], l.factor)
  BY <1>4
<1>6. DOMAIN W = 1 .. n /\ Len(W) = n
  BY <1>4
<1>7. \A j \in 1 .. n :
         /\ W[j].level = l.number /\ W[j].number = FirstNewNumber(l) + j - 1
         /\ W[j].entries = files[j]
  <2>1. ASSUME NEW j \in 1 .. n
        PROVE  /\ W[j].level = l.number /\ W[j].number = FirstNewNumber(l) + j - 1
               /\ W[j].entries = files[j]
    <3>1. W[j] = written_segment(l.number, FirstNewNumber(l) + j - 1, files[j], l.factor)
      BY <1>5
    <3> QED  BY <3>1, WrittenIs
  <2> QED  BY <2>1
<1>8. EntrySeqs(W) = files
  <2>1. EntrySeqs(W) = [j \in 1 .. n |-> W[j].entries]
    <3>1. Len(W) = n
      BY <1>6
    <3> QED  BY <3>1, Zenon DEF EntrySeqs
  <2>2. files = [j \in 1 .. n |-> files[j]]
    BY <1>3, SeqFunction DEF n
  <2> QED  BY <1>7, <2>1, <2>2
<1>9. ASSUME NEW j \in 1 .. n, NEW p \in 1 .. Len(files[j]) PROVE files[j][p] \in E
  <2>1. PICK a \in 1 .. Len(out) : files[j][p] = out[a]
    BY <1>2 DEF Distributed, n
  <2>2. out[a] \in E
    BY DEF Collected
  <2> QED  BY <2>1, <2>2
<1>10. ASSUME Fit(E, max), NEW e, NewestIn(E, e) PROVE InFiles(W, e)
  <2>1. PICK a \in 1 .. Len(out) : out[a] = e
    BY <1>10 DEF HasNewest
  <2>2. PICK j \in 1 .. n : \E p \in 1 .. Len(files[j]) : files[j][p] = out[a]
    BY <1>2 DEF Distributed, n
  <2>3. PICK p \in 1 .. Len(files[j]) : files[j][p] = out[a]
    BY <2>2
  <2>4. W[j].entries = files[j] /\ j \in 1 .. Len(W)
    BY <1>6, <1>7
  <2>5. p \in 1 .. Len(W[j].entries) /\ W[j].entries[p] = e
    BY <2>1, <2>3, <2>4
  <2> QED  BY <2>4, <2>5 DEF InFiles
<1>11. \A j \in 1 .. n :
          /\ W[j].entries \in Seq(EntryType) /\ W[j].entries # <<>>
          /\ \A p \in 1 .. Len(W[j].entries) : W[j].entries[p] \in E
  <2>1. ASSUME NEW j \in 1 .. n
        PROVE  /\ W[j].entries \in Seq(EntryType) /\ W[j].entries # <<>>
               /\ \A p \in 1 .. Len(W[j].entries) : W[j].entries[p] \in E
    <3>1. W[j].entries = files[j] /\ files[j] # <<>> /\ files[j] \in Seq(EntryType)
      BY <1>4, <1>7
    <3>2. \A p \in 1 .. Len(files[j]) : files[j][p] \in E
      BY <1>9
    <3> QED  BY <3>1, <3>2
  <2> QED  BY <2>1
<1>12. \A j \in 1 .. Len(W) :
          /\ W[j].level = l.number /\ W[j].number = FirstNewNumber(l) + j - 1
          /\ W[j].entries \in Seq(EntryType) /\ W[j].entries # <<>>
          /\ \A p \in 1 .. Len(W[j].entries) : W[j].entries[p] \in E
  BY <1>6, <1>7, <1>11
<1>13. BufsOK(EntrySeqs(W)) /\ CutInTime(EntrySeqs(W), l.factor)
  BY <1>2, <1>3, <1>8
<1>14. Len(W) \in Nat /\ DOMAIN W = 1 .. Len(W)
  BY <1>4, <1>6
<1>15. IsTuple(W)
  <2>1. W = [j \in 1 .. n |-> W[j]]
    <3>1. W = [j \in 1 .. n |-> written_segment(l.number, FirstNewNumber(l) + j - 1, files[j], l.factor)]
      BY <1>4
    <3> QED  BY <1>5, <3>1
  <2> QED  BY <1>6, <2>1, Zenon DEF IsTuple
<1> QED  BY <1>10, <1>12, <1>13, <1>14, <1>15 DEF WrittenOK

(* A merge of one segment, or of two, does not spin.                         *)
LEMMA WritesEnd ==
    ASSUME NEW l, NEW srcs, NEW g, Ages(srcs, g), Len(srcs) \in {1, 2},
           NEW w, w = merge_and_write(l, srcs)
    PROVE  w.result \in {"ok", "panic"}
<1> DEFINE max == MergeBufMax \div Len(srcs) + 1
           E == EntriesOf(srcs)
           m == MergedEntries(srcs, max)
           files == Split(m.out, l.factor)
           W == [j \in DOMAIN files |->
                   written_segment(l.number, FirstNewNumber(l) + j - 1, files[j], l.factor)]
<1>1. DOMAIN srcs = 1 .. Len(srcs) /\ \A i \in 1 .. Len(srcs) : Sorted(srcs[i].entries)
  BY DEF Ages, Aged
<1>2. srcs # <<>>
  OBVIOUS
<1>3. max \in Nat
  <2> DEFINE d == Len(srcs)
  <2>1. d \in Nat /\ d > 0 /\ MergeBufMax \in Nat
    BY LevelAssumption
  <2> HIDE DEF d
  <2>2. MergeBufMax \div d \in Nat
    BY <2>1
  <2>3. MergeBufMax \div d + 1 \in Nat
    BY <2>2
  <2> QED  BY <2>3 DEF d
<1>4. w = WriteMerged(l, m)
  BY <1>2, Zenon DEF merge_and_write
<1> HIDE DEF max
<1>5. Holds(E, srcs) /\ Numbered(E)
  BY AgesHold
<1>6. InOrderAll(EntrySeqs(srcs))
  BY <1>1 DEF InOrderAll, EntrySeqs
<1>7. m = MergedEntries(srcs, max)
  OBVIOUS
<1> HIDE DEF E, m
<1>8. m.result = "ok"
  BY <1>3, <1>5, <1>6, <1>7, MergedEnds
<1>9. w = Reopened(l, files)
  BY <1>4, <1>8, Zenon DEF WriteMerged
<1> HIDE DEF files
<1>10. \/ w = [result |-> "panic", segments |-> <<>>]
       \/ w = [result |-> "ok", segments |-> W]
  BY <1>9, Zenon DEF Reopened
<1> HIDE DEF W
<1> QED  BY <1>10

LEMMA MergeWrites ==
    ASSUME NEW l, NEW srcs, NEW g, Ages(srcs, g), Len(srcs) > 0, NEW w, w = merge_and_write(l, srcs)
    PROVE  /\ w.result \in {"ok", "panic", "spins"}
           /\ w.result = "ok" =>
                 WrittenOK(EntriesOf(srcs), MergeBufMax \div Len(srcs) + 1, l, w.segments)
<1> DEFINE max == MergeBufMax \div Len(srcs) + 1
           E == EntriesOf(srcs)
           m == MergedEntries(srcs, max)
           files == Split(m.out, l.factor)
           W == [j \in DOMAIN files |->
                   written_segment(l.number, FirstNewNumber(l) + j - 1, files[j], l.factor)]
<1>1. Len(srcs) \in Nat /\ DOMAIN srcs = 1 .. Len(srcs)
  BY DEF Ages
<1>2. srcs # <<>>
  BY <1>1
<1>3. max \in Nat
  <2> DEFINE d == Len(srcs)
  <2>1. d \in Nat /\ d > 0 /\ MergeBufMax \in Nat
    BY <1>1, LevelAssumption
  <2> HIDE DEF d
  <2>2. MergeBufMax \div d \in Nat
    BY <2>1
  <2>3. MergeBufMax \div d + 1 \in Nat
    BY <2>2
  <2> QED  BY <2>3 DEF d
<1>4. w = WriteMerged(l, m)
  BY <1>2, Zenon DEF merge_and_write
<1> HIDE DEF max
<1>5. Holds(E, srcs) /\ Numbered(E)
  BY AgesHold
<1> HIDE DEF E
<1>6. /\ m.result \in {"ok", "spins"}
      /\ Collected(E, m.out)
      /\ m.result = "ok" /\ Fit(E, max) => HasNewest(E, m.out)
  BY <1>3, <1>5, MergedCollects
<1> HIDE DEF m
<1>7. CASE m.result # "ok"
  <2>1. w = [result |-> m.result, segments |-> <<>>]
    BY <1>4, <1>7, Zenon DEF WriteMerged
  <2>2. w.result = "spins"
    BY <1>6, <1>7, <2>1
  <2> QED  BY <2>2
<1>8. CASE m.result = "ok" /\ \E j \in DOMAIN files : files[j] = <<>>
  <2>1. w = [result |-> "panic", segments |-> <<>>]
    BY <1>4, <1>8, Zenon DEF WriteMerged, Reopened
  <2> QED  BY <2>1
<1>9. CASE m.result = "ok" /\ ~(\E j \in DOMAIN files : files[j] = <<>>)
  <2>1. w = [result |-> "ok", segments |-> W]
    BY <1>4, <1>9, Zenon DEF WriteMerged, Reopened
  <2>2. w.result = "ok" /\ w.segments = W
    <3> HIDE DEF W
    <3> QED  BY <2>1
  <2>3. \A j \in DOMAIN files : files[j] # <<>>
    BY <1>9
  <2>4. Fit(E, max) => HasNewest(E, m.out)
    BY <1>6, <1>9
  <2>5. files = Split(m.out, l.factor)
    OBVIOUS
  <2>6. W = [j \in DOMAIN files |->
               written_segment(l.number, FirstNewNumber(l) + j - 1, files[j], l.factor)]
    OBVIOUS
  <2> HIDE DEF files, W
  <2>7. WrittenOK(E, max, l, W)
    BY <1>6, <2>3, <2>4, <2>5, <2>6, WritesFiles
  <2> QED  BY <2>2, <2>7 DEF E, max
<1> QED  BY <1>7, <1>8, <1>9

LEMMA HighestIs ==
    ASSUME NEW n \in Nat, NEW m \in Nat, Started(n, m)
    PROVE  highest_segment_number(level) \in Nat /\ \A i \in 1 .. n : i <= highest_segment_number(level)
<1> DEFINE s == level.segments
           X == {0} \cup {s[i].number : i \in DOMAIN s}
<1>1. DOMAIN s = 1 .. n /\ \A i \in 1 .. n : s[i].number = i
  BY DEF Started
<1>2. highest_segment_number(level) = Max(X)
  BY DEF highest_segment_number
<1> HIDE DEF s
<1>3. X = {0} \cup 1 .. n
  BY <1>1
<1>4. X \in SUBSET (0 .. n) /\ X # {} /\ \A i \in 1 .. n : i \in X
  BY <1>3
<1> HIDE DEF X
<1>5. Max(X) \in X /\ \A i \in X : i <= Max(X)
  BY <1>4, MaxGreatest
<1>6. ASSUME NEW h, h = Max(X) PROVE h \in Nat
  <2>1. h \in X /\ X \in SUBSET (0 .. n)
    BY <1>4, <1>5, <1>6, Zenon
  <2>2. h \in 0 .. n
    BY <2>1
  <2> QED  BY <2>2
<1>7. Max(X) \in Nat
  BY <1>6
<1> QED  BY <1>2, <1>4, <1>5, <1>7

(* The segments of the new level: the new files and those not merged.        *)
After(n, P, W, r) ==
    /\ Len(r) \in Nat /\ DOMAIN r = 1 .. Len(r) /\ Different(r)
    /\ \A i \in 1 .. Len(r) :
          \/ \E j \in 1 .. Len(W) : r[i] = W[j]
          \/ \E q \in (1 .. n) \ P : r[i] = level.segments[q]
    /\ \A j \in 1 .. Len(W) : \E i \in 1 .. Len(r) : r[i] = W[j]
    /\ \A q \in (1 .. n) \ P : \E i \in 1 .. Len(r) : r[i] = level.segments[q]

(* Their numbers.                                                           *)
LEMMA NumbersAre ==
    ASSUME NEW n \in Nat, NEW m \in Nat, Started(n, m), NEW E, NEW max, NEW W, WrittenOK(E, max, level, W)
    PROVE  /\ \A j \in 1 .. Len(W) : W[j].number = highest_segment_number(level) + j
           /\ \A i \in 1 .. n : level.segments[i].number = i /\ i <= highest_segment_number(level)
           /\ highest_segment_number(level) \in Nat /\ Len(W) \in Nat
<1> DEFINE h == highest_segment_number(level)
<1>1. h \in Nat /\ \A i \in 1 .. n : i <= h
  BY HighestIs
<1>2. \A i \in 1 .. n : level.segments[i].number = i
  BY DEF Started
<1>3. Len(W) \in Nat /\ \A j \in 1 .. Len(W) : W[j].number = FirstNewNumber(level) + j - 1
  BY DEF WrittenOK
<1>4. FirstNewNumber(level) = h + 1
  BY DEF FirstNewNumber
<1> HIDE DEF h
<1>5. ASSUME NEW j \in 1 .. Len(W) PROVE W[j].number = h + j
  <2>1. W[j].number = (h + 1) + j - 1
    BY <1>3, <1>4
  <2>2. (h + 1) + j - 1 = h + j
    BY <1>1, <1>3
  <2> QED  BY <2>1, <2>2
<1> QED  BY <1>1, <1>2, <1>3, <1>5 DEF h

LEMMA LevelAfter ==
    ASSUME NEW n \in Nat, NEW m \in Nat, Started(n, m),
           NEW P, NEW k, NEW f, NEW l, NEW u, Parted(n, P, k, f, l, u),
           NEW E, NEW max, NEW W, WrittenOK(E, max, level, W),
           NEW r, r = SortByFirstKey(W \o Untouched(level, incoming))
    PROVE  After(n, P, W, r)
<1> DEFINE h == highest_segment_number(level)
           w == Len(W)
           U == Untouched(level, incoming)
           Q == (1 .. n) \ P
           S == {W[j] : j \in 1 .. Len(W)} \cup {level.segments[i] : i \in 1 .. n}
           x == W \o U
<1>1. /\ \A j \in 1 .. w : W[j].number = h + j
      /\ \A i \in 1 .. n : level.segments[i].number = i /\ i <= h
      /\ h \in Nat /\ w \in Nat
  BY NumbersAre
<1>2. /\ Q \in SUBSET (1 .. n) /\ l \in Nat /\ Picks(u, l, Q)
      /\ U = [j \in 1 .. l |-> level.segments[u[j]]]
  BY DEF Parted
<1> HIDE DEF h, U
<1>3. EachOnce(u, l, n, Q)
  <2>1. Q \in SUBSET (1 .. n) /\ l \in Nat /\ Picks(u, l, Q)
    BY <1>2
  <2> HIDE DEF Q
  <2> QED  BY <2>1, PicksApart
<1>4. /\ \A j \in 1 .. l : u[j] \in Q /\ u[j] \in 1 .. n /\ u[j] \in Nat
      /\ \A i, j \in 1 .. l : u[i] = u[j] => i = j
  BY <1>3, Zenon DEF EachOnce
<1>5. U \in Seq(S) /\ Len(U) = l /\ \A j \in 1 .. l : U[j] = level.segments[u[j]]
  <2>1. \A j \in 1 .. l : level.segments[u[j]] \in S
    BY <1>4
  <2> HIDE DEF S
  <2> QED  BY <1>2, <2>1
<1>6. W \in Seq(S)
  <2>1. \A j \in 1 .. w : W[j] \in S
    OBVIOUS
  <2> HIDE DEF S
  <2>2. W = [j \in 1 .. w |-> W[j]]
    BY Zenon DEF WrittenOK, IsTuple
  <2> QED  BY <1>1, <2>1, <2>2, SeqMade
<1>7. r = SortByFirstKey(x)
  BY DEF U
<1> HIDE DEF S
<1>8. /\ x \in Seq(S) /\ Len(x) = Len(W) + Len(U)
      /\ \A i \in 1 .. Len(W) + Len(U) : x[i] = IF i <= Len(W) THEN W[i] ELSE U[i - Len(W)]
  BY <1>5, <1>6, ConcatProperties
<1> HIDE DEF w
<1>9. Len(x) = w + l /\ \A i \in 1 .. w + l : x[i] = IF i <= w THEN W[i] ELSE U[i - w]
  BY <1>5, <1>8 DEF w
<1> HIDE DEF x, Q
<1>10. ASSUME NEW i \in 1 .. w + l, i <= w PROVE i \in 1 .. w /\ x[i] = W[i] /\ x[i].number = h + i
  <2>1. i \in 1 .. w /\ x[i] = W[i]
    BY <1>1, <1>9, <1>10
  <2> QED  BY <1>1, <2>1
<1>11. ASSUME NEW i \in 1 .. w + l, ~(i <= w)
       PROVE  /\ i - w \in 1 .. l /\ u[i - w] \in Q /\ x[i] = level.segments[u[i - w]]
              /\ x[i].number = u[i - w] /\ u[i - w] <= h /\ u[i - w] \in Nat
  <2>1. i - w \in 1 .. l
    BY <1>1, <1>2, <1>11
  <2>2. x[i] = U[i - w]
    BY <1>9, <1>11
  <2> DEFINE q == i - w
  <2>3. q \in 1 .. l /\ x[i] = U[q]
    BY <2>1, <2>2
  <2> HIDE DEF q
  <2>4. u[q] \in Q /\ u[q] \in 1 .. n /\ u[q] \in Nat /\ x[i] = level.segments[u[q]]
    BY <1>4, <1>5, <2>3
  <2>5. x[i].number = u[q] /\ u[q] <= h
    BY <1>1, <2>4
  <2> QED  BY <2>3, <2>4, <2>5 DEF q
<1>12. Different(x)
  <2>1. ASSUME NEW a \in 1 .. w + l, NEW b \in 1 .. w + l, x[a] = x[b] PROVE a = b
    <3>1. CASE a <= w /\ b <= w
      <4>1. h + a = h + b
        BY <1>10, <2>1, <3>1
      <4>2. a \in Nat /\ b \in Nat
        BY <1>1, <1>2
      <4> QED  BY <1>1, <4>1, <4>2
    <3>2. CASE a <= w /\ ~(b <= w)
      <4>1. h + a = u[b - w] /\ u[b - w] <= h /\ u[b - w] \in Nat
        BY <1>10, <1>11, <2>1, <3>2
      <4>2. a \in Nat /\ a > 0
        BY <1>1, <1>2
      <4> QED  BY <1>1, <4>1, <4>2
    <3>3. CASE ~(a <= w) /\ b <= w
      <4>1. h + b = u[a - w] /\ u[a - w] <= h /\ u[a - w] \in Nat
        BY <1>10, <1>11, <2>1, <3>3
      <4>2. b \in Nat /\ b > 0
        BY <1>1, <1>2
      <4> QED  BY <1>1, <4>1, <4>2
    <3>4. CASE ~(a <= w) /\ ~(b <= w)
      <4>1. u[a - w] = u[b - w] /\ a - w \in 1 .. l /\ b - w \in 1 .. l
        BY <1>11, <2>1, <3>4
      <4>2. a - w = b - w
        BY <1>4, <4>1
      <4>3. a \in Nat /\ b \in Nat
        BY <1>1, <1>2
      <4> QED  BY <1>1, <4>2, <4>3
    <3> QED  BY <3>1, <3>2, <3>3, <3>4
  <2> QED  BY <1>9, <2>1 DEF Different
<1>13. Arranged(S, x, w + l, r)
  <2>1. x \in Seq(S) /\ Len(x) = w + l
    BY <1>8, <1>9
  <2>2. Arranged(S, x, Len(x), SortByFirstKey(x))
    BY <1>12, <2>1, SortArranges
  <2> QED  BY <1>7, <2>1, <2>2
<1>14. /\ r \in Seq(S) /\ Different(r)
       /\ \A i \in 1 .. Len(r) : \E a \in 1 .. w + l : r[i] = x[a]
       /\ \A a \in 1 .. w + l : \E i \in 1 .. Len(r) : r[i] = x[a]
  BY <1>13 DEF Arranged, Different
<1>15. Len(r) \in Nat /\ DOMAIN r = 1 .. Len(r)
  BY <1>14, LenProperties
<1>16. ASSUME NEW i \in 1 .. Len(r)
       PROVE  (\E j \in 1 .. w : r[i] = W[j]) \/ (\E q \in Q : r[i] = level.segments[q])
  <2>1. PICK a \in 1 .. w + l : r[i] = x[a]
    BY <1>14
  <2>2. CASE a <= w
    BY <1>10, <2>1, <2>2
  <2>3. CASE ~(a <= w)
    BY <1>11, <2>1, <2>3
  <2> QED  BY <2>2, <2>3
<1>17. ASSUME NEW j \in 1 .. w PROVE \E i \in 1 .. Len(r) : r[i] = W[j]
  <2>1. j \in 1 .. w + l /\ j <= w
    BY <1>1, <1>2
  <2>2. x[j] = W[j]
    BY <1>10, <2>1
  <2> QED  BY <1>14, <2>1, <2>2
<1>18. ASSUME NEW q \in Q PROVE \E i \in 1 .. Len(r) : r[i] = level.segments[q]
  <2>1. PICK j \in 1 .. l : u[j] = q
    BY <1>2 DEF Picks
  <2>2. w + j \in 1 .. w + l /\ ~(w + j <= w) /\ (w + j) - w = j
    BY <1>1, <1>2
  <2>3. x[w + j] = level.segments[u[(w + j) - w]]
    BY <1>11, <2>2
  <2>4. x[w + j] = level.segments[q]
    BY <2>1, <2>2, <2>3
  <2>5. PICK i \in 1 .. Len(r) : r[i] = x[w + j]
    BY <1>14, <2>2
  <2> QED  BY <2>4, <2>5
<1> QED  BY <1>14, <1>15, <1>16, <1>17, <1>18 DEF After, w, Q

-----------------------------------------------------------------------------
(* What PartitionedLevel::merge returns                                      *)

(* A merge that has returned: srcs are the segments it has merged, W the     *)
(* files it has written, r the segments of the new level.                    *)
Completed(n, m, P, srcs, g, W, r) ==
    /\ Started(n, m) /\ P \in SUBSET (1 .. n)
    /\ Merging(n, m, P, srcs, g)
    /\ WrittenOK(EntriesOf(srcs), MergeBufMax \div Len(srcs) + 1, level, W)
    /\ After(n, P, W, r)

LEMMA ResultIs ==
    ASSUME NEW n, NEW m, Started(n, m), NEW w, NEW srcs, NEW x,
           NEW old, srcs = old \o incoming, x = MergeResult(level, old, incoming, w)
    PROVE  /\ x.result = w.result /\ x.written = w.segments /\ x.segments_to_delete = srcs
           /\ x.level.segments = SortByFirstKey(w.segments \o Untouched(level, incoming))
<1> DEFINE r == SortByFirstKey(w.segments \o Untouched(level, incoming))
<1>1. x = [result |-> w.result, written |-> w.segments,
           level |-> [level EXCEPT !.segments = r], segments_to_delete |-> srcs]
  BY Zenon DEF MergeResult
<1>2. "segments" \in DOMAIN level
  BY DEF Started
<1> HIDE DEF r
<1>3. [level EXCEPT !.segments = r].segments = r
  BY <1>2
<1>4. x.level = [level EXCEPT !.segments = r]
  BY <1>1
<1>5. x.level.segments = r
  BY <1>3, <1>4
<1>6. x.result = w.result /\ x.written = w.segments /\ x.segments_to_delete = srcs
  BY <1>1
<1> QED  BY <1>5, <1>6 DEF r

LEMMA MergeCompletes ==
    ASSUME NEW n \in Nat, NEW m \in Nat, Started(n, m), NEW x, x = merge(level, incoming)
    PROVE  /\ x.result \in {"ok", "panic", "spins"}
           /\ x.result = "spins" => Len(x.segments_to_delete) > 2
           /\ x.result = "ok" =>
                 \E P, g : Completed(n, m, P, x.segments_to_delete, g, x.written, x.level.segments)
<1> DEFINE old == Overlapping(level, incoming)
           srcs == old \o incoming
           w == merge_and_write(level, srcs)
           r == SortByFirstKey(w.segments \o Untouched(level, incoming))
<1>1. PICK P, f, u : \E k, l \in Nat : Parted(n, P, k, f, l, u)
  BY LevelParted
<1>2. PICK k \in Nat, l \in Nat : Parted(n, P, k, f, l, u)
  BY <1>1
<1>3. x = MergeResult(level, old, incoming, w)
  BY Zenon DEF merge, MergeWith
<1>4. \E g : Merging(n, m, P, srcs, g)
  <2> SUFFICES ASSUME NEW s, s = Overlapping(level, incoming) \o incoming
               PROVE  \E g : Merging(n, m, P, s, g)
    BY Zenon
  <2> QED  BY <1>2, SourcesMerging
<1>5. PICK g : Merging(n, m, P, srcs, g)
  BY <1>4
<1>6. /\ x.result = w.result /\ x.written = w.segments /\ x.segments_to_delete = srcs
      /\ x.level.segments = r
  <2>1. ASSUME NEW ww, NEW ss, NEW oo, ss = oo \o incoming, x = MergeResult(level, oo, incoming, ww)
        PROVE  /\ x.result = ww.result /\ x.written = ww.segments /\ x.segments_to_delete = ss
               /\ x.level.segments = SortByFirstKey(ww.segments \o Untouched(level, incoming))
    BY <2>1, ResultIs
  <2> QED  BY <1>3, <2>1, Zenon
<1> HIDE DEF srcs
<1>7. Ages(srcs, g) /\ Len(srcs) > 0
  BY <1>5 DEF Merging
<1>8. /\ w.result \in {"ok", "panic", "spins"}
      /\ w.result = "ok" =>
            WrittenOK(EntriesOf(srcs), MergeBufMax \div Len(srcs) + 1, level, w.segments)
  <2>1. ASSUME NEW ww, ww = merge_and_write(level, srcs)
        PROVE  /\ ww.result \in {"ok", "panic", "spins"}
               /\ ww.result = "ok" =>
                     WrittenOK(EntriesOf(srcs), MergeBufMax \div Len(srcs) + 1, level, ww.segments)
    BY <1>7, <2>1, MergeWrites
  <2> QED  BY <2>1, Zenon
<1>12. ASSUME w.result = "spins" PROVE Len(srcs) > 2
  <2>1. ASSUME NEW ww, ww = merge_and_write(level, srcs), Len(srcs) \in {1, 2}
        PROVE  ww.result \in {"ok", "panic"}
    BY <1>7, <2>1, WritesEnd
  <2>2. Len(srcs) \notin {1, 2}
    <3>1. SUFFICES ASSUME Len(srcs) \in {1, 2} PROVE FALSE
      OBVIOUS
    <3>2. w.result \in {"ok", "panic"}
      BY <2>1, <3>1, Zenon
    <3> HIDE DEF w
    <3> QED  BY <1>12, <3>2
  <2>3. Len(srcs) \in Nat /\ Len(srcs) > 0
    BY <1>7 DEF Ages
  <2> DEFINE count == Len(srcs)
  <2>4. count \in Nat /\ count > 0 /\ count # 1 /\ count # 2
    BY <2>2, <2>3
  <2> HIDE DEF count
  <2>5. count > 2
    BY <2>4
  <2> QED  BY <2>5 DEF count
<1> HIDE DEF w
<1>9. ASSUME x.result = "ok"
      PROVE  Completed(n, m, P, srcs, g, w.segments, r)
  <2>1. WrittenOK(EntriesOf(srcs), MergeBufMax \div Len(srcs) + 1, level, w.segments)
    BY <1>6, <1>8, <1>9
  <2> DEFINE E == EntriesOf(srcs)
             max == MergeBufMax \div Len(srcs) + 1
             W == w.segments
  <2>2. r = SortByFirstKey(W \o Untouched(level, incoming)) /\ WrittenOK(E, max, level, W)
    BY <2>1
  <2> HIDE DEF E, max, W, r
  <2>3. After(n, P, W, r)
    BY <1>2, <2>2, LevelAfter
  <2>4. P \in SUBSET (1 .. n)
    BY <1>2 DEF Parted
  <2> QED  BY <1>5, <2>1, <2>3, <2>4, Zenon DEF Completed, W
<1> HIDE DEF r
<1>10. x.result = "ok" =>
          Completed(n, m, P, x.segments_to_delete, g, x.written, x.level.segments)
  BY <1>6, <1>9, Zenon
<1>11. x.result \in {"ok", "panic", "spins"}
  BY <1>6, <1>8, Zenon
<1>13. x.result = "spins" => Len(x.segments_to_delete) > 2
  BY <1>6, <1>12
<1> QED  BY <1>10, <1>11, <1>13, Zenon

(* The inductive invariant: the level and the segments to merge are as Init  *)
(* has made them, and what is merged is what merge returns for them.         *)
MergeInvariant ==
    /\ \E n, m \in Nat : Started(n, m)
    /\ merged = None \/ merged = merge(level, incoming)

LEMMA Merges == Spec => []MergeInvariant
<1>1. Init => MergeInvariant
  BY InitStarts DEF Init, MergeInvariant
<1>2. MergeInvariant /\ [Next]_vars => MergeInvariant'
  <2> SUFFICES ASSUME MergeInvariant, [Next]_vars PROVE MergeInvariant'
    OBVIOUS
  <2>1. level' = level /\ incoming' = incoming
    BY DEF Next, DoMerge, vars
  <2>2. merged' = merged \/ merged' = merge(level, incoming)
    BY DEF Next, DoMerge, vars
  <2>3. PICK n \in Nat, m \in Nat : Started(n, m)
    BY DEF MergeInvariant
  <2>4. Started(n, m)'
    BY <2>1, <2>3 DEF Started, Aged, Sorted
  <2>5. merge(level, incoming)' = merge(level, incoming)
    BY <2>1
  <2>6. merged' = None \/ merged' = merge(level, incoming)
    BY <2>2 DEF MergeInvariant
  <2> QED  BY <2>4, <2>5, <2>6 DEF MergeInvariant, None
<1> QED  BY <1>1, <1>2, PTL DEF Spec

LEMMA ResultKnown ==
    ASSUME MergeInvariant
    PROVE  /\ merged.result \in {"none", "ok", "panic", "spins"}
           /\ TwoMergesEnd
           /\ Done => \E n, m \in Nat : \E P, g :
                 Completed(n, m, P, Sources, g, merged.written, merged.level.segments)
<1>1. PICK n \in Nat, m \in Nat : Started(n, m)
  BY DEF MergeInvariant
<1>2. CASE merged = None
  BY <1>2 DEF None, Done, TwoMergesEnd
<1>3. CASE merged = merge(level, incoming)
  <2>1. /\ merged.result \in {"ok", "panic", "spins"}
        /\ merged.result = "spins" => Len(merged.segments_to_delete) > 2
        /\ merged.result = "ok" =>
              \E P, g : Completed(n, m, P, merged.segments_to_delete, g, merged.written, merged.level.segments)
    BY <1>1, <1>3, MergeCompletes
  <2>2. merged.result \in {"none", "ok", "panic", "spins"}
    BY <2>1
  <2> QED  BY <2>1, <2>2, Zenon DEF Done, Sources, TwoMergesEnd
<1> QED  BY <1>2, <1>3 DEF MergeInvariant

(* A merge of one or two segments never spins, of whatever lengths and sizes,*)
(* and wherever their read buffers run empty: with at most two buffers every *)
(* pass of merge_sort takes an entry, and the passes the model allows are as *)
(* many as the entries and more.                                             *)
THEOREM TwoMergesAlwaysEnd == Spec => []TwoMergesEnd
<1>1. MergeInvariant => TwoMergesEnd
  BY ResultKnown
<1> QED  BY <1>1, Merges, PTL

(* In a partitioned level that PartitionedLevel::merge returns, every file is *)
(* of this level, has entries and a number of its own; the new files are      *)
(* numbered above those the level had, which list and delete files by number. *)
THEOREM MergeTyped == Spec => []TypeOK
<1>1. ASSUME MergeInvariant PROVE TypeOK
  <2>1. merged.result \in {"none", "ok", "panic", "spins"}
    BY <1>1, ResultKnown
  <2>2. ASSUME Done, NEW i \in DOMAIN merged.level.segments, NEW j \in DOMAIN merged.level.segments,
               NEW s, s = merged.level.segments[i]
        PROVE  /\ s.level = level.number /\ s.entries # <<>>
               /\ s.number = merged.level.segments[j].number => i = j
               /\ ~Contains(level.segments, s) => s.number > highest_segment_number(level)
    <3> DEFINE W == merged.written
               r == merged.level.segments
               h == highest_segment_number(level)
    <3>1. \E n, m \in Nat : \E P, g : Completed(n, m, P, Sources, g, W, r)
      BY <1>1, <2>2, ResultKnown
    <3> HIDE DEF W, r
    <3>2. PICK n \in Nat, m \in Nat : \E P, g : Completed(n, m, P, Sources, g, W, r)
      BY <3>1
    <3>3. PICK P, g : Completed(n, m, P, Sources, g, W, r)
      BY <3>2
    <3>4. /\ Started(n, m) /\ After(n, P, W, r)
          /\ WrittenOK(EntriesOf(Sources), MergeBufMax \div Len(Sources) + 1, level, W)
      BY <3>3, Zenon DEF Completed
    <3>5. /\ \A a \in 1 .. Len(W) : W[a].number = h + a
          /\ \A q \in 1 .. n : level.segments[q].number = q /\ q <= h
          /\ h \in Nat /\ Len(W) \in Nat
      BY <3>4, NumbersAre
    <3> HIDE DEF h
    <3>6. \A a \in 1 .. Len(W) : W[a].level = level.number /\ W[a].entries # <<>>
      BY <3>4 DEF WrittenOK
    <3>7. \A q \in 1 .. n : level.segments[q].level = level.number /\ level.segments[q].entries # <<>>
      <4> SUFFICES ASSUME NEW q \in 1 .. n
                   PROVE  level.segments[q].level = level.number /\ level.segments[q].entries # <<>>
        OBVIOUS
      <4>1. level.segments[q].level = level.number /\ Aged(level.segments[q], q)
        BY <3>4 DEF Started
      <4>2. Len(level.segments[q].entries) > 0
        BY <4>1 DEF Aged
      <4> QED  BY <4>1, <4>2
    <3>8. i \in 1 .. Len(r) /\ j \in 1 .. Len(r) /\ s = r[i]
      BY <2>2, <3>4 DEF After, r
    <3>9. \A c \in 1 .. Len(r) : \/ \E a \in 1 .. Len(W) : r[c] = W[a]
                                 \/ \E q \in 1 .. n : r[c] = level.segments[q]
      BY <3>4 DEF After
    <3>10. r[i] = r[j] => i = j
      BY <3>4, <3>8 DEF After, Different
    <3>11. s.level = level.number /\ s.entries # <<>>
      BY <3>6, <3>7, <3>8, <3>9
    <3>12. ASSUME s.number = r[j].number PROVE i = j
      <4>1. CASE \E a, b \in 1 .. Len(W) : r[i] = W[a] /\ r[j] = W[b]
        <5>1. PICK a \in 1 .. Len(W), b \in 1 .. Len(W) : r[i] = W[a] /\ r[j] = W[b]
          BY <4>1
        <5>2. h + a = h + b
          BY <3>5, <3>8, <3>12, <5>1
        <5>3. a = b
          BY <3>5, <5>2
        <5> QED  BY <3>10, <5>1, <5>3
      <4>2. CASE \E a \in 1 .. Len(W), q \in 1 .. n : r[i] = W[a] /\ r[j] = level.segments[q]
        <5>1. PICK a \in 1 .. Len(W), q \in 1 .. n : r[i] = W[a] /\ r[j] = level.segments[q]
          BY <4>2
        <5>2. h + a = q /\ q <= h
          BY <3>5, <3>8, <3>12, <5>1
        <5> QED  BY <3>5, <5>2
      <4>3. CASE \E a \in 1 .. Len(W), q \in 1 .. n : r[j] = W[a] /\ r[i] = level.segments[q]
        <5>1. PICK a \in 1 .. Len(W), q \in 1 .. n : r[j] = W[a] /\ r[i] = level.segments[q]
          BY <4>3
        <5>2. h + a = q /\ q <= h
          BY <3>5, <3>8, <3>12, <5>1
        <5> QED  BY <3>5, <5>2
      <4>4. CASE \E q, p \in 1 .. n : r[i] = level.segments[q] /\ r[j] = level.segments[p]
        <5>1. PICK q \in 1 .. n, p \in 1 .. n : r[i] = level.segments[q] /\ r[j] = level.segments[p]
          BY <4>4
        <5>2. q = p
          BY <3>5, <3>8, <3>12, <5>1
        <5> QED  BY <3>10, <5>1, <5>2
      <4> QED  BY <3>8, <3>9, <4>1, <4>2, <4>3, <4>4
    <3>13. ASSUME ~Contains(level.segments, s) PROVE s.number > h
      <4>1. CASE \E a \in 1 .. Len(W) : r[i] = W[a]
        <5>1. PICK a \in 1 .. Len(W) : r[i] = W[a]
          BY <4>1
        <5>2. s.number = h + a
          BY <3>5, <3>8, <5>1
        <5> QED  BY <3>5, <5>2
      <4>2. CASE \E q \in 1 .. n : r[i] = level.segments[q]
        <5>1. PICK q \in 1 .. n : s = level.segments[q]
          BY <3>8, <4>2
        <5>2. Len(level.segments) = n
          BY <3>4 DEF Started
        <5>3. Contains(level.segments, s)
          BY <5>1, <5>2, Zenon DEF Contains
        <5> QED  BY <3>13, <5>3
      <4> QED  BY <3>8, <3>9, <4>1, <4>2
    <3> QED  BY <3>11, <3>12, <3>13 DEF h, r
  <2>3. ASSUME Done, NEW i \in DOMAIN merged.level.segments, NEW j \in DOMAIN merged.level.segments
        PROVE  LET s == merged.level.segments[i] IN
               /\ s.level = level.number /\ s.entries # <<>>
               /\ s.number = merged.level.segments[j].number => i = j
               /\ ~Contains(level.segments, s) => s.number > highest_segment_number(level)
    BY <2>2, <2>3, Zenon
  <2> QED  BY <2>1, <2>3, Zenon DEF TypeOK
<1> QED  BY <1>1, Merges, PTL

(* merge_and_write begins a new file at the first entry boundary at which    *)
(* the current one has reached its target size, for every sequence of        *)
(* entries it is given, of whatever sizes.                                   *)
THEOREM CutInTimeAlways == Spec => []FilesCutInTime
<1>1. ASSUME MergeInvariant PROVE FilesCutInTime
  <2>1. ASSUME Done, NEW j \in DOMAIN merged.written, NEW entries, entries = merged.written[j].entries
        PROVE  /\ ~reached_target_size(Front(entries), level.factor) \/ Len(entries) = 1
               /\ j < Len(merged.written) => reached_target_size(entries, level.factor)
    <3> DEFINE W == merged.written
               r == merged.level.segments
    <3>1. \E n, m \in Nat : \E P, g : Completed(n, m, P, Sources, g, W, r)
      BY <1>1, <2>1, ResultKnown
    <3> HIDE DEF r
    <3>2. WrittenOK(EntriesOf(Sources), MergeBufMax \div Len(Sources) + 1, level, W)
      BY <3>1, Zenon DEF Completed
    <3> HIDE DEF W
    <3>3. /\ Len(W) \in Nat /\ DOMAIN W = 1 .. Len(W) /\ CutInTime(EntrySeqs(W), level.factor)
          /\ \A a \in 1 .. Len(W) : W[a].entries \in Seq(EntryType) /\ W[a].entries # <<>>
      BY <3>2 DEF WrittenOK
    <3>4. j \in 1 .. Len(W) /\ entries = W[j].entries
      BY <2>1, <3>3 DEF W
    <3>5. Len(EntrySeqs(W)) = Len(W) /\ EntrySeqs(W)[j] = entries
      BY <3>3, <3>4 DEF EntrySeqs
    <3> DEFINE files == EntrySeqs(W)
    <3>6. /\ \A a \in 1 .. Len(files) : a < Len(files) => reached_target_size(files[a], level.factor)
          /\ \A a \in 1 .. Len(files) : Len(files[a]) <= 1 \/ ~reached_target_size(Front(files[a]), level.factor)
      BY <3>3 DEF CutInTime
    <3>7. j \in 1 .. Len(files) /\ files[j] = entries
      BY <3>4, <3>5
    <3> HIDE DEF files
    <3>8. /\ j < Len(files) => reached_target_size(entries, level.factor)
          /\ Len(entries) <= 1 \/ ~reached_target_size(Front(entries), level.factor)
      BY <3>6, <3>7, Zenon
    <3>9. Len(entries) \in Nat /\ Len(entries) # 0
      <4>1. entries \in Seq(EntryType) /\ entries # <<>>
        BY <3>3, <3>4, Zenon
      <4> QED  BY <4>1
    <3>10. Len(entries) <= 1 => Len(entries) = 1
      <4>1. \A x \in Nat : x # 0 /\ x <= 1 => x = 1
        OBVIOUS
      <4> QED  BY <3>9, <4>1, Zenon
    <3> QED  BY <3>5, <3>8, <3>10, Zenon DEF files, W
  <2>2. ASSUME Done, NEW j \in DOMAIN merged.written
        PROVE  LET entries == merged.written[j].entries IN
               /\ ~reached_target_size(Front(entries), level.factor) \/ Len(entries) = 1
               /\ j < Len(merged.written) => reached_target_size(entries, level.factor)
    BY <2>1, <2>2, Zenon
  <2> QED  BY <2>2, Zenon DEF FilesCutInTime
<1> QED  BY <1>1, Merges, PTL

-----------------------------------------------------------------------------
(* The entries of the new level                                              *)

InFile(s, e) == \E p \in 1 .. Len(s.entries) : s.entries[p] = e

LEMMA FilesHave ==
    ASSUME NEW srcs, Len(srcs) \in Nat, DOMAIN srcs = 1 .. Len(srcs),
           \A i \in 1 .. Len(srcs) : srcs[i].entries \in Seq(EntryType), NEW e
    PROVE  e \in EntriesOf(srcs) <=> \E i \in 1 .. Len(srcs) : InFile(srcs[i], e)
<1>1. e \in EntriesOf(srcs) <=> InFiles(srcs, e)
  BY EntriesAre
<1> QED  BY <1>1, Zenon DEF InFiles, InFile

(* What an entry of a file of an age is.                                     *)
LEMMA FileAge ==
    ASSUME NEW s, NEW a, Aged(s, a), NEW e, InFile(s, e)
    PROVE  e \in EntryType /\ e.seq = a * 100 + e.key /\ e.key \in Nat /\ e.seq \in Nat
<1>1. PICK p \in 1 .. Len(s.entries) : s.entries[p] = e
  BY DEF InFile
<1>2. s.entries[p].seq = a * 100 + s.entries[p].key
  BY DEF Aged
<1>3. s.entries \in Seq(EntryType)
  BY DEF Aged
<1>4. e \in EntryType
  BY <1>1, <1>3
<1>5. e.key \in Nat /\ e.seq \in Nat
  BY <1>4 DEF EntryType
<1> QED  BY <1>1, <1>2, <1>4, <1>5

LEMMA StartedFiles ==
    ASSUME NEW n \in Nat, NEW m \in Nat, Started(n, m)
    PROVE  /\ Len(level.segments) = n /\ DOMAIN level.segments = 1 .. n
           /\ Len(incoming) = m /\ DOMAIN incoming = 1 .. m
           /\ \A q \in 1 .. n : Aged(level.segments[q], q) /\ level.segments[q].entries \in Seq(EntryType)
           /\ \A j \in 1 .. m : Aged(incoming[j], n + j) /\ incoming[j].entries \in Seq(EntryType)
<1>1. Len(level.segments) = n /\ DOMAIN level.segments = 1 .. n
  BY DEF Started
<1>2. Len(incoming) = m /\ DOMAIN incoming = 1 .. m
  BY DEF Started
<1>3. /\ \A q \in 1 .. n : Aged(level.segments[q], q)
      /\ \A j \in 1 .. m : Aged(incoming[j], n + j)
  BY DEF Started
<1>4. \A s, g : Aged(s, g) => s.entries \in Seq(EntryType)
  BY Zenon DEF Aged
<1>5. \A q \in 1 .. n : level.segments[q].entries \in Seq(EntryType)
  BY <1>3, <1>4, Zenon
<1>6. \A j \in 1 .. m : incoming[j].entries \in Seq(EntryType)
  BY <1>3, <1>4, Zenon
<1> QED  BY <1>1, <1>2, <1>3, <1>5, <1>6, Zenon

(* The entries there are before the merge.                                   *)
LEMMA InputsAre ==
    ASSUME NEW n \in Nat, NEW m \in Nat, Started(n, m), NEW e
    PROVE  e \in Inputs <=> \/ \E q \in 1 .. n : InFile(level.segments[q], e)
                            \/ \E j \in 1 .. m : InFile(incoming[j], e)
<1>1. e \in EntriesOf(level.segments) <=> \E q \in 1 .. n : InFile(level.segments[q], e)
  <2> DEFINE srcs == level.segments
  <2>1. /\ Len(srcs) \in Nat /\ DOMAIN srcs = 1 .. Len(srcs) /\ Len(srcs) = n
        /\ \A i \in 1 .. Len(srcs) : srcs[i].entries \in Seq(EntryType)
    BY StartedFiles
  <2> HIDE DEF srcs
  <2>2. e \in EntriesOf(srcs) <=> \E i \in 1 .. Len(srcs) : InFile(srcs[i], e)
    BY <2>1, FilesHave
  <2> QED  BY <2>1, <2>2, Zenon DEF srcs
<1>2. e \in EntriesOf(incoming) <=> \E j \in 1 .. m : InFile(incoming[j], e)
  <2>1. /\ Len(incoming) \in Nat /\ DOMAIN incoming = 1 .. Len(incoming) /\ Len(incoming) = m
        /\ \A i \in 1 .. Len(incoming) : incoming[i].entries \in Seq(EntryType)
    BY StartedFiles
  <2>2. e \in EntriesOf(incoming) <=> \E i \in 1 .. Len(incoming) : InFile(incoming[i], e)
    BY <2>1, FilesHave
  <2> QED  BY <2>1, <2>2, Zenon
<1> QED  BY <1>1, <1>2, Zenon DEF Inputs

(* The entries that are merged, and their ages.                              *)
LEMMA SourcesAre ==
    ASSUME NEW n \in Nat, NEW m \in Nat, Started(n, m), NEW P \in SUBSET (1 .. n),
           NEW srcs, NEW g, Merging(n, m, P, srcs, g), NEW e
    PROVE  e \in EntriesOf(srcs) <=> \/ \E q \in P : InFile(level.segments[q], e)
                                     \/ \E j \in 1 .. m : InFile(incoming[j], e)
<1>1. /\ Len(srcs) \in Nat /\ DOMAIN srcs = 1 .. Len(srcs)
      /\ \A i \in 1 .. Len(srcs) : srcs[i].entries \in Seq(EntryType)
  BY AgesTyped DEF Merging
<1>2. e \in EntriesOf(srcs) <=> \E i \in 1 .. Len(srcs) : InFile(srcs[i], e)
  BY <1>1, FilesHave
<1>3. /\ \A i \in 1 .. Len(srcs) : \/ \E q \in P : srcs[i] = level.segments[q]
                                   \/ \E j \in 1 .. m : srcs[i] = incoming[j]
      /\ \A p \in P : \E i \in 1 .. Len(srcs) : srcs[i] = level.segments[p]
      /\ \A j \in 1 .. m : \E i \in 1 .. Len(srcs) : srcs[i] = incoming[j]
  BY Zenon DEF Merging
<1> QED  BY <1>2, <1>3, Zenon

(* The entries of the new level.                                             *)
LEMMA AfterAre ==
    ASSUME NEW n \in Nat, NEW m \in Nat, NEW P, NEW srcs, NEW g, NEW W, NEW r,
           Completed(n, m, P, srcs, g, W, r), NEW e
    PROVE  e \in EntriesOf(r) <=> \/ \E j \in 1 .. Len(W) : InFile(W[j], e)
                                  \/ \E q \in (1 .. n) \ P : InFile(level.segments[q], e)
<1>1. After(n, P, W, r) /\ Started(n, m) /\ WrittenOK(EntriesOf(srcs), MergeBufMax \div Len(srcs) + 1, level, W)
  BY Zenon DEF Completed
<1>2. \A j \in 1 .. Len(W) : W[j].entries \in Seq(EntryType)
  BY <1>1 DEF WrittenOK
<1>3. \A q \in (1 .. n) \ P : level.segments[q].entries \in Seq(EntryType)
  BY <1>1, StartedFiles
<1>4. /\ Len(r) \in Nat /\ DOMAIN r = 1 .. Len(r)
      /\ \A i \in 1 .. Len(r) :
            \/ \E j \in 1 .. Len(W) : r[i] = W[j]
            \/ \E q \in (1 .. n) \ P : r[i] = level.segments[q]
      /\ \A j \in 1 .. Len(W) : \E i \in 1 .. Len(r) : r[i] = W[j]
      /\ \A q \in (1 .. n) \ P : \E i \in 1 .. Len(r) : r[i] = level.segments[q]
  BY <1>1, Zenon DEF After
<1>5. \A i \in 1 .. Len(r) : r[i].entries \in Seq(EntryType)
  BY <1>2, <1>3, <1>4, Zenon
<1>6. e \in EntriesOf(r) <=> \E i \in 1 .. Len(r) : InFile(r[i], e)
  BY <1>4, <1>5, FilesHave
<1> QED  BY <1>4, <1>6, Zenon

LEMMA WrittenMerged ==
    ASSUME NEW n, NEW m, NEW P, NEW srcs, NEW g, NEW W, NEW r, Completed(n, m, P, srcs, g, W, r),
           NEW j \in 1 .. Len(W), NEW e, InFile(W[j], e)
    PROVE  e \in EntriesOf(srcs)
<1>1. \A p \in 1 .. Len(W[j].entries) : W[j].entries[p] \in EntriesOf(srcs)
  BY DEF Completed, WrittenOK
<1> QED  BY <1>1, Zenon DEF InFile

(* No entry of a new file is in one that has not been merged: the age of the *)
(* file an entry was in before is in its sequence number.                    *)
LEMMA WrittenApart ==
    ASSUME NEW n \in Nat, NEW m \in Nat, NEW P, NEW srcs, NEW g, NEW W, NEW r,
           Completed(n, m, P, srcs, g, W, r),
           NEW j \in 1 .. Len(W), NEW e, InFile(W[j], e), NEW q \in (1 .. n) \ P
    PROVE  ~InFile(level.segments[q], e)
<1> SUFFICES ASSUME InFile(level.segments[q], e) PROVE FALSE
  OBVIOUS
<1>1. Started(n, m) /\ P \in SUBSET (1 .. n) /\ Merging(n, m, P, srcs, g)
  BY Zenon DEF Completed
<1>2. e \in EntriesOf(srcs)
  BY WrittenMerged
<1>3. (\E p \in P : InFile(level.segments[p], e)) \/ \E i \in 1 .. m : InFile(incoming[i], e)
  BY <1>1, <1>2, SourcesAre
<1>4. \E a \in Nat : e.seq = a * 100 + e.key /\ a # q
  <2>1. CASE \E p \in P : InFile(level.segments[p], e)
    <3>1. PICK p \in P : InFile(level.segments[p], e)
      BY <2>1
    <3>2. p \in 1 .. n
      BY <1>1
    <3>3. Aged(level.segments[p], p)
      BY <1>1, <3>2, StartedFiles
    <3>4. e.seq = p * 100 + e.key
      BY <3>1, <3>3, FileAge
    <3> QED  BY <3>2, <3>4
  <2>2. CASE \E i \in 1 .. m : InFile(incoming[i], e)
    <3>1. PICK i \in 1 .. m : InFile(incoming[i], e)
      BY <2>2
    <3>2. Aged(incoming[i], n + i)
      BY <1>1, StartedFiles
    <3>3. e.seq = (n + i) * 100 + e.key
      BY <3>1, <3>2, FileAge
    <3>4. n + i \in Nat /\ n + i # q
      OBVIOUS
    <3> QED  BY <3>3, <3>4
  <2> QED  BY <1>3, <2>1, <2>2
<1>5. PICK a \in Nat : e.seq = a * 100 + e.key /\ a # q
  BY <1>4
<1>6. Aged(level.segments[q], q)
  BY <1>1, StartedFiles
<1>7. e.seq = q * 100 + e.key /\ e.key \in Nat
  BY <1>6, FileAge
<1>8. a * 100 + e.key = q * 100 + e.key /\ q \in Nat
  BY <1>5, <1>7
<1>9. a = q
  BY <1>7, <1>8, AgeFound
<1> QED  BY <1>5, <1>9

(* merge_sort writes no entry that is not in its input and none twice,        *)
(* although it drops entries from several buffers at once and starts again    *)
(* with what is left in them: for every number of segments that meet, of      *)
(* every length, and every size of the read buffers.  Nor does merge leave a  *)
(* segment it has merged in the level.                                        *)
THEOREM EntriesOnceAlways == Spec => []EntriesOnce
<1>1. ASSUME MergeInvariant, Done, NEW r, r = merged.level.segments
      PROVE  /\ EntriesOf(r) \subseteq Inputs
             /\ \A i, j \in DOMAIN r :
                   \A k \in DOMAIN r[i].entries, m \in DOMAIN r[j].entries :
                      r[i].entries[k] = r[j].entries[m] => i = j /\ k = m
  <2> DEFINE W == merged.written
  <2>1. \E n, m \in Nat : \E P, g : Completed(n, m, P, Sources, g, W, r)
    BY <1>1, ResultKnown
  <2> HIDE DEF W
  <2>2. PICK n \in Nat, m \in Nat : \E P, g : Completed(n, m, P, Sources, g, W, r)
    BY <2>1
  <2>3. PICK P, g : Completed(n, m, P, Sources, g, W, r)
    BY <2>2
  <2>4. /\ Started(n, m) /\ P \in SUBSET (1 .. n) /\ Merging(n, m, P, Sources, g) /\ After(n, P, W, r)
        /\ WrittenOK(EntriesOf(Sources), MergeBufMax \div Len(Sources) + 1, level, W)
    BY <2>3, Zenon DEF Completed
  <2>5. ASSUME NEW e \in EntriesOf(r) PROVE e \in Inputs
    <3>1. \/ \E j \in 1 .. Len(W) : InFile(W[j], e)
          \/ \E q \in (1 .. n) \ P : InFile(level.segments[q], e)
      BY <2>3, AfterAre
    <3>2. CASE \E j \in 1 .. Len(W) : InFile(W[j], e)
      <4>1. e \in EntriesOf(Sources)
        BY <2>3, <3>2, WrittenMerged
      <4>2. (\E q \in P : InFile(level.segments[q], e)) \/ \E j \in 1 .. m : InFile(incoming[j], e)
        BY <2>4, <4>1, SourcesAre
      <4>3. (\E q \in 1 .. n : InFile(level.segments[q], e)) \/ \E j \in 1 .. m : InFile(incoming[j], e)
        BY <2>4, <4>2
      <4> QED  BY <2>4, <4>3, InputsAre
    <3>3. CASE \E q \in (1 .. n) \ P : InFile(level.segments[q], e)
      <4>1. \E q \in 1 .. n : InFile(level.segments[q], e)
        BY <3>3
      <4> QED  BY <2>4, <4>1, InputsAre
    <3> QED  BY <3>1, <3>2, <3>3
  <2>6. /\ DOMAIN r = 1 .. Len(r) /\ \A i, j \in 1 .. Len(r) : r[i] = r[j] => i = j
        /\ \A i \in 1 .. Len(r) :
              \/ \E j \in 1 .. Len(W) : r[i] = W[j]
              \/ \E q \in (1 .. n) \ P : r[i] = level.segments[q]
    BY <2>4, Zenon DEF After, Different
  <2>7. \A c \in 1 .. Len(W) : W[c].entries \in Seq(EntryType)
    BY <2>4 DEF WrittenOK
  <2>8. \A q \in (1 .. n) \ P : level.segments[q].entries \in Seq(EntryType) /\ Aged(level.segments[q], q)
    BY <2>4, StartedFiles
  <2>9. ASSUME NEW i \in 1 .. Len(r), NEW j \in 1 .. Len(r),
               NEW k \in 1 .. Len(r[i].entries), NEW p \in 1 .. Len(r[j].entries),
               r[i].entries[k] = r[j].entries[p]
        PROVE  i = j /\ k = p
    <3>1. InFile(r[i], r[i].entries[k]) /\ InFile(r[j], r[i].entries[k])
      BY <2>9, Zenon DEF InFile
    <3>2. ASSUME NEW a \in 1 .. Len(W), NEW b \in 1 .. Len(W), r[i] = W[a], r[j] = W[b]
          PROVE  i = j /\ k = p
      <4>1. BufsOK(EntrySeqs(W)) /\ Len(W) \in Nat
        BY <2>4 DEF WrittenOK
      <4>2. Len(EntrySeqs(W)) = Len(W) /\ EntrySeqs(W)[a] = W[a].entries /\ EntrySeqs(W)[b] = W[b].entries
        BY <4>1 DEF EntrySeqs
      <4> DEFINE bufs == EntrySeqs(W)
      <4>3. /\ \A c, d \in 1 .. Len(bufs) : \A x \in 1 .. Len(bufs[c]), y \in 1 .. Len(bufs[d]) :
                  bufs[c][x] = bufs[d][y] => c = d /\ x = y
        BY <4>1 DEF BufsOK
      <4> HIDE DEF bufs
      <4>4. /\ a \in 1 .. Len(bufs) /\ b \in 1 .. Len(bufs)
            /\ k \in 1 .. Len(bufs[a]) /\ p \in 1 .. Len(bufs[b]) /\ bufs[a][k] = bufs[b][p]
        BY <2>9, <3>2, <4>2, Zenon DEF bufs
      <4>5. a = b /\ k = p
        <5>1. \A x \in 1 .. Len(bufs[a]), y \in 1 .. Len(bufs[b]) :
                 bufs[a][x] = bufs[b][y] => a = b /\ x = y
          BY <4>3, <4>4
        <5> QED  BY <4>4, <5>1, Zenon
      <4> QED  BY <2>6, <3>2, <4>5
    <3>3. ASSUME NEW a \in 1 .. Len(W), NEW q \in (1 .. n) \ P,
                 (r[i] = W[a] /\ r[j] = level.segments[q]) \/ (r[j] = W[a] /\ r[i] = level.segments[q])
          PROVE  FALSE
      <4>1. InFile(W[a], r[i].entries[k]) /\ InFile(level.segments[q], r[i].entries[k])
        BY <3>1, <3>3, Zenon
      <4> QED  BY <2>3, <4>1, WrittenApart
    <3>4. ASSUME NEW q \in (1 .. n) \ P, NEW t \in (1 .. n) \ P,
                 r[i] = level.segments[q], r[j] = level.segments[t]
          PROVE  i = j /\ k = p
      <4> DEFINE e == r[i].entries[k]
      <4>a. InFile(level.segments[q], e) /\ InFile(level.segments[t], e)
        BY <3>1, <3>4, Zenon
      <4> HIDE DEF e
      <4>1. e.seq = q * 100 + e.key /\ e.key \in Nat
        BY <2>8, <4>a, FileAge
      <4>2. e.seq = t * 100 + e.key
        BY <2>8, <4>a, FileAge
      <4>3. q * 100 + e.key = t * 100 + e.key /\ q \in Nat /\ t \in Nat
        BY <4>1, <4>2
      <4>4. q = t
        BY <4>1, <4>3, AgeFound
      <4>5. i = j
        BY <2>6, <3>4, <4>4
      <4>6. Sorted(r[i].entries) /\ r[i].entries \in Seq(EntryType)
        BY <2>8, <3>4 DEF Aged
      <4> DEFINE s == r[i].entries
      <4>7. k \in 1 .. Len(s) /\ p \in 1 .. Len(s) /\ s[k] = s[p]
        BY <2>9, <4>5, Zenon
      <4>8. s \in Seq(EntryType) /\ \A x, y \in 1 .. Len(s) : x < y => s[x].key < s[y].key
        BY <4>6 DEF Sorted
      <4> HIDE DEF s
      <4>9. k = p
        <5>1. s[k].key \in Nat /\ s[p].key \in Nat /\ s[k].key = s[p].key
          <6>1. s[k] \in EntryType /\ s[k] = s[p]
            BY <4>7, <4>8
          <6>2. s[k].key \in Nat
            BY <6>1 DEF EntryType
          <6> QED  BY <6>1, <6>2
        <5>2. ~(k < p) /\ ~(p < k)
          <6>1. ~(s[k].key < s[p].key) /\ ~(s[p].key < s[k].key)
            BY <5>1
          <6> QED  BY <4>7, <4>8, <6>1, Zenon
        <5>3. k \in Nat /\ p \in Nat
          BY <4>7, <4>8
        <5> QED  BY <5>2, <5>3
      <4> QED  BY <4>5, <4>9
    <3>5. (\E a \in 1 .. Len(W) : r[i] = W[a]) \/ (\E q \in (1 .. n) \ P : r[i] = level.segments[q])
      BY <2>6
    <3>6. (\E a \in 1 .. Len(W) : r[j] = W[a]) \/ (\E q \in (1 .. n) \ P : r[j] = level.segments[q])
      BY <2>6
    <3> QED  BY <3>2, <3>3, <3>4, <3>5, <3>6, Zenon
  <2>10. \A i \in 1 .. Len(r) : r[i].entries \in Seq(EntryType)
    BY <2>6, <2>7, <2>8, Zenon
  <2>11. \A i \in 1 .. Len(r) : DOMAIN r[i].entries = 1 .. Len(r[i].entries)
    BY <2>10
  <2>12. EntriesOf(r) \subseteq Inputs
    BY <2>5
  <2>13. ASSUME NEW i \in DOMAIN r, NEW j \in DOMAIN r,
                NEW k \in DOMAIN r[i].entries, NEW p \in DOMAIN r[j].entries
         PROVE  r[i].entries[k] = r[j].entries[p] => i = j /\ k = p
    <3> SUFFICES ASSUME r[i].entries[k] = r[j].entries[p] PROVE i = j /\ k = p
      OBVIOUS
    <3>1. i \in 1 .. Len(r) /\ j \in 1 .. Len(r)
      BY <2>6, Zenon
    <3>2. k \in 1 .. Len(r[i].entries) /\ p \in 1 .. Len(r[j].entries)
      BY <2>11, <3>1, Zenon
    <3>3. \A x \in 1 .. Len(r[i].entries), y \in 1 .. Len(r[j].entries) :
             r[i].entries[x] = r[j].entries[y] => i = j /\ x = y
      BY <2>9, <3>1
    <3> QED  BY <3>2, <3>3, Zenon
  <2> QED  BY <2>12, <2>13, Zenon
<1>2. ASSUME MergeInvariant PROVE EntriesOnce
  <2>1. ASSUME Done
        PROVE  LET after == merged.level.segments IN
               /\ EntriesOf(after) \subseteq Inputs
               /\ \A i, j \in DOMAIN after :
                     \A k \in DOMAIN after[i].entries, m \in DOMAIN after[j].entries :
                        after[i].entries[k] = after[j].entries[m] => i = j /\ k = m
    <3> HIDE DEF Done
    <3> QED  BY <1>1, <1>2, <2>1, Zenon
  <2> QED  BY <2>1, Zenon DEF EntriesOnce
<1> QED  BY <1>2, Merges, PTL

(* Of the entries with one key there is a newest.                            *)
LEMMA NewestThere ==
    ASSUME NEW n \in Nat, NEW m \in Nat, Started(n, m), NEW e \in Inputs, NEW x, x = NewestOf(Inputs, e.key)
    PROVE  x \in Inputs /\ x.key = e.key /\ \A d \in Inputs : d.key = x.key => d.seq <= x.seq
<1> DEFINE key == e.key
           X == {d \in Inputs : d.key = key}
           N == (n + m) * 100 + key
           S == {d.seq : d \in X}
<1>1. ASSUME NEW d \in Inputs PROVE \E a \in Nat : a <= n + m /\ d.seq = a * 100 + d.key /\ d.key \in Nat
  <2>1. (\E q \in 1 .. n : InFile(level.segments[q], d)) \/ \E j \in 1 .. m : InFile(incoming[j], d)
    BY InputsAre
  <2>2. CASE \E q \in 1 .. n : InFile(level.segments[q], d)
    <3>1. PICK q \in 1 .. n : InFile(level.segments[q], d)
      BY <2>2
    <3>2. Aged(level.segments[q], q)
      BY StartedFiles
    <3>3. d.seq = q * 100 + d.key /\ d.key \in Nat
      BY <3>1, <3>2, FileAge
    <3>4. q \in Nat /\ q <= n + m
      OBVIOUS
    <3> QED  BY <3>3, <3>4
  <2>3. CASE \E j \in 1 .. m : InFile(incoming[j], d)
    <3>1. PICK j \in 1 .. m : InFile(incoming[j], d)
      BY <2>3
    <3>2. Aged(incoming[j], n + j)
      BY StartedFiles
    <3>3. d.seq = (n + j) * 100 + d.key /\ d.key \in Nat
      BY <3>1, <3>2, FileAge
    <3>4. n + j \in Nat /\ n + j <= n + m
      OBVIOUS
    <3> QED  BY <3>3, <3>4
  <2> QED  BY <2>1, <2>2, <2>3
<1>2. key \in Nat
  BY <1>1
<1>3. e \in X
  OBVIOUS
<1>4. x = Newest(X)
  BY Zenon DEF NewestOf
<1> HIDE DEF key
<1>5. N \in Nat
  BY <1>2
<1>6. ASSUME NEW d \in X PROVE d.seq \in 0 .. N
  <2>1. d \in Inputs /\ d.key = key
    BY Zenon
  <2>2. PICK a \in Nat : a <= n + m /\ d.seq = a * 100 + key
    BY <1>1, <2>1
  <2>3. a * 100 + key \in Nat /\ a * 100 + key <= (n + m) * 100 + key
    BY <1>2, <2>2
  <2> QED  BY <1>5, <2>2, <2>3
<1>7. S \in SUBSET (0 .. N) /\ S # {}
  <2>1. e.seq \in S
    BY <1>3
  <2> HIDE DEF X, N
  <2> QED  BY <1>6, <2>1
<1> HIDE DEF S, N
<1>8. PICK t \in S : \A i \in S : i <= t
  BY <1>5, <1>7, GreatestExists
<1> HIDE DEF X
<1>9. PICK f \in X : f.seq = t
  BY <1>8 DEF S
<1>10. \A d \in X : d.seq \in S
  BY DEF S
<1>11. \E c \in X : \A d \in X : d.seq <= c.seq
  BY <1>8, <1>9, <1>10
<1>12. X # {}
  BY <1>3
<1>13. x \in X /\ \A d \in X : d.seq <= x.seq
  BY <1>4, <1>11, <1>12, Zenon DEF Newest
<1>14. x \in Inputs /\ x.key = key
  BY <1>13 DEF X
<1>15. \A d \in Inputs : d.key = x.key => d \in X
  BY <1>14 DEF X
<1> QED  BY <1>13, <1>14, <1>15, Zenon DEF key

(* However many segments meet in PartitionedLevel::merge, of whatever        *)
(* lengths, and wherever their read buffers run empty: the level it returns  *)
(* has the newest entry of every key, as long as every entry fits into a     *)
(* read buffer.                                                              *)
THEOREM NewestKeptAlways == Spec => []NewestKept
<1>1. ASSUME MergeInvariant, Done, EntriesFit, NEW e \in Inputs, NEW x, x = NewestOf(Inputs, e.key)
      PROVE  x \in EntriesOf(merged.level.segments)
  <2> DEFINE W == merged.written
             r == merged.level.segments
             E == EntriesOf(Sources)
             max == MergeBufMax \div Len(Sources) + 1
  <2>1. \E n, m \in Nat : \E P, g : Completed(n, m, P, Sources, g, W, r)
    BY <1>1, ResultKnown
  <2> HIDE DEF W, r
  <2>2. PICK n \in Nat, m \in Nat : \E P, g : Completed(n, m, P, Sources, g, W, r)
    BY <2>1
  <2>3. PICK P, g : Completed(n, m, P, Sources, g, W, r)
    BY <2>2
  <2>4. /\ Started(n, m) /\ P \in SUBSET (1 .. n) /\ Merging(n, m, P, Sources, g)
        /\ WrittenOK(E, max, level, W)
    BY <2>3, Zenon DEF Completed
  <2>5. x \in Inputs /\ \A d \in Inputs : d.key = x.key => d.seq <= x.seq
    BY <1>1, <2>4, NewestThere
  <2>6. ASSUME NEW d \in E PROVE d \in Inputs
    <3>1. (\E q \in P : InFile(level.segments[q], d)) \/ \E j \in 1 .. m : InFile(incoming[j], d)
      BY <2>4, <2>6, SourcesAre
    <3>2. (\E q \in 1 .. n : InFile(level.segments[q], d)) \/ \E j \in 1 .. m : InFile(incoming[j], d)
      BY <2>4, <3>1
    <3> QED  BY <2>4, <3>2, InputsAre
  <2>7. Fit(E, max)
    <3>1. \A d \in Inputs : d.size <= max
      BY <1>1, Zenon DEF EntriesFit
    <3> QED  BY <2>6, <3>1, Zenon DEF Fit
  <2>8. CASE x \in E
    <3>1. NewestIn(E, x)
      BY <2>5, <2>6, <2>8, Zenon DEF NewestIn
    <3>2. InFiles(W, x)
      <4>1. Fit(E, max) => \A d : NewestIn(E, d) => InFiles(W, d)
        BY <2>4, Zenon DEF WrittenOK
      <4> QED  BY <2>7, <3>1, <4>1, Zenon
    <3>3. \E j \in 1 .. Len(W) : InFile(W[j], x)
      BY <3>2, Zenon DEF InFiles, InFile
    <3> QED  BY <2>3, <3>3, AfterAre DEF r
  <2>9. CASE x \notin E
    <3>1. ~(\E q \in P : InFile(level.segments[q], x)) /\ ~(\E j \in 1 .. m : InFile(incoming[j], x))
      BY <2>4, <2>9, SourcesAre
    <3>2. (\E q \in 1 .. n : InFile(level.segments[q], x)) \/ \E j \in 1 .. m : InFile(incoming[j], x)
      BY <2>4, <2>5, InputsAre
    <3>3. \E q \in (1 .. n) \ P : InFile(level.segments[q], x)
      BY <3>1, <3>2
    <3> QED  BY <2>3, <3>3, AfterAre DEF r
  <2> QED  BY <2>8, <2>9
<1>2. ASSUME MergeInvariant PROVE NewestKept
  BY <1>1, <1>2, Zenon DEF NewestKept
<1> QED  BY <1>2, Merges, PTL
=============================================================================
