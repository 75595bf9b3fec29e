----------------------------- MODULE WalProofs -----------------------------
(***************************************************************************)
(* The log, for records and segments of every size (memtable/wal.rs,       *)
(* memtable/wal/segment.rs).                                               *)
(*                                                                         *)
(* First the first life of the process: sequence numbers and files only    *)
(* grow, whatever errors the appends meet.  Then what MemTable::recover    *)
(* reads from a log, across any number of crashes.                         *)
(***************************************************************************)
EXTENDS Wal, OrderingProofs, SequenceTheorems, TLAPS

Fates == {"pending", "acked", "failed", "error", "torn"}

Record == [size : Sizes, lsn : Nat, fate : Fates]

Call == [call : {"write", "rotate"}, cells : Seq(Cell), segment : Nat]

-----------------------------------------------------------------------------
(* The inductive invariant                                                 *)

(* The active segment is the one with the highest number, and not too full.  *)
FilesOK ==
    /\ active \in Nat /\ file_size \in 0 .. SegSize
    /\ active \in DOMAIN files /\ DOMAIN files \subseteq 0 .. active
    /\ \A n \in DOMAIN files : files[n] \in Seq(Cell)

(* The calls left of an append end with a write of something, and rotate at  *)
(* most once, to a segment behind the active one.                            *)
PlanOK ==
    /\ plan \in Seq(Call)
    /\ plan # <<>> => plan[Len(plan)].call = "write" /\ Len(plan[Len(plan)].cells) > 0
    /\ \A i \in 1 .. Len(plan) : plan[i].call = "rotate" =>
          /\ plan[i].segment > active
          /\ \A j \in 1 .. Len(plan) : plan[j].call = "rotate" => i = j

(* The record in progress is the last one.                                   *)
PendingOK ==
    /\ \A i \in 1 .. Len(recs) : recs[i].fate = "pending" => i = Len(recs) /\ plan # <<>>
    /\ plan # <<>> => Len(recs) > 0 /\ recs[Len(recs)].fate = "pending"

(* No record has a number beyond the next one, an acknowledged one has a     *)
(* smaller number.                                                           *)
NumbersOK ==
    \A i \in 1 .. Len(recs) :
        /\ recs[i].fate = "pending" => recs[i].lsn <= next_lsn
        /\ recs[i].fate = "acked" => recs[i].lsn < next_lsn

LifeOK ==
    /\ mode \in {"run", "dead"}
    /\ recs \in Seq(Record)
    /\ FilesOK /\ PlanOK /\ PendingOK /\ NumbersOK
    /\ SequenceNumbersIncrease

Inductive == crashes \in Nat /\ (crashes = 0 => LifeOK)

-----------------------------------------------------------------------------
(* Arithmetic of segments                                                    *)

LEMMA TimesStep ==
    ASSUME NEW a \in Nat, NEW b \in Nat, NEW s \in Nat, a < b
    PROVE  a * s \in Nat /\ b * s \in Nat /\ a * s + s <= b * s
<1>1. PICK d \in Nat : b = a + 1 + d
  <2>1. b - a - 1 \in Nat /\ b = a + 1 + (b - a - 1)
    OBVIOUS
  <2> QED  BY <2>1
<1>2. (a + 1 + d) * s = a * s + s + d * s /\ d * s \in Nat /\ a * s \in Nat
  OBVIOUS
<1> QED  BY <1>1, <1>2

(* A number behind segment a is in a segment behind it.                      *)
LEMMA DivBehind ==
    ASSUME NEW a \in Nat, NEW x \in Nat, NEW s \in Nat \ {0}, a * s + s <= x
    PROVE  x \div s \in Nat /\ x \div s > a
<1> DEFINE q == x \div s
<1>1. q \in Nat /\ q * s + s > x
  OBVIOUS
<1> HIDE DEF q
<1>2. q <= a => q * s <= a * s
  BY <1>1, TimesStep
<1>3. a * s \in Nat /\ q * s \in Nat
  BY <1>1
<1>4. q > a
  BY <1>1, <1>2, <1>3
<1> QED  BY <1>1, <1>4 DEF q

LEMMA NextNumber ==
    ASSUME FilesOK
    PROVE  next_lsn \in Nat /\ base_lsn \in Nat /\ next_lsn = base_lsn + file_size
<1>1. active * SegSize \in Nat
  BY WalAssumption DEF FilesOK
<1> QED  BY <1>1, WalAssumption DEF FilesOK, next_lsn, base_lsn

LEMMA NextNumberAfter ==
    ASSUME FilesOK'
    PROVE  next_lsn' \in Nat
<1>1. active' \in Nat /\ file_size' \in Nat /\ SegSize \in Nat
  BY WalAssumption DEF FilesOK
<1>2. \A a, b, c \in Nat : a * b + c \in Nat
  OBVIOUS
<1>3. next_lsn' = active' * SegSize + file_size'
  BY DEF next_lsn, base_lsn
<1> QED  BY <1>1, <1>2, <1>3, Zenon

-----------------------------------------------------------------------------
(* Wal::append                                                               *)

LEMMA CellsWritten ==
    ASSUME NEW id \in 1 .. MaxRecords, NEW size \in Sizes,
           NEW a \in Nat, NEW b \in Nat, 1 <= a, a <= b, b <= size
    PROVE  Cells(id, size, a, b) \in Seq(Cell) /\ Len(Cells(id, size, a, b)) = b - a + 1
<1>1. b - a + 1 \in Nat /\ \A i \in 1 .. b - a + 1 : a + i - 1 \in Nat /\ a + i - 1 \in 1 .. size
  BY WalAssumption
<1>2. \A i \in 1 .. b - a + 1 : [id |-> id, size |-> size, pos |-> a + i - 1] \in Cell
  BY <1>1, WalAssumption DEF Cell
<1> QED  BY <1>1, <1>2 DEF Cells

LEMMA PaddingWritten ==
    ASSUME NEW n \in Nat
    PROVE  Padding(n) \in Seq(Cell) /\ Len(Padding(n)) = n
<1>1. Zero \in Cell
  BY WalAssumption DEF Zero, Cell
<1> QED  BY <1>1 DEF Padding

(* What a plan of Wal::append is: PlanOK for a segment number.               *)
Sound(p, number) ==
    /\ p \in Seq(Call)
    /\ Len(p) > 0 /\ p[Len(p)].call = "write" /\ Len(p[Len(p)].cells) > 0
    /\ \A i \in 1 .. Len(p) : p[i].call = "rotate" =>
          /\ p[i].segment > number
          /\ \A j \in 1 .. Len(p) : p[j].call = "rotate" => i = j

(* Each of the three layouts is sound.  A record that does not fit reaches   *)
(* into a later segment, so that the rotation goes forward.                  *)
LEMMA PlanSound ==
    ASSUME FilesOK, NEW size \in Sizes, NEW id \in 1 .. MaxRecords
    PROVE  Sound(AppendPlan(id, size), active)
<1> DEFINE free == remaining_space
           target == (next_lsn + size) \div SegSize
<1>1. /\ size \in Nat /\ size > HeaderSize /\ HeaderSize \in Nat /\ HeaderSize > 0
      /\ SegSize \in Nat \ {0} /\ active \in Nat /\ file_size \in Nat /\ file_size <= SegSize
  BY WalAssumption DEF FilesOK
<1>2. free \in Nat /\ free = SegSize - file_size
  BY <1>1 DEF remaining_space
<1>3. ASSUME ~(size <= free) PROVE target \in Nat /\ target > active
  <2>1. next_lsn \in Nat /\ next_lsn = active * SegSize + file_size /\ active * SegSize \in Nat
    BY NextNumber, <1>1 DEF base_lsn
  <2>2. next_lsn + size \in Nat /\ active * SegSize + SegSize <= next_lsn + size
    BY <1>1, <1>2, <1>3, <2>1
  <2> QED  BY <1>1, <2>2, DivBehind
<1> HIDE DEF free, target
<1>4. /\ \A c \in Seq(Cell) : WriteCall(c) \in Call /\ WriteCall(c).call = "write"
                                 /\ WriteCall(c).cells = c
      /\ \A n \in Nat : RotateCall(n) \in Call /\ RotateCall(n).call = "rotate"
                                 /\ RotateCall(n).segment = n
  <2>1. <<>> \in Seq(Cell)
    OBVIOUS
  <2> QED  BY <2>1 DEF WriteCall, RotateCall, Call
<1>5. AppendPlan(id, size) =
         IF size <= free THEN <<WriteCall(Cells(id, size, 1, size))>>
         ELSE IF HeaderSize <= free
         THEN <<WriteCall(Cells(id, size, 1, HeaderSize)), WriteCall(Padding(free - HeaderSize)),
                RotateCall(target), WriteCall(Cells(id, size, HeaderSize + 1, size))>>
         ELSE <<WriteCall(Padding(free)), RotateCall(target), WriteCall(Cells(id, size, 1, size))>>
  BY DEF AppendPlan, free, target
<1>6. /\ Cells(id, size, 1, size) \in Seq(Cell) /\ Len(Cells(id, size, 1, size)) > 0
      /\ Cells(id, size, 1, HeaderSize) \in Seq(Cell)
      /\ Cells(id, size, HeaderSize + 1, size) \in Seq(Cell)
      /\ Len(Cells(id, size, HeaderSize + 1, size)) > 0
  <2>1. /\ 1 \in Nat /\ 1 <= size /\ 1 <= HeaderSize /\ HeaderSize + 1 \in Nat
        /\ HeaderSize + 1 <= size /\ 1 <= HeaderSize + 1 /\ HeaderSize <= size /\ size <= size
        /\ size - 1 + 1 > 0 /\ size - (HeaderSize + 1) + 1 > 0
    BY <1>1
  <2>2. Cells(id, size, 1, size) \in Seq(Cell) /\ Len(Cells(id, size, 1, size)) = size - 1 + 1
    BY <1>1, <2>1, CellsWritten
  <2>3. Cells(id, size, 1, HeaderSize) \in Seq(Cell)
    <3>1. 1 <= 1
      OBVIOUS
    <3> QED  BY <1>1, <2>1, <3>1, CellsWritten
  <2>4. /\ Cells(id, size, HeaderSize + 1, size) \in Seq(Cell)
        /\ Len(Cells(id, size, HeaderSize + 1, size)) = size - (HeaderSize + 1) + 1
    <3> DEFINE h == HeaderSize + 1
    <3>1. h \in Nat /\ 1 <= h /\ h <= size /\ size \in Nat /\ size <= size
      BY <1>1, <2>1
    <3> HIDE DEF h
    <3>2. Cells(id, size, h, size) \in Seq(Cell) /\ Len(Cells(id, size, h, size)) = size - h + 1
      BY <3>1, CellsWritten
    <3> QED  BY <3>2 DEF h
  <2> QED  BY <2>1, <2>2, <2>3, <2>4
<1>7. CASE size <= free
  <2> DEFINE w == WriteCall(Cells(id, size, 1, size))
  <2>1. w \in Call /\ w.call = "write" /\ Len(w.cells) > 0
    BY <1>4, <1>6
  <2>2. AppendPlan(id, size) = <<w>>
    BY <1>5, <1>7
  <2> HIDE DEF w
  <2> QED  BY <2>1, <2>2 DEF Sound
<1>8. CASE ~(size <= free) /\ HeaderSize <= free
  <2> DEFINE h == WriteCall(Cells(id, size, 1, HeaderSize))
             z == WriteCall(Padding(free - HeaderSize))
             r == RotateCall(target)
             w == WriteCall(Cells(id, size, HeaderSize + 1, size))
  <2>1. free - HeaderSize \in Nat
    BY <1>1, <1>2, <1>8
  <2>2. /\ h \in Call /\ z \in Call /\ r \in Call /\ w \in Call
        /\ h.call = "write" /\ z.call = "write" /\ w.call = "write" /\ Len(w.cells) > 0
        /\ r.call = "rotate" /\ r.segment > active
    BY <1>3, <1>4, <1>6, <1>8, <2>1, PaddingWritten
  <2>3. AppendPlan(id, size) = <<h, z, r, w>>
    BY <1>5, <1>8
  <2> HIDE DEF h, z, r, w
  <2> QED  BY <2>2, <2>3 DEF Sound
<1>9. CASE ~(size <= free) /\ ~(HeaderSize <= free)
  <2> DEFINE z == WriteCall(Padding(free))
             r == RotateCall(target)
             w == WriteCall(Cells(id, size, 1, size))
  <2>2. /\ z \in Call /\ r \in Call /\ w \in Call
        /\ z.call = "write" /\ w.call = "write" /\ Len(w.cells) > 0
        /\ r.call = "rotate" /\ r.segment > active
    BY <1>2, <1>3, <1>4, <1>6, <1>9, PaddingWritten
  <2>3. AppendPlan(id, size) = <<z, r, w>>
    BY <1>5, <1>9
  <2> HIDE DEF z, r, w
  <2> QED  BY <2>2, <2>3 DEF Sound
<1> QED  BY <1>7, <1>8, <1>9

-----------------------------------------------------------------------------
(* The steps of the first life                                               *)

LEMMA AppendEntryKeeps ==
    ASSUME LifeOK, NEW size \in Sizes, AppendEntry(size)
    PROVE  LifeOK'
<1> DEFINE rec == [size |-> size, lsn |-> next_lsn, fate |-> "pending"]
<1>1. /\ mode' = mode /\ files' = files /\ active' = active /\ file_size' = file_size
      /\ recs' = Append(recs, rec) /\ plan = <<>> /\ Len(recs) < MaxRecords
      /\ plan' = AppendPlan(Len(recs) + 1, size)
  BY DEF AppendEntry
<1>2. next_lsn' = next_lsn /\ next_lsn \in Nat
  BY <1>1, NextNumber DEF LifeOK, next_lsn, base_lsn
<1>3. rec \in Record /\ rec.fate = "pending" /\ rec.lsn = next_lsn
  BY <1>2 DEF Record, Fates
<1> HIDE DEF rec
<1>4. recs \in Seq(Record) /\ Len(recs) \in Nat
  BY DEF LifeOK
<1>5. /\ recs' \in Seq(Record) /\ Len(recs') = Len(recs) + 1 /\ recs'[Len(recs) + 1] = rec
      /\ \A i \in 1 .. Len(recs) : recs'[i] = recs[i]
  BY <1>1, <1>3, <1>4
<1>6. FilesOK'
  BY <1>1 DEF LifeOK, FilesOK
<1>7. Sound(plan', active)
  <2>1. Len(recs) + 1 \in 1 .. MaxRecords
    BY <1>1, <1>4, WalAssumption
  <2> QED  BY <1>1, <2>1, PlanSound DEF LifeOK
<1>8. PlanOK'
  BY <1>1, <1>7 DEF Sound, PlanOK
<1>9. \A i \in 1 .. Len(recs) : recs[i].fate # "pending"
  BY <1>1 DEF LifeOK, PendingOK
<1>10. PendingOK'
  <2>1. plan' # <<>>
    BY <1>7 DEF Sound
  <2> QED  BY <1>3, <1>4, <1>5, <1>9, <2>1 DEF PendingOK
<1>11. NumbersOK'
  BY <1>2, <1>3, <1>4, <1>5, <1>9 DEF NumbersOK, LifeOK
<1>12. SequenceNumbersIncrease'
  <2>1. DOMAIN recs' = 1 .. Len(recs) + 1 /\ DOMAIN recs = 1 .. Len(recs)
    BY <1>4, <1>5
  <2>2. ASSUME NEW i \in 1 .. Len(recs) + 1, NEW j \in 1 .. Len(recs) + 1, i < j,
               recs'[i].fate = "acked", recs'[j].fate \in {"acked", "pending"}
        PROVE  recs'[i].lsn < recs'[j].lsn
    <3>1. i \in 1 .. Len(recs) /\ recs'[i] = recs[i]
      BY <1>4, <1>5, <2>2
    <3>2. CASE j = Len(recs) + 1
      BY <1>3, <1>5, <2>2, <3>1, <3>2 DEF LifeOK, NumbersOK
    <3>3. CASE j # Len(recs) + 1
      <4>1. j \in 1 .. Len(recs) /\ recs'[j] = recs[j]
        BY <1>4, <1>5, <3>3
      <4> QED  BY <2>1, <2>2, <3>1, <4>1 DEF LifeOK, SequenceNumbersIncrease
    <3> QED  BY <3>2, <3>3
  <2> QED  BY <2>1, <2>2 DEF SequenceNumbersIncrease
<1> QED  BY <1>1, <1>5, <1>6, <1>8, <1>10, <1>11, <1>12 DEF LifeOK

(* The plan without its first call.                                          *)
LEMMA PlanTail ==
    ASSUME PlanOK, plan # <<>>, plan' = Tail(plan), NEW number,
           number = active \/ Head(plan).call = "rotate"
    PROVE  /\ Head(plan) = plan[1] /\ plan[1] \in Call /\ Len(plan) \in Nat /\ Len(plan) > 0
           /\ plan' \in Seq(Call) /\ Len(plan') = Len(plan) - 1 /\ (plan' = <<>> <=> Len(plan) = 1)
           /\ plan' # <<>> => plan'[Len(plan')].call = "write" /\ Len(plan'[Len(plan')].cells) > 0
           /\ \A i \in 1 .. Len(plan') : plan'[i].call = "rotate" =>
                 /\ plan'[i].segment > number
                 /\ \A j \in 1 .. Len(plan') : plan'[j].call = "rotate" => i = j
<1>1. /\ plan \in Seq(Call) /\ Len(plan) \in Nat /\ Len(plan) > 0 /\ Head(plan) = plan[1]
      /\ plan[1] \in Call
  BY DEF PlanOK
<1>2. /\ plan' \in Seq(Call) /\ Len(plan') = Len(plan) - 1
      /\ \A i \in 1 .. Len(plan') : plan'[i] = plan[i + 1]
  BY <1>1
<1>3. plan' = <<>> <=> Len(plan) = 1
  <2>1. \A q \in Seq(Call) : q = <<>> <=> Len(q) = 0
    OBVIOUS
  <2>2. plan' = <<>> <=> Len(plan') = 0
    BY <1>2, <2>1
  <2> QED  BY <1>1, <1>2, <2>2
<1>4. plan' # <<>> => plan'[Len(plan')].call = "write" /\ Len(plan'[Len(plan')].cells) > 0
  <2> SUFFICES ASSUME plan' # <<>>
               PROVE  plan'[Len(plan')].call = "write" /\ Len(plan'[Len(plan')].cells) > 0
    OBVIOUS
  <2>1. Len(plan') \in 1 .. Len(plan') /\ Len(plan') + 1 = Len(plan)
    BY <1>1, <1>2, <1>3
  <2>2. plan'[Len(plan')] = plan[Len(plan)]
    BY <1>2, <2>1
  <2> QED  BY <2>2 DEF PlanOK
<1>5. ASSUME NEW i \in 1 .. Len(plan'), plan'[i].call = "rotate"
      PROVE  /\ plan'[i].segment > number
             /\ \A j \in 1 .. Len(plan') : plan'[j].call = "rotate" => i = j
  <2>1. i + 1 \in 1 .. Len(plan) /\ plan[i + 1].call = "rotate" /\ plan'[i] = plan[i + 1] /\ i + 1 # 1
    BY <1>1, <1>2, <1>5
  <2>2. /\ plan[i + 1].segment > active
        /\ \A j \in 1 .. Len(plan) : plan[j].call = "rotate" => i + 1 = j
    BY <2>1 DEF PlanOK
  <2>3. Head(plan).call # "rotate"
    BY <1>1, <2>1, <2>2
  <2>4. ASSUME NEW j \in 1 .. Len(plan'), plan'[j].call = "rotate" PROVE i = j
    <3>1. j + 1 \in 1 .. Len(plan) /\ plan[j + 1].call = "rotate"
      BY <1>1, <1>2, <2>4
    <3>2. i + 1 = j + 1
      BY <2>2, <3>1
    <3> QED  BY <1>2, <3>2
  <2> QED  BY <2>1, <2>2, <2>3, <2>4
<1> QED  BY <1>1, <1>2, <1>3, <1>4, <1>5

(* Settling the last record, when no number falls behind.                    *)
LEMMA SettleKeeps ==
    ASSUME LifeOK, plan # <<>>, NEW fate \in {"acked", "failed", "error"}, Settle(fate),
           FilesOK', plan' = <<>>, next_lsn <= next_lsn',
           fate = "acked" => recs[Len(recs)].lsn < next_lsn'
    PROVE  /\ recs' \in Seq(Record) /\ PendingOK' /\ NumbersOK' /\ SequenceNumbersIncrease'
<1> DEFINE last == Len(recs)
<1>1. /\ recs \in Seq(Record) /\ last \in Nat /\ last > 0 /\ recs[last].fate = "pending"
      /\ \A i \in 1 .. last : recs[i] \in Record
  BY DEF LifeOK, PendingOK
<1>2. /\ recs' = [recs EXCEPT ![last].fate = fate]
      /\ recs' \in Seq(Record) /\ Len(recs') = last
  <2>1. recs' = [recs EXCEPT ![last].fate = fate]
    BY DEF Settle
  <2>2. [recs[last] EXCEPT !.fate = fate] \in Record
    BY <1>1 DEF Record, Fates
  <2> QED  BY <1>1, <2>1, <2>2
<1>3. \A i \in 1 .. last : i # last => recs'[i] = recs[i]
  BY <1>1, <1>2
<1>4. recs'[last].fate = fate /\ recs'[last].lsn = recs[last].lsn
  BY <1>1, <1>2 DEF Record
<1>5. next_lsn \in Nat /\ next_lsn' \in Nat
  BY NextNumber, NextNumberAfter DEF LifeOK
<1>6. \A i \in 1 .. last : recs[i].lsn \in Nat
  BY <1>1 DEF Record
<1>7. \A i \in 1 .. last : i # last => recs[i].fate # "pending"
  BY DEF LifeOK, PendingOK
<1>8. PendingOK'
  BY <1>1, <1>2, <1>3, <1>4, <1>7 DEF PendingOK
<1>9. NumbersOK'
  <2>1. ASSUME NEW i \in 1 .. last
        PROVE  /\ recs'[i].fate # "pending"
               /\ recs'[i].fate = "acked" => recs'[i].lsn < next_lsn'
    <3>1. CASE i = last
      BY <1>4, <3>1
    <3>2. CASE i # last
      BY <1>3, <1>5, <1>6, <1>7, <3>2 DEF LifeOK, NumbersOK
    <3> QED  BY <3>1, <3>2
  <2> QED  BY <1>2, <2>1 DEF NumbersOK
<1>10. SequenceNumbersIncrease'
  <2>1. DOMAIN recs' = 1 .. last /\ DOMAIN recs = 1 .. last
    BY <1>1, <1>2
  <2>2. ASSUME NEW i \in 1 .. last, NEW j \in 1 .. last, i < j,
               recs'[i].fate = "acked", recs'[j].fate \in {"acked", "pending"}
        PROVE  recs'[i].lsn < recs'[j].lsn
    <3>1. i # last /\ recs'[i] = recs[i]
      BY <1>1, <1>3, <2>2
    <3>2. recs'[j].lsn = recs[j].lsn /\ recs[j].fate \in {"acked", "pending"}
      BY <1>1, <1>3, <1>4, <2>2
    <3> QED  BY <2>1, <2>2, <3>1, <3>2 DEF LifeOK, SequenceNumbersIncrease
  <2> QED  BY <2>1, <2>2 DEF SequenceNumbersIncrease
<1> QED  BY <1>2, <1>8, <1>9, <1>10

(* Leaving the records alone, when no number falls behind.                   *)
LEMMA RecordsKeep ==
    ASSUME LifeOK, plan # <<>>, recs' = recs, plan' # <<>>, FilesOK', next_lsn <= next_lsn'
    PROVE  recs' \in Seq(Record) /\ PendingOK' /\ NumbersOK' /\ SequenceNumbersIncrease'
<1>1. next_lsn \in Nat /\ next_lsn' \in Nat
  BY NextNumber, NextNumberAfter DEF LifeOK
<1>2. recs \in Seq(Record) /\ \A i \in 1 .. Len(recs) : recs[i].lsn \in Nat
  <2>1. recs \in Seq(Record)
    BY DEF LifeOK
  <2>2. \A i \in 1 .. Len(recs) : recs[i] \in Record
    BY <2>1
  <2> QED  BY <2>1, <2>2 DEF Record
<1>3. PendingOK'
  BY DEF LifeOK, PendingOK
<1>4. NumbersOK'
  BY <1>1, <1>2 DEF LifeOK, NumbersOK
<1>5. SequenceNumbersIncrease'
  BY DEF LifeOK, SequenceNumbersIncrease
<1> QED  BY <1>2, <1>3, <1>4, <1>5

(* A write lets the active file grow, within the segment.                    *)
LEMMA WriteKeeps ==
    ASSUME LifeOK, Write
    PROVE  LifeOK' /\ \A n \in DOMAIN files : n \in DOMAIN files' /\ IsPrefix(files[n], files'[n])
<1> DEFINE cells == Head(plan).cells
<1>1. /\ plan # <<>> /\ Head(plan).call = "write" /\ file_size + Len(cells) <= SegSize
      /\ files' = [files EXCEPT ![active] = @ \o cells] /\ file_size' = file_size + Len(cells)
      /\ plan' = Tail(plan) /\ active' = active /\ mode' = mode
      /\ IF Len(plan) = 1 THEN Settle("acked") ELSE recs' = recs
  BY DEF Write, Fits
<1>2. /\ Head(plan) = plan[1] /\ plan[1] \in Call
      /\ plan' \in Seq(Call) /\ Len(plan') = Len(plan) - 1 /\ (plan' = <<>> <=> Len(plan) = 1)
      /\ plan' # <<>> => plan'[Len(plan')].call = "write" /\ Len(plan'[Len(plan')].cells) > 0
      /\ \A i \in 1 .. Len(plan') : plan'[i].call = "rotate" =>
            /\ plan'[i].segment > active
            /\ \A j \in 1 .. Len(plan') : plan'[j].call = "rotate" => i = j
  BY <1>1, PlanTail DEF LifeOK
<1>3. cells \in Seq(Cell) /\ Len(cells) \in Nat
  BY <1>2 DEF Call
<1>4. Len(plan) = 1 => Len(cells) > 0
  BY <1>1, <1>2 DEF LifeOK, PlanOK
<1> HIDE DEF cells
<1>5. /\ active \in DOMAIN files /\ DOMAIN files \subseteq 0 .. active
      /\ active \in Nat /\ file_size \in 0 .. SegSize
      /\ \A n \in DOMAIN files : files[n] \in Seq(Cell)
  BY DEF LifeOK, FilesOK
<1>6. /\ DOMAIN files' = DOMAIN files /\ files'[active] = files[active] \o cells
      /\ \A n \in DOMAIN files : n # active => files'[n] = files[n]
  BY <1>1, <1>5
<1>7. \A n \in DOMAIN files : files'[n] \in Seq(Cell) /\ IsPrefix(files[n], files'[n])
  <2>1. ASSUME NEW s \in Seq(Cell), NEW t \in Seq(Cell)
        PROVE  s \o t \in Seq(Cell) /\ IsPrefix(s, s \o t) /\ IsPrefix(s, s)
    BY DEF IsPrefix
  <2>2. files'[active] \in Seq(Cell) /\ IsPrefix(files[active], files'[active])
    BY <1>3, <1>5, <1>6, <2>1
  <2>3. ASSUME NEW n \in DOMAIN files, n # active
        PROVE  files'[n] \in Seq(Cell) /\ IsPrefix(files[n], files'[n])
    BY <1>3, <1>5, <1>6, <2>1, <2>3
  <2> QED  BY <2>2, <2>3
<1>8. file_size' \in 0 .. SegSize
  BY <1>1, <1>3, <1>5, WalAssumption
<1>9. FilesOK'
  BY <1>1, <1>5, <1>6, <1>7, <1>8 DEF FilesOK
<1>10. PlanOK'
  BY <1>1, <1>2 DEF PlanOK
<1>11. /\ next_lsn \in Nat /\ next_lsn' = next_lsn + Len(cells)
  <2>1. base_lsn \in Nat /\ base_lsn' = base_lsn
    BY <1>1, NextNumber DEF LifeOK, base_lsn
  <2> QED  BY <1>1, <1>3, <1>5, <2>1, WalAssumption DEF next_lsn
<1>12. next_lsn <= next_lsn'
  BY <1>3, <1>11
<1>13. recs' \in Seq(Record) /\ PendingOK' /\ NumbersOK' /\ SequenceNumbersIncrease'
  <2>1. CASE Len(plan) = 1
    <3>1. recs[Len(recs)].lsn <= next_lsn /\ recs[Len(recs)].lsn \in Nat
      <4>1. Len(recs) \in 1 .. Len(recs) /\ recs[Len(recs)].fate = "pending"
        BY <1>1 DEF LifeOK, PendingOK
      <4>2. recs[Len(recs)] \in Record
        BY <4>1 DEF LifeOK
      <4> QED  BY <4>1, <4>2 DEF LifeOK, NumbersOK, Record
    <3>2. recs[Len(recs)].lsn < next_lsn'
      BY <1>3, <1>4, <1>11, <2>1, <3>1
    <3>3. Settle("acked") /\ plan' = <<>>
      BY <1>1, <1>2, <2>1
    <3> QED  BY <1>1, <1>9, <1>12, <3>2, <3>3, SettleKeeps
  <2>2. CASE Len(plan) # 1
    BY <1>1, <1>2, <1>9, <1>12, <2>2, RecordsKeep
  <2> QED  BY <2>1, <2>2
<1> QED  BY <1>1, <1>6, <1>7, <1>9, <1>10, <1>13 DEF LifeOK

(* Rotation opens a file with a number that no file has.                     *)
LEMMA RotateKeeps ==
    ASSUME LifeOK, Rotate
    PROVE  LifeOK' /\ \A n \in DOMAIN files : n \in DOMAIN files' /\ IsPrefix(files[n], files'[n])
<1> DEFINE number == Head(plan).segment
<1>1. /\ plan # <<>> /\ Head(plan).call = "rotate"
      /\ files' = [m \in DOMAIN files \cup {number} |-> IF m = number THEN <<>> ELSE files[m]]
      /\ active' = number /\ file_size' = 0 /\ plan' = Tail(plan)
      /\ recs' = recs /\ mode' = mode
  BY DEF Rotate
<1>2. /\ Head(plan) = plan[1] /\ plan[1] \in Call /\ Len(plan) \in Nat /\ Len(plan) > 0
      /\ plan' \in Seq(Call) /\ Len(plan') = Len(plan) - 1 /\ (plan' = <<>> <=> Len(plan) = 1)
      /\ plan' # <<>> => plan'[Len(plan')].call = "write" /\ Len(plan'[Len(plan')].cells) > 0
      /\ \A i \in 1 .. Len(plan') : plan'[i].call = "rotate" =>
            /\ plan'[i].segment > number
            /\ \A j \in 1 .. Len(plan') : plan'[j].call = "rotate" => i = j
  BY <1>1, PlanTail DEF LifeOK
<1>3. number \in Nat /\ number > active
  BY <1>1, <1>2 DEF LifeOK, PlanOK, Call
<1>4. plan' # <<>>
  BY <1>1, <1>2 DEF LifeOK, PlanOK
<1> HIDE DEF number
<1>5. /\ active \in DOMAIN files /\ DOMAIN files \subseteq 0 .. active
      /\ active \in Nat /\ file_size \in 0 .. SegSize
      /\ \A n \in DOMAIN files : files[n] \in Seq(Cell)
  BY DEF LifeOK, FilesOK
<1>6. number \notin DOMAIN files
  BY <1>3, <1>5
<1>7. ASSUME NEW n \in DOMAIN files
      PROVE  n \in DOMAIN files' /\ files'[n] = files[n] /\ IsPrefix(files[n], files'[n])
  <2>1. n \in DOMAIN files' /\ files'[n] = files[n]
    BY <1>1, <1>6
  <2> QED  BY <1>5, <2>1 DEF IsPrefix
<1>8. FilesOK'
  <2>1. DOMAIN files' = DOMAIN files \cup {number} /\ files'[number] = <<>>
    BY <1>1
  <2>2. DOMAIN files' \subseteq 0 .. number
    BY <1>3, <1>5, <2>1
  <2>3. \A n \in DOMAIN files' : files'[n] \in Seq(Cell)
    <3>1. <<>> \in Seq(Cell)
      OBVIOUS
    <3> QED  BY <1>5, <1>7, <2>1, <3>1
  <2>4. file_size' \in 0 .. SegSize
    BY <1>1, WalAssumption
  <2> QED  BY <1>1, <1>3, <2>1, <2>2, <2>3, <2>4 DEF FilesOK
<1>9. PlanOK'
  BY <1>1, <1>2 DEF PlanOK
<1>10. next_lsn <= next_lsn'
  <2>1. active * SegSize \in Nat /\ number * SegSize \in Nat
        /\ active * SegSize + SegSize <= number * SegSize
    BY <1>3, <1>5, TimesStep, WalAssumption
  <2>2. next_lsn = active * SegSize + file_size
    BY DEF next_lsn, base_lsn
  <2>3. next_lsn' = number * SegSize + 0
    BY <1>1 DEF next_lsn, base_lsn
  <2> QED  BY <1>5, <2>1, <2>2, <2>3, WalAssumption
<1>11. recs' \in Seq(Record) /\ PendingOK' /\ NumbersOK' /\ SequenceNumbersIncrease'
  BY <1>1, <1>4, <1>8, <1>10, RecordsKeep
<1> QED  BY <1>1, <1>7, <1>8, <1>9, <1>11 DEF LifeOK

(* An append that ends early leaves the segment and its size in memory; the  *)
(* file may have part of a write.                                            *)
LEMMA FailureKeeps ==
    ASSUME LifeOK, plan # <<>>, plan' = <<>>, active' = active, file_size' = file_size,
           files' \in Torn, mode' \in {"run", "dead"}, Settle("error") \/ Settle("failed")
    PROVE  LifeOK' /\ \A n \in DOMAIN files : n \in DOMAIN files' /\ IsPrefix(files[n], files'[n])
<1>1. /\ active \in DOMAIN files /\ DOMAIN files \subseteq 0 .. active
      /\ \A n \in DOMAIN files : files[n] \in Seq(Cell)
  BY DEF LifeOK, FilesOK
<1>2. Head(plan) \in Call
  <2>1. plan \in Seq(Call)
    BY DEF LifeOK, PlanOK
  <2> QED  BY <2>1
<1>3. files' = files \/ \E part \in Seq(Cell) : files' = [files EXCEPT ![active] = @ \o part]
  <2>1. CASE files' = files
    BY <2>1
  <2>2. CASE files' # files
    <3>1. PICK k \in 1 .. Len(Head(plan).cells) - 1 :
             files' = [files EXCEPT ![active] = @ \o SubSeq(Head(plan).cells, 1, k)]
      BY <2>2 DEF Torn
    <3>2. Head(plan).cells \in Seq(Cell)
      BY <1>2 DEF Call
    <3>3. SubSeq(Head(plan).cells, 1, k) \in Seq(Cell)
      BY <3>1, <3>2
    <3> QED  BY <3>1, <3>3
  <2> QED  BY <2>1, <2>2
<1>4. /\ DOMAIN files' = DOMAIN files
      /\ \A n \in DOMAIN files : files'[n] \in Seq(Cell) /\ IsPrefix(files[n], files'[n])
  <2>1. ASSUME NEW s \in Seq(Cell), NEW t \in Seq(Cell)
        PROVE  s \o t \in Seq(Cell) /\ IsPrefix(s, s \o t) /\ IsPrefix(s, s)
    BY DEF IsPrefix
  <2>2. CASE files' = files
    BY <1>1, <2>1, <2>2
  <2>3. ASSUME NEW part \in Seq(Cell), files' = [files EXCEPT ![active] = @ \o part]
        PROVE  /\ DOMAIN files' = DOMAIN files
               /\ \A n \in DOMAIN files : files'[n] \in Seq(Cell) /\ IsPrefix(files[n], files'[n])
    <3>1. /\ DOMAIN files' = DOMAIN files /\ files'[active] = files[active] \o part
          /\ \A n \in DOMAIN files : n # active => files'[n] = files[n]
      BY <1>1, <2>3
    <3>2. files'[active] \in Seq(Cell) /\ IsPrefix(files[active], files'[active])
      BY <1>1, <2>1, <3>1
    <3>3. ASSUME NEW n \in DOMAIN files, n # active
          PROVE  files'[n] \in Seq(Cell) /\ IsPrefix(files[n], files'[n])
      BY <1>1, <2>1, <2>3, <3>1, <3>3
    <3> QED  BY <3>1, <3>2, <3>3
  <2> QED  BY <1>3, <2>2, <2>3
<1>5. FilesOK'
  BY <1>1, <1>4 DEF LifeOK, FilesOK
<1>6. PlanOK'
  <2>1. <<>> \in Seq(Call) /\ Len(<<>>) = 0
    OBVIOUS
  <2> QED  BY <2>1 DEF PlanOK
<1>7. next_lsn' = next_lsn /\ next_lsn \in Nat
  BY NextNumber DEF LifeOK, next_lsn, base_lsn
<1>8. next_lsn <= next_lsn'
  BY <1>7
<1>9. recs' \in Seq(Record) /\ PendingOK' /\ NumbersOK' /\ SequenceNumbersIncrease'
  BY <1>5, <1>8, SettleKeeps
<1> QED  BY <1>4, <1>5, <1>6, <1>9 DEF LifeOK

(* Every step of the first life keeps the invariant and lets the log grow.   *)
LEMMA StepKeeps ==
    ASSUME Inductive, [Next]_vars
    PROVE  /\ Inductive'
           /\ crashes' = 0 => \A n \in DOMAIN files :
                                 n \in DOMAIN files' /\ IsPrefix(files[n], files'[n])
<1> DEFINE Grows == \A n \in DOMAIN files : n \in DOMAIN files' /\ IsPrefix(files[n], files'[n])
<1>1. crashes' \in Nat /\ (crashes' = 0 => crashes = 0 /\ ~Crash)
  <2>1. CASE Crash
    BY <2>1 DEF Crash, Inductive
  <2>2. CASE ~Crash
    <3>1. crashes' = crashes
      BY <2>2 DEF Next, AppendEntry, Write, WritePanic, Rotate, Error, Restart, vars
    <3> QED  BY <2>2, <3>1 DEF Inductive
  <2> QED  BY <2>1, <2>2
<1> SUFFICES ASSUME crashes' = 0 PROVE LifeOK' /\ Grows
  BY <1>1 DEF Inductive
<1>2. LifeOK /\ ~Crash
  BY <1>1 DEF Inductive
<1>3. ASSUME files' = files PROVE Grows
  <2>1. ASSUME NEW n \in DOMAIN files PROVE IsPrefix(files[n], files[n])
    <3>1. files[n] \in Seq(Cell)
      BY <1>2 DEF LifeOK, FilesOK
    <3> QED  BY <3>1 DEF IsPrefix
  <2> QED  BY <1>3, <2>1
<1> HIDE DEF Grows
<1>4. ASSUME NEW size \in Sizes, AppendEntry(size) PROVE LifeOK' /\ Grows
  <2>1. files' = files
    BY <1>4 DEF AppendEntry
  <2> QED  BY <1>2, <1>3, <1>4, <2>1, AppendEntryKeeps
<1>5. CASE Write
  BY <1>2, <1>5, WriteKeeps DEF Grows
<1>6. CASE Rotate
  BY <1>2, <1>6, RotateKeeps DEF Grows
<1>7. CASE WritePanic
  <2>1. /\ plan # <<>> /\ plan' = <<>> /\ active' = active /\ file_size' = file_size
        /\ files' = files /\ mode' = "dead" /\ Settle("failed")
    BY <1>7 DEF WritePanic
  <2>2. files' \in Torn
    BY <2>1 DEF Torn
  <2> QED  BY <1>2, <2>1, <2>2, FailureKeeps DEF Grows
<1>8. CASE Error
  <2>1. /\ plan # <<>> /\ plan' = <<>> /\ active' = active /\ file_size' = file_size
        /\ files' \in Torn /\ mode' = mode /\ Settle("error")
    BY <1>8 DEF Error
  <2>2. mode' \in {"run", "dead"}
    BY <1>2, <2>1 DEF LifeOK
  <2> QED  BY <1>2, <2>1, <2>2, FailureKeeps DEF Grows
<1>9. CASE Restart
  BY <1>2, <1>9 DEF Restart, LifeOK
<1>10. CASE UNCHANGED vars
  <2>1. LifeOK'
    BY <1>2, <1>10 DEF vars, LifeOK, FilesOK, PlanOK, PendingOK, NumbersOK,
                       SequenceNumbersIncrease, next_lsn, base_lsn
  <2> QED  BY <1>3, <1>10, <2>1 DEF vars
<1> QED  BY <1>2, <1>4, <1>5, <1>6, <1>7, <1>8, <1>9, <1>10 DEF Next

LEMMA InitInductive == Init => Inductive
<1> SUFFICES ASSUME Init PROVE Inductive
  OBVIOUS
<1>1. /\ files = [n \in {0} |-> <<>>] /\ active = 0 /\ file_size = 0
      /\ plan = <<>> /\ recs = <<>> /\ mode = "run" /\ crashes = 0
  BY DEF Init
<1>2. <<>> \in Seq(Cell) /\ <<>> \in Seq(Call) /\ <<>> \in Seq(Record) /\ Len(<<>>) = 0
  OBVIOUS
<1>3. FilesOK
  BY <1>1, <1>2, WalAssumption DEF FilesOK
<1>4. PlanOK
  BY <1>1, <1>2 DEF PlanOK
<1>5. PendingOK /\ NumbersOK /\ SequenceNumbersIncrease
  BY <1>1, <1>2 DEF PendingOK, NumbersOK, SequenceNumbersIncrease
<1> QED  BY <1>1, <1>2, <1>3, <1>4, <1>5 DEF Inductive, LifeOK

-----------------------------------------------------------------------------
(* The theorems of the first life                                            *)

(* In the first life of the process a later acknowledged record has a higher *)
(* sequence number (Segment::next_lsn), whatever the sizes of records and    *)
(* segments, however records are split, and whichever appends fail after     *)
(* some of their system calls.                                               *)
THEOREM NumbersGrow == Spec => []FirstLifeNumbersIncrease
<1>1. Inductive => FirstLifeNumbersIncrease
  BY DEF Inductive, LifeOK, FirstLifeNumbersIncrease
<1>2. Inductive /\ [Next]_vars => Inductive'
  BY StepKeeps
<1> QED  BY <1>1, <1>2, InitInductive, PTL DEF Spec

(* In the first life of the process nothing that has been written to the log *)
(* is written over or cut off: Wal::rotate never creates a file that exists. *)
THEOREM LogGrows == Spec => LogAppendOnly
<1> DEFINE Step == crashes' = 0 => \A n \in DOMAIN files :
                                      n \in DOMAIN files' /\ IsPrefix(files[n], files'[n])
<1>1. Inductive /\ [Next]_vars => Inductive' /\ Step
  BY StepKeeps
<1>2. Inductive /\ [Next]_vars => [Step]_vars
  BY <1>1
<1>3. Inductive /\ [Next]_vars => Inductive'
  BY <1>1
<1> QED  BY <1>2, <1>3, InitInductive, PTL DEF Spec, LogAppendOnly

-----------------------------------------------------------------------------
(* What recovery reads                                                       *)

ScanStep(fs, acc, n) == RecoverSegment(fs, acc, n, 0)

Scan == INSTANCE Iteration WITH Step <- ScanStep

(* Induction from n downwards.                                               *)
LEMMA DownInduction ==
    ASSUME NEW n \in Nat, NEW P,
           \A o \in 0 .. n : (\A q \in 0 .. n : q > o => q \in P) => o \in P
    PROVE  \A o \in 0 .. n : o \in P
<1> DEFINE Q == {k \in Nat : \A o \in 0 .. n : o + k >= n => o \in P}
<1>1. 0 \in Q
  <2>1. ASSUME NEW o \in 0 .. n, o + 0 >= n PROVE o \in P
    <3>1. \A q \in 0 .. n : ~(q > o)
      BY <2>1
    <3> QED  BY <3>1
  <2> QED  BY <2>1
<1>2. ASSUME NEW k \in Nat, k \in Q PROVE k + 1 \in Q
  <2>1. ASSUME NEW o \in 0 .. n, o + (k + 1) >= n PROVE o \in P
    <3>1. \A q \in 0 .. n : q > o => q + k >= n
      BY <2>1
    <3>2. \A q \in 0 .. n : q > o => q \in P
      BY <1>2, <3>1
    <3> QED  BY <3>2
  <2> QED  BY <2>1
<1>3. \A k \in Nat : k \in Q
  <2> HIDE DEF Q
  <2> QED  BY <1>1, <1>2, Scan!SetInduction
<1>4. n \in Q
  BY <1>3
<1> QED  BY <1>4

(* A first cell tells the size of a record, which is more than a header.     *)
LEMMA FirstCell ==
    ASSUME NEW c \in Cell, c.pos = 1
    PROVE  c.id \in 1 .. MaxRecords /\ c.size \in Sizes /\ c.size \in Nat /\ c.size > HeaderSize
<1>1. c # Zero
  BY DEF Zero
<1>2. c.id \in 1 .. MaxRecords /\ c.size \in Sizes
  BY <1>1 DEF Cell
<1> QED  BY <1>2, WalAssumption

-----------------------------------------------------------------------------
(* parse_validate_wal_entries                                                *)

ParseStep(b, g, o) ==
    IF o + HeaderSize > Len(b) THEN [ids |-> <<>>, end |-> "clean", at |-> o]
    ELSE LET c == b[o + 1] IN
         IF c.pos # 1 THEN [ids |-> <<>>, end |-> "corrupted", at |-> o]
         ELSE IF o + c.size > Len(b) THEN [ids |-> <<>>, end |-> "partial", at |-> o]
         ELSE IF ~WholeRecord(b, o) THEN [ids |-> <<>>, end |-> "corrupted", at |-> o]
         ELSE [g[o + c.size] EXCEPT !.ids = <<c.id>> \o @]

ParseSolves(b, g) == g = [o \in 0 .. Len(b) |-> ParseStep(b, g, o)]

(* The results of reading from every offset.                                 *)
Reads(b) == CHOOSE g : ParseSolves(b, g)

(* A step looks only at what is read from later offsets.                     *)
LEMMA StepLooksAhead ==
    ASSUME NEW b \in Seq(Cell), NEW o \in 0 .. Len(b), NEW g, NEW h,
           \A q \in 0 .. Len(b) : q > o => g[q] = h[q]
    PROVE  ParseStep(b, g, o) = ParseStep(b, h, o)
<1> DEFINE c == b[o + 1]
<1>1. Len(b) \in Nat /\ HeaderSize \in Nat /\ HeaderSize > 0
  BY WalAssumption
<1>2. CASE o + HeaderSize > Len(b)
  BY <1>2 DEF ParseStep
<1>3. CASE ~(o + HeaderSize > Len(b))
  <2>1. c \in Cell
    BY <1>1, <1>3
  <2> HIDE DEF c
  <2>2. c.pos = 1 /\ ~(o + c.size > Len(b)) => o + c.size \in 0 .. Len(b) /\ o + c.size > o
    BY <1>1, <2>1, FirstCell
  <2>3. c.pos = 1 /\ ~(o + c.size > Len(b)) => g[o + c.size] = h[o + c.size]
    BY <2>2
  <2> QED  BY <1>3, <2>3 DEF ParseStep, c
<1> QED  BY <1>2, <1>3

LEMMA ParseSolved ==
    ASSUME NEW b \in Seq(Cell)
    PROVE  \E g : ParseSolves(b, g)
<1> DEFINE n == Len(b)
           Good(k, g) == \A o \in 0 .. n : o + k >= n => g[o] = ParseStep(b, g, o)
           P == {k \in Nat : \E g : Good(k, g)}
<1>1. n \in Nat
  OBVIOUS
<1>2. 0 \in P
  <2> DEFINE g == [o \in 0 .. n |-> [ids |-> <<>>, end |-> "clean", at |-> o]]
  <2>1. \A o \in 0 .. n : o + 0 >= n => o + HeaderSize > n
    BY <1>1, WalAssumption
  <2>2. Good(0, g)
    BY <2>1 DEF ParseStep
  <2> HIDE DEF g
  <2> QED  BY <2>2
<1>3. ASSUME NEW k \in Nat, k \in P PROVE k + 1 \in P
  <2>1. PICK g : Good(k, g)
    BY <1>3
  <2> DEFINE h == [o \in 0 .. n |-> IF o + k >= n THEN g[o] ELSE ParseStep(b, g, o)]
  <2>2. ASSUME NEW o \in 0 .. n, o + (k + 1) >= n PROVE h[o] = ParseStep(b, h, o)
    <3>1. \A q \in 0 .. n : q > o => q + k >= n
      BY <1>1, <2>2
    <3>2. \A q \in 0 .. n : q > o => g[q] = h[q]
      BY <3>1
    <3>3. h[o] = ParseStep(b, g, o)
      BY <2>1
    <3> HIDE DEF h
    <3> QED  BY <3>2, <3>3, StepLooksAhead
  <2> HIDE DEF h
  <2>3. Good(k + 1, h)
    BY <2>2
  <2> QED  BY <2>3
<1>4. \A k \in Nat : k \in P
  <2> HIDE DEF P
  <2> QED  BY <1>2, <1>3, Scan!SetInduction
<1>5. PICK g : Good(n, g)
  BY <1>1, <1>4
<1> DEFINE h == [o \in 0 .. n |-> g[o]]
<1>6. ASSUME NEW o \in 0 .. n PROVE h[o] = ParseStep(b, h, o)
  <2>1. g[o] = ParseStep(b, g, o) /\ h[o] = g[o]
    BY <1>1, <1>5
  <2>2. \A q \in 0 .. n : q > o => g[q] = h[q]
    OBVIOUS
  <2> HIDE DEF h
  <2> QED  BY <2>1, <2>2, StepLooksAhead
<1>7. h = [o \in 0 .. n |-> h[o]]
  OBVIOUS
<1> HIDE DEF h
<1>8. h = [o \in 0 .. n |-> ParseStep(b, h, o)]
  BY <1>6, <1>7
<1> QED  BY <1>8 DEF ParseSolves

(* Parse reads from offset 0, and one step at a time.                        *)
LEMMA ParseReads ==
    ASSUME NEW b \in Seq(Cell)
    PROVE  /\ Parse(b) = Reads(b)[0]
           /\ \A o \in 0 .. Len(b) : Reads(b)[o] = ParseStep(b, Reads(b), o)
<1>1. Parse(b) = Reads(b)[0]
  BY DEF Parse, Reads, ParseSolves, ParseStep
<1>2. ParseSolves(b, Reads(b))
  BY ParseSolved DEF Reads
<1>3. Reads(b) = [o \in 0 .. Len(b) |-> ParseStep(b, Reads(b), o)]
  BY <1>2 DEF ParseSolves
<1>4. \A o \in 0 .. Len(b) : Reads(b)[o] = ParseStep(b, Reads(b), o)
  BY <1>3
<1> QED  BY <1>1, <1>4

(* What one step does, case by case.                                         *)
LEMMA StepCases ==
    ASSUME NEW b \in Seq(Cell), NEW o \in 0 .. Len(b)
    PROVE  LET r == Reads(b)[o]
               c == b[o + 1]
           IN  \/ o + HeaderSize > Len(b) /\ r = [ids |-> <<>>, end |-> "clean", at |-> o]
               \/ /\ o + HeaderSize <= Len(b) /\ c.pos = 1 /\ o + c.size > Len(b)
                  /\ c \in Cell /\ r = [ids |-> <<>>, end |-> "partial", at |-> o]
               \/ /\ o + HeaderSize <= Len(b) /\ c \in Cell
                  /\ c.pos # 1 \/ (o + c.size <= Len(b) /\ ~WholeRecord(b, o))
                  /\ r = [ids |-> <<>>, end |-> "corrupted", at |-> o]
               \/ /\ o + HeaderSize <= Len(b) /\ c \in Cell /\ c.pos = 1 /\ WholeRecord(b, o)
                  /\ o + c.size \in 0 .. Len(b) /\ o + c.size > o + HeaderSize
                  /\ r = [Reads(b)[o + c.size] EXCEPT !.ids = <<c.id>> \o @]
<1> DEFINE c == b[o + 1]
<1>1. Len(b) \in Nat /\ HeaderSize \in Nat /\ HeaderSize > 0
  BY WalAssumption
<1>2. Reads(b)[o] = ParseStep(b, Reads(b), o)
  BY ParseReads
<1>3. CASE o + HeaderSize > Len(b)
  BY <1>2, <1>3 DEF ParseStep
<1>4. CASE ~(o + HeaderSize > Len(b))
  <2>1. c \in Cell /\ o + HeaderSize <= Len(b)
    BY <1>1, <1>4
  <2> HIDE DEF c
  <2>2. c.pos = 1 => c.size \in Nat /\ c.size > HeaderSize
    BY <2>1, FirstCell
  <2>3. CASE c.pos # 1
    BY <1>2, <1>4, <2>1, <2>3 DEF ParseStep, c
  <2>4. CASE c.pos = 1 /\ o + c.size > Len(b)
    BY <1>2, <1>4, <2>1, <2>4 DEF ParseStep, c
  <2>5. CASE c.pos = 1 /\ ~(o + c.size > Len(b)) /\ ~WholeRecord(b, o)
    <3>1. o + c.size <= Len(b)
      BY <1>1, <2>2, <2>5
    <3> QED  BY <1>2, <1>4, <2>1, <2>5, <3>1 DEF ParseStep, c
  <2>6. CASE c.pos = 1 /\ ~(o + c.size > Len(b)) /\ WholeRecord(b, o)
    <3>1. o + c.size \in 0 .. Len(b) /\ o + c.size > o + HeaderSize
      BY <1>1, <2>2, <2>6
    <3> QED  BY <1>2, <1>4, <2>1, <2>6, <3>1 DEF ParseStep, c
  <2> QED  BY <2>3, <2>4, <2>5, <2>6
<1> QED  BY <1>3, <1>4

Reading == [ids : Seq(1 .. MaxRecords), end : {"clean", "partial", "corrupted"}, at : Nat]

(* How reading from offset o can end.                                        *)
ReadsFrom(b, o, r) ==
    /\ r \in Reading /\ r.at <= Len(b)
    /\ (r.at = o /\ r.ids = <<>>) \/ (r.at > o + HeaderSize /\ r.ids # <<>>)
    /\ r.end = "clean" => r.at + HeaderSize > Len(b)
    /\ r.end = "partial" => /\ r.at + HeaderSize <= Len(b) /\ b[r.at + 1].pos = 1
                            /\ r.at + b[r.at + 1].size > Len(b)

LEMMA ReadingEnds ==
    ASSUME NEW b \in Seq(Cell)
    PROVE  \A o \in 0 .. Len(b) : ReadsFrom(b, o, Reads(b)[o])
<1> DEFINE n == Len(b)
           P == {o \in 0 .. n : ReadsFrom(b, o, Reads(b)[o])}
<1>1. n \in Nat /\ HeaderSize \in Nat /\ HeaderSize > 0
  BY WalAssumption
<1>2. ASSUME NEW o \in 0 .. n, \A q \in 0 .. n : q > o => q \in P PROVE o \in P
  <2> DEFINE r == Reads(b)[o]
             c == b[o + 1]
  <2>1. << >> \in Seq(1 .. MaxRecords)
    OBVIOUS
  <2>2. CASE o + HeaderSize > Len(b) /\ r = [ids |-> <<>>, end |-> "clean", at |-> o]
    <3>1. r.at = o /\ r.ids = <<>> /\ r.end = "clean" /\ r \in Reading
      BY <1>1, <2>1, <2>2 DEF Reading
    <3> HIDE DEF r
    <3>2. ReadsFrom(b, o, r)
      BY <1>1, <2>2, <3>1 DEF ReadsFrom
    <3> QED  BY <3>2 DEF r
  <2>3. CASE /\ o + HeaderSize <= Len(b) /\ c.pos = 1 /\ o + c.size > Len(b)
             /\ c \in Cell /\ r = [ids |-> <<>>, end |-> "partial", at |-> o]
    <3>1. r.at = o /\ r.ids = <<>> /\ r.end = "partial" /\ r \in Reading
      BY <1>1, <2>1, <2>3 DEF Reading
    <3> HIDE DEF r
    <3>2. ReadsFrom(b, o, r)
      BY <1>1, <2>3, <3>1 DEF ReadsFrom
    <3> QED  BY <3>2 DEF r
  <2>4. CASE r = [ids |-> <<>>, end |-> "corrupted", at |-> o]
    <3>1. r.at = o /\ r.ids = <<>> /\ r.end = "corrupted" /\ r \in Reading
      BY <1>1, <2>1, <2>4 DEF Reading
    <3> HIDE DEF r
    <3>2. ReadsFrom(b, o, r)
      BY <1>1, <3>1 DEF ReadsFrom
    <3> QED  BY <3>2 DEF r
  <2>5. CASE /\ c \in Cell /\ c.pos = 1 /\ o + c.size \in 0 .. Len(b)
             /\ o + c.size > o + HeaderSize
             /\ r = [Reads(b)[o + c.size] EXCEPT !.ids = <<c.id>> \o @]
    <3> DEFINE s == Reads(b)[o + c.size]
    <3>1. c.id \in 1 .. MaxRecords /\ c.size \in Nat /\ c.size > HeaderSize
      BY <2>5, FirstCell
    <3>2. ReadsFrom(b, o + c.size, s)
      <4>1. o + c.size > o
        BY <1>1, <3>1
      <4> QED  BY <1>2, <2>5, <4>1
    <3> HIDE DEF c, s
    <3>3. /\ s \in Reading /\ s.ids \in Seq(1 .. MaxRecords) /\ s.at \in Nat
          /\ r = [s EXCEPT !.ids = <<c.id>> \o @]
      BY <2>5, <3>2 DEF ReadsFrom, Reading, s
    <3>4. <<c.id>> \o s.ids \in Seq(1 .. MaxRecords) /\ <<c.id>> \o s.ids # <<>>
      BY <3>1, <3>3
    <3>5. r \in Reading /\ r.ids = <<c.id>> \o s.ids /\ r.at = s.at /\ r.end = s.end
      BY <3>3, <3>4 DEF Reading
    <3>6. s.at >= o + c.size
      BY <1>1, <3>1, <3>2, <3>3 DEF ReadsFrom
    <3>7. r.at > o + HeaderSize
      BY <1>1, <3>1, <3>3, <3>5, <3>6
    <3> HIDE DEF r
    <3> QED  BY <3>2, <3>4, <3>5, <3>7 DEF ReadsFrom, r
  <2>6. \/ o + HeaderSize > Len(b) /\ r = [ids |-> <<>>, end |-> "clean", at |-> o]
        \/ /\ o + HeaderSize <= Len(b) /\ c.pos = 1 /\ o + c.size > Len(b)
           /\ c \in Cell /\ r = [ids |-> <<>>, end |-> "partial", at |-> o]
        \/ r = [ids |-> <<>>, end |-> "corrupted", at |-> o]
        \/ /\ c \in Cell /\ c.pos = 1 /\ o + c.size \in 0 .. Len(b)
           /\ o + c.size > o + HeaderSize
           /\ r = [Reads(b)[o + c.size] EXCEPT !.ids = <<c.id>> \o @]
    BY StepCases
  <2> HIDE DEF r, c
  <2> QED  BY <2>2, <2>3, <2>4, <2>5, <2>6
<1>3. \A o \in 0 .. n : o \in P
  <2> HIDE DEF P
  <2> QED  BY <1>1, <1>2, DownInduction
<1> QED  BY <1>3

LEMMA ParseEnds ==
    ASSUME NEW b \in Seq(Cell)
    PROVE  ReadsFrom(b, 0, Parse(b))
<1>1. 0 \in 0 .. Len(b)
  OBVIOUS
<1> QED  BY <1>1, ParseReads, ReadingEnds

(* The same cells make the same record.                                      *)
LEMMA SameRecord ==
    ASSUME NEW b \in Seq(Cell), NEW w \in Seq(Cell), NEW o \in Nat, NEW q \in Nat,
           NEW size \in Nat, o + size <= Len(b), q + size <= Len(w), size > 0,
           \A i \in 1 .. size : b[o + i] = w[q + i], b[o + 1].size = size
    PROVE  WholeRecord(b, o) <=> WholeRecord(w, q)
<1>1. Len(b) \in Nat /\ Len(w) \in Nat
  OBVIOUS
<1>2. b[o + 1] = w[q + 1]
  OBVIOUS
<1>3. SubSeq(b, o + 1, o + size) = SubSeq(w, q + 1, q + size)
  <2> DEFINE s == SubSeq(b, o + 1, o + size)
             t == SubSeq(w, q + 1, q + size)
  <2>1. s \in Seq(Cell) /\ Len(s) = size /\ \A i \in 1 .. size : s[i] = b[o + i]
    <3>1. o + 1 \in 1 .. Len(b) + 1 /\ o + size \in o .. Len(b)
      BY <1>1
    <3> QED  BY <1>1, <3>1
  <2>2. t \in Seq(Cell) /\ Len(t) = size /\ \A i \in 1 .. size : t[i] = w[q + i]
    <3>1. q + 1 \in 1 .. Len(w) + 1 /\ q + size \in q .. Len(w)
      BY <1>1
    <3> QED  BY <1>1, <3>1
  <2> HIDE DEF s, t
  <2>3. \A i \in 1 .. size : s[i] = t[i]
    BY <2>1, <2>2
  <2>4. s = [i \in 1 .. size |-> s[i]] /\ t = [i \in 1 .. size |-> t[i]]
    BY <2>1, <2>2
  <2>5. s = t
    BY <2>3, <2>4
  <2> QED  BY <2>5 DEF s, t
<1> QED  BY <1>2, <1>3 DEF WholeRecord

(* What reading w is after ids have been read from k cells.                  *)
Behind(ids, k, r) == [ids |-> ids \o r.ids, end |-> r.end, at |-> k + r.at]

(* Reading goes on in what follows as if nothing were before it.             *)
LEMMA ReadBehind ==
    ASSUME NEW b \in Seq(Cell), NEW w \in Seq(Cell)
    PROVE  \A o \in 0 .. Len(w) : Reads(b \o w)[Len(b) + o] = Behind(<<>>, Len(b), Reads(w)[o])
<1> DEFINE t == b \o w
           k == Len(b)
           n == Len(w)
           P == {o \in 0 .. n : Reads(t)[k + o] = Behind(<<>>, k, Reads(w)[o])}
<1>1. n \in Nat /\ k \in Nat /\ HeaderSize \in Nat /\ HeaderSize > 0
  BY WalAssumption
<1>2. t \in Seq(Cell) /\ Len(t) = k + n /\ \A i \in 1 .. n : t[k + i] = w[i]
  OBVIOUS
<1> HIDE DEF t
<1>3. ASSUME NEW o \in 0 .. n, \A q \in 0 .. n : q > o => q \in P PROVE o \in P
  <2> DEFINE r == Reads(w)[o]
             c == w[o + 1]
  <2>1. k + o \in 0 .. Len(t)
    BY <1>1, <1>2
  <2>2. Reads(t)[k + o] = ParseStep(t, Reads(t), k + o) /\ r = ParseStep(w, Reads(w), o)
    BY <1>2, <2>1, ParseReads
  <2>3. CASE o + HeaderSize > n
    <3>1. (k + o) + HeaderSize > Len(t)
      BY <1>1, <1>2, <2>3
    <3>2. Reads(t)[k + o] = [ids |-> <<>>, end |-> "clean", at |-> k + o]
      BY <2>2, <3>1 DEF ParseStep
    <3>3. Reads(w)[o] = [ids |-> <<>>, end |-> "clean", at |-> o]
      BY <2>2, <2>3 DEF ParseStep
    <3> QED  BY <3>2, <3>3 DEF Behind
  <2>4. CASE ~(o + HeaderSize > n)
    <3>1. ~((k + o) + HeaderSize > Len(t)) /\ o + 1 \in 1 .. n /\ (k + o) + 1 = k + (o + 1)
      BY <1>1, <1>2, <2>4
    <3>2. t[(k + o) + 1] = c /\ c \in Cell
      BY <1>2, <3>1
    <3> HIDE DEF c
    <3>3. c.pos = 1 => c.size \in Nat /\ c.size > HeaderSize
      BY <3>2, FirstCell
    <3>4. CASE c.pos # 1
      <4>1. Reads(t)[k + o] = [ids |-> <<>>, end |-> "corrupted", at |-> k + o]
        BY <2>2, <3>1, <3>2, <3>4 DEF ParseStep
      <4>2. Reads(w)[o] = [ids |-> <<>>, end |-> "corrupted", at |-> o]
        BY <2>2, <2>4, <3>4 DEF ParseStep, c
      <4> QED  BY <4>1, <4>2 DEF Behind
    <3>5. CASE c.pos = 1 /\ o + c.size > n
      <4>1. (k + o) + c.size > Len(t)
        BY <1>1, <1>2, <3>3, <3>5
      <4>2. Reads(t)[k + o] = [ids |-> <<>>, end |-> "partial", at |-> k + o]
        BY <2>2, <3>1, <3>2, <3>5, <4>1 DEF ParseStep
      <4>3. Reads(w)[o] = [ids |-> <<>>, end |-> "partial", at |-> o]
        BY <2>2, <2>4, <3>5 DEF ParseStep, c
      <4> QED  BY <4>2, <4>3 DEF Behind
    <3>6. CASE c.pos = 1 /\ ~(o + c.size > n)
      <4>1. /\ ~((k + o) + c.size > Len(t)) /\ (k + o) + c.size = k + (o + c.size)
            /\ o + c.size <= n /\ (k + o) + c.size <= Len(t) /\ o \in Nat /\ k + o \in Nat
            /\ o + c.size \in 0 .. n /\ o + c.size > o /\ c.size > 0
        <5> DEFINE z == c.size
                   l == Len(t)
        <5>1. /\ z \in Nat /\ z > HeaderSize /\ ~(o + z > n) /\ l = k + n
              /\ n \in Nat /\ k \in Nat /\ HeaderSize \in Nat /\ o \in Nat
          BY <1>1, <1>2, <3>3, <3>6
        <5> HIDE DEF z, l
        <5>2. /\ ~((k + o) + z > l) /\ (k + o) + z = k + (o + z)
              /\ o + z <= n /\ (k + o) + z <= l
          BY <5>1
        <5>3. k + o \in Nat /\ o + z \in 0 .. n /\ o + z > o /\ z > 0
          BY <5>1
        <5> QED  BY <5>1, <5>2, <5>3, Zenon DEF z, l
      <4>2. \A i \in 1 .. c.size : t[(k + o) + i] = w[o + i]
        <5>1. \A i \in 1 .. c.size : o + i \in 1 .. n /\ (k + o) + i = k + (o + i)
          BY <1>1, <3>3, <3>6, <4>1
        <5> QED  BY <1>2, <5>1
      <4>3. WholeRecord(t, k + o) <=> WholeRecord(w, o)
        BY <1>2, <3>2, <3>3, <3>6, <4>1, <4>2, SameRecord
      <4>4. CASE ~WholeRecord(w, o)
        <5>1. Reads(t)[k + o] = [ids |-> <<>>, end |-> "corrupted", at |-> k + o]
          BY <2>2, <3>1, <3>2, <3>6, <4>1, <4>3, <4>4 DEF ParseStep
        <5>2. Reads(w)[o] = [ids |-> <<>>, end |-> "corrupted", at |-> o]
          BY <2>2, <2>4, <3>6, <4>4 DEF ParseStep, c
        <5> QED  BY <5>1, <5>2 DEF Behind
      <4>5. CASE WholeRecord(w, o)
        <5> DEFINE x == Reads(t)[k + (o + c.size)]
                   y == Reads(w)[o + c.size]
        <5>1. Reads(t)[k + o] = [x EXCEPT !.ids = <<c.id>> \o @]
          BY <2>2, <3>1, <3>2, <3>6, <4>1, <4>3, <4>5 DEF ParseStep
        <5>2. Reads(w)[o] = [y EXCEPT !.ids = <<c.id>> \o @]
          BY <2>2, <2>4, <3>6, <4>5 DEF ParseStep, c
        <5>3. x = Behind(<<>>, k, y)
          BY <1>3, <4>1
        <5>4. y \in Reading
          BY <4>1, ReadingEnds DEF ReadsFrom
        <5> HIDE DEF x, y
        <5>5. y.ids \in Seq(1 .. MaxRecords) /\ y.at \in Nat
          BY <5>4 DEF Reading
        <5>6. x = [ids |-> y.ids, end |-> y.end, at |-> k + y.at]
          BY <5>3, <5>5 DEF Behind
        <5>7. Reads(t)[k + o] = [ids |-> <<c.id>> \o y.ids, end |-> y.end, at |-> k + y.at]
          BY <5>1, <5>6
        <5>8. Reads(w)[o] = [ids |-> <<c.id>> \o y.ids, end |-> y.end, at |-> y.at]
          BY <5>2, <5>4 DEF Reading
        <5>9. c.id \in 1 .. MaxRecords
          BY <3>2, <3>6, FirstCell
        <5>10. <<>> \o (<<c.id>> \o y.ids) = <<c.id>> \o y.ids
          BY <5>5, <5>9
        <5>11. Reads(t)[k + o] = Behind(<<>>, k, Reads(w)[o])
          BY <5>7, <5>8, <5>10 DEF Behind
        <5> QED  BY <5>11
      <4> QED  BY <4>4, <4>5
    <3> QED  BY <3>4, <3>5, <3>6
  <2> QED  BY <2>3, <2>4
<1>4. \A o \in 0 .. n : o \in P
  <2> HIDE DEF P
  <2> QED  BY <1>1, <1>3, DownInduction
<1> QED  BY <1>4 DEF t

(* What has been read, with a record before it.                              *)
Preceded(id, r) == [r EXCEPT !.ids = <<id>> \o @]

(* A whole record is a step.                                                 *)
LEMMA RecordRead ==
    ASSUME NEW b \in Seq(Cell), NEW o \in 0 .. Len(b), o + HeaderSize <= Len(b),
           NEW c, c = b[o + 1], c.pos = 1, o + c.size <= Len(b), WholeRecord(b, o)
    PROVE  Reads(b)[o] = Preceded(c.id, Reads(b)[o + c.size])
<1>1. /\ c \in Cell /\ Len(b) \in Nat /\ HeaderSize \in Nat
  BY WalAssumption
<1>2. c.size \in Nat
  BY <1>1, FirstCell
<1>3. ~(o + HeaderSize > Len(b)) /\ ~(o + c.size > Len(b))
  BY <1>1, <1>2
<1>4. Reads(b)[o] = ParseStep(b, Reads(b), o)
  BY ParseReads
<1> QED  BY <1>3, <1>4 DEF ParseStep, Preceded

(* A prefix that is read to its end is followed by what is read behind it.    *)
LEMMA ReadThrough ==
    ASSUME NEW b \in Seq(Cell), NEW w \in Seq(Cell)
    PROVE  \A o \in 0 .. Len(b) :
              Reads(b)[o].end = "clean" /\ Reads(b)[o].at = Len(b) =>
                 Reads(b \o w)[o] = Behind(Reads(b)[o].ids, Len(b), Reads(w)[0])
<1> DEFINE t == b \o w
           k == Len(b)
           z == Reads(w)[0]
           P == {o \in 0 .. k : Reads(b)[o].end = "clean" /\ Reads(b)[o].at = k =>
                                   Reads(t)[o] = Behind(Reads(b)[o].ids, k, z)}
<1>1. k \in Nat /\ Len(w) \in Nat /\ HeaderSize \in Nat /\ HeaderSize > 0 /\ 0 \in 0 .. Len(w)
  BY WalAssumption
<1>2. /\ t \in Seq(Cell) /\ Len(t) = k + Len(w) /\ k <= Len(t)
      /\ \A i \in 1 .. k : t[i] = b[i]
  BY <1>1
<1>3. z \in Reading /\ z.ids \in Seq(1 .. MaxRecords)
  BY <1>1, ReadingEnds DEF ReadsFrom, Reading
<1>4. Reads(t)[k] = Behind(<<>>, k, z)
  <2>1. Reads(t)[k + 0] = Behind(<<>>, k, z)
    BY <1>1, ReadBehind
  <2>2. k + 0 = k
    BY <1>1
  <2> QED  BY <2>1, <2>2
<1> HIDE DEF t, z
<1>5. ASSUME NEW o \in 0 .. k, \A q \in 0 .. k : q > o => q \in P,
             Reads(b)[o].end = "clean", Reads(b)[o].at = k
      PROVE  Reads(t)[o] = Behind(Reads(b)[o].ids, k, z)
  <2> DEFINE r == Reads(b)[o]
             c == b[o + 1]
  <2>1. CASE r = [ids |-> <<>>, end |-> "clean", at |-> o]
    <3>1. o = k /\ r.ids = <<>>
      BY <1>5, <2>1
    <3> QED  BY <1>4, <3>1
  <2>2. CASE r = [ids |-> <<>>, end |-> "partial", at |-> o]
    BY <1>5, <2>2
  <2>3. CASE r = [ids |-> <<>>, end |-> "corrupted", at |-> o]
    BY <1>5, <2>3
  <2>4. CASE /\ o + HeaderSize <= k /\ c \in Cell /\ c.pos = 1 /\ WholeRecord(b, o)
             /\ o + c.size \in 0 .. k /\ o + c.size > o + HeaderSize
             /\ r = [Reads(b)[o + c.size] EXCEPT !.ids = <<c.id>> \o @]
    <3>1. c.id \in 1 .. MaxRecords /\ c.size \in Nat /\ c.size > 0 /\ o \in Nat
      BY <1>1, <2>4, FirstCell
    <3>2. t[o + 1] = c
      BY <1>1, <1>2, <2>4
    <3>3. WholeRecord(t, o)
      <4>1. \A i \in 1 .. c.size : o + i \in 1 .. k
        BY <1>1, <2>4, <3>1
      <4>2. \A i \in 1 .. c.size : b[o + i] = t[o + i]
        BY <1>2, <4>1
      <4>3. o + c.size <= k /\ o + c.size <= Len(t)
        BY <1>1, <1>2, <2>4, <3>1
      <4> QED  BY <1>2, <2>4, <3>1, <4>2, <4>3, SameRecord, ZenonT(40)
    <3> DEFINE x == Reads(t)[o + c.size]
               y == Reads(b)[o + c.size]
    <3>4. Reads(t)[o] = Preceded(c.id, x)
      <4>1. o \in 0 .. Len(t) /\ o + HeaderSize <= Len(t) /\ o + c.size <= Len(t)
        BY <1>1, <1>2, <2>4
      <4>2. t \in Seq(Cell) /\ c.pos = 1
        BY <1>2, <2>4
      <4> HIDE DEF c
      <4> QED  BY <3>2, <3>3, <4>1, <4>2, RecordRead
    <3>5. y \in Reading
      BY <2>4, ReadingEnds DEF ReadsFrom
    <3>6. r = [y EXCEPT !.ids = <<c.id>> \o @]
      BY <2>4
    <3>7. o + c.size \in P
      BY <1>1, <1>5, <2>4, <3>1
    <3>8. y.end = "clean" /\ y.at = k => x = Behind(y.ids, k, z)
      BY <3>7
    <3> HIDE DEF x, y, c
    <3>9. r.end = y.end /\ r.at = y.at /\ r.ids = <<c.id>> \o y.ids /\ y.ids \in Seq(1 .. MaxRecords)
      BY <3>5, <3>6 DEF Reading
    <3>10. x = [ids |-> y.ids \o z.ids, end |-> z.end, at |-> k + z.at]
      BY <1>5, <3>8, <3>9 DEF Behind
    <3>11. Reads(t)[o] = [ids |-> <<c.id>> \o (y.ids \o z.ids), end |-> z.end, at |-> k + z.at]
      BY <3>4, <3>10 DEF Preceded
    <3>12. <<c.id>> \o (y.ids \o z.ids) = (<<c.id>> \o y.ids) \o z.ids
      <4>1. \A p, q, s \in Seq(1 .. MaxRecords) : p \o (q \o s) = (p \o q) \o s
        OBVIOUS
      <4>2. <<c.id>> \in Seq(1 .. MaxRecords)
        BY <3>1
      <4> QED  BY <1>3, <3>9, <4>1, <4>2
    <3> HIDE DEF r
    <3>13. Reads(t)[o] = Behind(r.ids, k, z)
      BY <3>9, <3>11, <3>12 DEF Behind
    <3> QED  BY <3>13 DEF r
  <2>5. \/ r = [ids |-> <<>>, end |-> "clean", at |-> o]
        \/ r = [ids |-> <<>>, end |-> "partial", at |-> o]
        \/ r = [ids |-> <<>>, end |-> "corrupted", at |-> o]
        \/ /\ o + HeaderSize <= k /\ c \in Cell /\ c.pos = 1 /\ WholeRecord(b, o)
           /\ o + c.size \in 0 .. k /\ o + c.size > o + HeaderSize
           /\ r = [Reads(b)[o + c.size] EXCEPT !.ids = <<c.id>> \o @]
    BY StepCases
  <2> HIDE DEF r, c
  <2> QED  BY <2>1, <2>2, <2>3, <2>4, <2>5
<1>6. \A o \in 0 .. k : (\A q \in 0 .. k : q > o => q \in P) => o \in P
  BY <1>5
<1>7. \A o \in 0 .. k : o \in P
  <2> HIDE DEF P
  <2> QED  BY <1>1, <1>6, DownInduction
<1> QED  BY <1>7 DEF t, z

(* Appending to cells that have been read to their end.                      *)
LEMMA ParseCat ==
    ASSUME NEW b \in Seq(Cell), NEW w \in Seq(Cell),
           Parse(b).end = "clean", Parse(b).at = Len(b)
    PROVE  Parse(b \o w) = Behind(Parse(b).ids, Len(b), Parse(w))
<1>1. b \o w \in Seq(Cell) /\ 0 \in 0 .. Len(b)
  OBVIOUS
<1>2. Parse(b) = Reads(b)[0] /\ Parse(w) = Reads(w)[0] /\ Parse(b \o w) = Reads(b \o w)[0]
  BY <1>1, ParseReads
<1> QED  BY <1>1, <1>2, ReadThrough

(* Cutting off what has not been read.                                       *)
LEMMA ParseCut ==
    ASSUME NEW t \in Seq(Cell), NEW k, k = Parse(t).at
    PROVE  /\ SubSeq(t, 1, k) \in Seq(Cell) /\ Len(SubSeq(t, 1, k)) = k
           /\ Parse(SubSeq(t, 1, k)) = [ids |-> Parse(t).ids, end |-> "clean", at |-> k]
<1> DEFINE b == SubSeq(t, 1, k)
           P == {o \in 0 .. k : Reads(t)[o].at = k =>
                    Reads(b)[o] = [ids |-> Reads(t)[o].ids, end |-> "clean", at |-> k]}
<1>1. k \in Nat /\ k <= Len(t) /\ Len(t) \in Nat /\ HeaderSize \in Nat /\ HeaderSize > 0
  BY ParseEnds, WalAssumption DEF ReadsFrom, Reading
<1>2. b \in Seq(Cell) /\ Len(b) = k /\ \A i \in 1 .. k : b[i] = t[i]
  BY <1>1
<1> HIDE DEF b
<1>3. ASSUME NEW o \in 0 .. k, \A q \in 0 .. k : q > o => q \in P, Reads(t)[o].at = k
      PROVE  Reads(b)[o] = [ids |-> Reads(t)[o].ids, end |-> "clean", at |-> k]
  <2> DEFINE r == Reads(t)[o]
             c == t[o + 1]
  <2>1. CASE r.at = o /\ r.ids = <<>>
    <3>1. o = k
      BY <1>3, <2>1
    <3>2. o \in 0 .. Len(b) /\ o + HeaderSize > Len(b)
      BY <1>1, <1>2, <3>1
    <3>3. Reads(b)[o] = ParseStep(b, Reads(b), o)
      BY <1>2, <3>2, ParseReads
    <3>4. Reads(b)[o] = [ids |-> <<>>, end |-> "clean", at |-> o]
      BY <3>2, <3>3 DEF ParseStep
    <3> QED  BY <2>1, <3>1, <3>4
  <2>2. CASE /\ o + HeaderSize <= Len(t) /\ c \in Cell /\ c.pos = 1 /\ WholeRecord(t, o)
             /\ o + c.size \in 0 .. Len(t) /\ o + c.size > o + HeaderSize
             /\ r = [Reads(t)[o + c.size] EXCEPT !.ids = <<c.id>> \o @]
    <3> DEFINE x == Reads(b)[o + c.size]
               y == Reads(t)[o + c.size]
    <3>1. c.id \in 1 .. MaxRecords /\ c.size \in Nat /\ c.size > 0 /\ o \in Nat /\ c.size > HeaderSize
      BY <1>1, <2>2, FirstCell
    <3>2. y \in Reading /\ y.at >= o + c.size
      <4>1. ReadsFrom(t, o + c.size, y)
        BY <2>2, ReadingEnds
      <4> DEFINE m == o + c.size
      <4>2. m \in Nat /\ HeaderSize \in Nat
        BY <1>1, <3>1
      <4> HIDE DEF m
      <4>3. y \in Reading /\ (y.at = m \/ y.at > m + HeaderSize)
        BY <4>1, Zenon DEF ReadsFrom, m
      <4>4. y.at \in Nat
        BY <4>3 DEF Reading
      <4>5. y.at >= m
        BY <4>2, <4>3, <4>4
      <4> QED  BY <4>3, <4>5 DEF m
    <3>3. r.at = y.at /\ r.ids = <<c.id>> \o y.ids
      BY <2>2, <3>2 DEF Reading
    <3>4. o + c.size <= k /\ o + c.size \in 0 .. k /\ o + HeaderSize <= k /\ y.at = k
      <4> HIDE DEF y, c, r
      <4> QED  BY <1>1, <1>3, <3>1, <3>2, <3>3 DEF Reading, r
    <3>5. b[o + 1] = c
      <4>1. o + 1 \in 1 .. k
        BY <1>1, <3>1, <3>4
      <4> QED  BY <1>2, <4>1, Zenon
    <3>6. WholeRecord(b, o)
      <4>1. \A i \in 1 .. c.size : o + i \in 1 .. k
        BY <1>1, <3>1, <3>4, SMTT(20)
      <4>2. \A i \in 1 .. c.size : t[o + i] = b[o + i]
        BY <1>2, <4>1
      <4>3. o + c.size <= Len(t) /\ o + c.size <= Len(b)
        BY <1>1, <1>2, <3>1, <3>4
      <4> QED  BY <1>2, <2>2, <3>1, <4>2, <4>3, SameRecord, SMTT(20)
    <3>7. Reads(b)[o] = Preceded(c.id, x)
      <4>1. b \in Seq(Cell) /\ Len(b) = k /\ c.pos = 1 /\ o \in 0 .. Len(b)
        BY <1>2, <2>2
      <4> HIDE DEF c
      <4> QED  BY <3>4, <3>5, <3>6, <4>1, RecordRead
    <3>8. x = [ids |-> y.ids, end |-> "clean", at |-> k]
      <4>1. o + c.size \in P
        BY <1>1, <1>3, <3>1, <3>4, SMTT(20)
      <4> QED  BY <3>4, <4>1
    <3> HIDE DEF x, y, c
    <3>9. Reads(b)[o] = [ids |-> <<c.id>> \o y.ids, end |-> "clean", at |-> k]
      BY <3>7, <3>8 DEF Preceded
    <3> QED  BY <3>3, <3>9
  <2>3. \/ r.at = o /\ r.ids = <<>>
        \/ /\ o + HeaderSize <= Len(t) /\ c \in Cell /\ c.pos = 1 /\ WholeRecord(t, o)
           /\ o + c.size \in 0 .. Len(t) /\ o + c.size > o + HeaderSize
           /\ r = [Reads(t)[o + c.size] EXCEPT !.ids = <<c.id>> \o @]
    <3>1. o \in 0 .. Len(t)
      BY <1>1
    <3>2. \/ r = [ids |-> <<>>, end |-> "clean", at |-> o]
          \/ r = [ids |-> <<>>, end |-> "partial", at |-> o]
          \/ r = [ids |-> <<>>, end |-> "corrupted", at |-> o]
          \/ /\ o + HeaderSize <= Len(t) /\ c \in Cell /\ c.pos = 1 /\ WholeRecord(t, o)
             /\ o + c.size \in 0 .. Len(t) /\ o + c.size > o + HeaderSize
             /\ r = [Reads(t)[o + c.size] EXCEPT !.ids = <<c.id>> \o @]
      BY <3>1, StepCases
    <3> HIDE DEF r, c
    <3> QED  BY <3>2
  <2> QED  BY <2>1, <2>2, <2>3
<1>4. \A o \in 0 .. k : (\A q \in 0 .. k : q > o => q \in P) => o \in P
  BY <1>3
<1>5. \A o \in 0 .. k : o \in P
  <2> HIDE DEF P
  <2> QED  BY <1>1, <1>4, DownInduction
<1>6. Parse(t) = Reads(t)[0] /\ Parse(b) = Reads(b)[0] /\ 0 \in 0 .. k
  BY <1>1, <1>2, ParseReads
<1>7. Parse(b) = [ids |-> Parse(t).ids, end |-> "clean", at |-> k]
  BY <1>5, <1>6
<1> QED  BY <1>2, <1>7 DEF b

LEMMA ParseShort ==
    ASSUME NEW w \in Seq(Cell), Len(w) < HeaderSize
    PROVE  Parse(w) = [ids |-> <<>>, end |-> "clean", at |-> 0]
<1>1. 0 \in 0 .. Len(w) /\ 0 + HeaderSize > Len(w)
  BY WalAssumption
<1>2. Parse(w) = ParseStep(w, Reads(w), 0)
  BY <1>1, ParseReads
<1> QED  BY <1>1, <1>2 DEF ParseStep

(* A header that promises more than there is.                                *)
LEMMA ParseHeader ==
    ASSUME NEW w \in Seq(Cell), HeaderSize <= Len(w), w[1].pos = 1, w[1].size > Len(w)
    PROVE  Parse(w) = [ids |-> <<>>, end |-> "partial", at |-> 0]
<1>1. HeaderSize \in Nat /\ HeaderSize > 0 /\ Len(w) \in Nat
  BY WalAssumption
<1>2. w[1] \in Cell
  BY <1>1
<1>3. w[1].size \in Nat
  BY <1>2, FirstCell
<1>4. /\ 0 \in 0 .. Len(w) /\ ~(0 + HeaderSize > Len(w)) /\ 0 + 1 = 1
      /\ 0 + w[1].size > Len(w)
  BY <1>1, <1>3
<1>5. Parse(w) = ParseStep(w, Reads(w), 0)
  BY <1>4, ParseReads
<1> QED  BY <1>4, <1>5 DEF ParseStep

LEMMA ParseWhole ==
    ASSUME NEW id \in 1 .. MaxRecords, NEW size \in Sizes
    PROVE  Parse(Cells(id, size, 1, size)) = [ids |-> <<id>>, end |-> "clean", at |-> size]
<1> DEFINE w == Cells(id, size, 1, size)
           c == w[1]
<1>1. size \in Nat /\ size > HeaderSize /\ HeaderSize \in Nat /\ HeaderSize > 0
  BY WalAssumption
<1>2. w \in Seq(Cell) /\ Len(w) = size
  <2>1. 1 \in Nat /\ 1 <= 1 /\ 1 <= size /\ size <= size /\ size - 1 + 1 = size
    BY <1>1
  <2> QED  BY <1>1, <2>1, CellsWritten
<1>3. c = [id |-> id, size |-> size, pos |-> 1]
  <2>1. 1 \in 1 .. size - 1 + 1 /\ 1 + 1 - 1 = 1
    BY <1>1
  <2> QED  BY <2>1 DEF Cells
<1>4. WholeRecord(w, 0)
  <2>1. SubSeq(w, 0 + 1, 0 + size) = w
    <3> HIDE DEF w
    <3> QED  BY <1>1, <1>2
  <2>2. w[0 + 1] = c /\ c.size = size /\ c.id = id
    BY <1>3
  <2>3. Cells(c.id, c.size, 1, c.size) = w
    BY <2>2
  <2> HIDE DEF w, c
  <2> QED  BY <2>1, <2>2, <2>3 DEF WholeRecord
<1>5. c.id = id /\ c.size = size /\ c.pos = 1
  BY <1>3
<1> HIDE DEF w, c
<1>6. Reads(w)[0] = Preceded(id, Reads(w)[size])
  <2>1. /\ 0 \in 0 .. Len(w) /\ 0 + HeaderSize <= Len(w) /\ 0 + size <= Len(w) /\ 0 + size = size
        /\ c = w[0 + 1]
    BY <1>1, <1>2 DEF c
  <2>2. Reads(w)[0] = Preceded(c.id, Reads(w)[0 + c.size])
    BY <1>2, <1>4, <1>5, <2>1, RecordRead
  <2> QED  BY <1>5, <2>1, <2>2
<1>7. Reads(w)[size] = [ids |-> <<>>, end |-> "clean", at |-> size]
  <2>1. size \in 0 .. Len(w) /\ size + HeaderSize > Len(w)
    BY <1>1, <1>2
  <2>2. Reads(w)[size] = ParseStep(w, Reads(w), size)
    BY <1>2, <2>1, ParseReads
  <2> QED  BY <2>1, <2>2 DEF ParseStep
<1>8. Parse(w) = [ids |-> <<id>> \o <<>>, end |-> "clean", at |-> size]
  BY <1>2, <1>6, <1>7, ParseReads DEF Preceded
<1>9. <<id>> \o <<>> = <<id>>
  OBVIOUS
<1> QED  BY <1>8, <1>9 DEF w

-----------------------------------------------------------------------------
(* The loop of MemTable::recover                                             *)

Start == [ids |-> <<>>, stop |-> "no", carry |-> Nowhere]

FullStep(c, acc, n) == RecoverSegment(c[1], acc, n, IF n = c[2][1] THEN c[3] ELSE 0)

Full == INSTANCE Iteration WITH Step <- FullStep

(* Recovery from the start of the log scans every segment from its start.    *)
LEMMA RecoverScans ==
    ASSUME NEW fs, NEW s \in Seq(Nat)
    PROVE  RecoverSegments(fs, s, 0) = Scan!Result(fs, Start, s)
<1> DEFINE c == <<fs, s, 0>>
<1>1. RecoverSegments(fs, s, 0) = Full!Result(c, Start, s)
  BY DEF RecoverSegments, Start, Full!Result, FullStep, FoldLeft, MapThenFoldSet,
         Full!FoldLeft, Full!MapThenFoldSet, Full!Max, Max
<1>2. c[1] = fs /\ c[3] = 0
  OBVIOUS
<1> HIDE DEF c
<1>3. PICK f : Full!IsRun(f, c, Start, s) /\ Full!Result(c, Start, s) = f[Len(s)]
  BY Full!FoldRuns
<1>4. \A acc, n : FullStep(c, acc, n) = ScanStep(fs, acc, n)
  BY <1>2 DEF FullStep, ScanStep
<1>5. Scan!IsRun(f, fs, Start, s)
  BY <1>3, <1>4 DEF Full!IsRun, Scan!IsRun
<1>6. PICK g : Scan!IsRun(g, fs, Start, s) /\ Scan!Result(fs, Start, s) = g[Len(s)]
  BY Scan!FoldRuns
<1>7. f[Len(s)] = g[Len(s)]
  <2>1. Len(s) \in 0 .. Len(s)
    OBVIOUS
  <2> QED  BY <1>5, <1>6, <2>1, Scan!RunUnique
<1> QED  BY <1>1, <1>3, <1>6, <1>7

(* A directory of segment files.                                             *)
Directory(fs) ==
    /\ DOMAIN fs \in SUBSET Nat /\ IsFiniteSet(DOMAIN fs)
    /\ fs = [n \in DOMAIN fs |-> fs[n]]
    /\ \A n \in DOMAIN fs : fs[n] \in Seq(Cell)

NonEmpty(fs) == {n \in DOMAIN fs : fs[n] # <<>>}

EarlierThan(fs, n) == {m \in NonEmpty(fs) : m < n}

(* What recovery knows when it comes to segment n, and at the end.           *)
Before(fs, n) == Scan!Result(fs, Start, InOrder(EarlierThan(fs, n)))

All(fs) == Scan!Result(fs, Start, InOrder(NonEmpty(fs)))

LEMMA Ordered ==
    ASSUME NEW fs, Directory(fs), NEW S \in SUBSET DOMAIN fs
    PROVE  /\ S \in SUBSET Nat /\ IsFiniteSet(S) /\ InOrder(S) \in Seq(Nat)
           /\ \A i \in 1 .. Len(InOrder(S)) : InOrder(S)[i] \in S
<1>1. S \in SUBSET Nat /\ IsFiniteSet(S)
  BY FS_Subset DEF Directory
<1>2. InOrder(S) \in Seq(S) /\ \A i \in 1 .. Len(InOrder(S)) : InOrder(S)[i] \in S
  BY <1>1, InOrderEnumerates
<1>3. S \subseteq Nat
  BY <1>1
<1>4. InOrder(S) \in Seq(Nat)
  BY <1>2, <1>3, SeqMonotonic
<1> QED  BY <1>1, <1>2, <1>4

(* Recovery looks at the files it is given and at no other.                  *)
LEMMA ScanFrame ==
    ASSUME NEW fs, NEW gs, NEW s \in Seq(Nat), \A i \in 1 .. Len(s) : fs[s[i]] = gs[s[i]]
    PROVE  Scan!Result(fs, Start, s) = Scan!Result(gs, Start, s)
<1>1. PICK f : Scan!IsRun(f, fs, Start, s) /\ Scan!Result(fs, Start, s) = f[Len(s)]
  BY Scan!FoldRuns
<1>2. PICK g : Scan!IsRun(g, gs, Start, s) /\ Scan!Result(gs, Start, s) = g[Len(s)]
  BY Scan!FoldRuns
<1>3. \A n, acc : fs[n] = gs[n] => ScanStep(fs, acc, n) = ScanStep(gs, acc, n)
  BY DEF ScanStep, RecoverSegment
<1>4. Scan!IsRun(f, gs, Start, s)
  BY <1>1, <1>3 DEF Scan!IsRun
<1>5. f[Len(s)] = g[Len(s)]
  <2>1. Len(s) \in 0 .. Len(s)
    OBVIOUS
  <2> QED  BY <1>2, <1>4, <2>1, Scan!RunUnique
<1> QED  BY <1>1, <1>2, <1>5

LEMMA BeforeFrame ==
    ASSUME NEW fs, NEW gs, Directory(fs), NEW n,
           EarlierThan(fs, n) = EarlierThan(gs, n),
           \A m \in EarlierThan(fs, n) : fs[m] = gs[m]
    PROVE  Before(fs, n) = Before(gs, n)
<1>1. EarlierThan(fs, n) \in SUBSET DOMAIN fs
  BY DEF EarlierThan, NonEmpty
<1> DEFINE s == InOrder(EarlierThan(fs, n))
<1>2. s \in Seq(Nat) /\ \A i \in 1 .. Len(s) : s[i] \in EarlierThan(fs, n)
  BY <1>1, Ordered
<1> HIDE DEF s
<1>3. Scan!Result(fs, Start, s) = Scan!Result(gs, Start, s)
  BY <1>2, ScanFrame
<1> QED  BY <1>3 DEF Before, s

(* A segment behind which there is nothing.                                  *)
LEMMA AllAt ==
    ASSUME NEW fs, Directory(fs), NEW n \in DOMAIN fs,
           \A m \in DOMAIN fs : m > n => fs[m] = <<>>
    PROVE  All(fs) = IF fs[n] = <<>> THEN Before(fs, n)
                     ELSE RecoverSegment(fs, Before(fs, n), n, 0)
<1>1. n \in Nat /\ \A m \in DOMAIN fs : m \in Nat
  BY DEF Directory
<1>2. CASE fs[n] = <<>>
  <2>1. \A m \in NonEmpty(fs) : m < n
    BY <1>1, <1>2 DEF NonEmpty
  <2>2. NonEmpty(fs) = EarlierThan(fs, n)
    BY <2>1 DEF EarlierThan
  <2> QED  BY <1>2, <2>2 DEF All, Before
<1>3. CASE fs[n] # <<>>
  <2> DEFINE S == EarlierThan(fs, n)
  <2>1. \A m \in NonEmpty(fs) : m < n \/ m = n
    BY <1>1 DEF NonEmpty
  <2>2. NonEmpty(fs) = S \cup {n}
    BY <1>3, <2>1 DEF EarlierThan, NonEmpty
  <2>3. S \in SUBSET DOMAIN fs /\ \A m \in S : m < n
    BY DEF EarlierThan, NonEmpty
  <2> HIDE DEF S
  <2>4. S \in SUBSET Nat /\ IsFiniteSet(S) /\ InOrder(S) \in Seq(Nat)
    BY <2>3, Ordered
  <2>5. InOrder(NonEmpty(fs)) = Append(InOrder(S), n)
    BY <1>1, <2>2, <2>3, <2>4, InOrderAppend
  <2>6. All(fs) = Scan!Result(fs, Start, Append(InOrder(S), n))
    BY <2>5 DEF All
  <2>7. All(fs) = ScanStep(fs, Scan!Result(fs, Start, InOrder(S)), n)
    BY <1>1, <2>4, <2>6, Scan!FoldAppend
  <2> QED  BY <1>3, <2>7 DEF ScanStep, Before, S
<1> QED  BY <1>2, <1>3

LEMMA BeforeIsAll ==
    ASSUME NEW fs, NEW n, \A m \in NonEmpty(fs) : m < n
    PROVE  Before(fs, n) = All(fs)
<1>1. NonEmpty(fs) = EarlierThan(fs, n)
  BY DEF EarlierThan
<1> QED  BY <1>1 DEF Before, All

LEMMA AllEmpty ==
    ASSUME NEW fs, NonEmpty(fs) = {}
    PROVE  All(fs) = Start
BY InOrderEmpty, Scan!FoldEmpty DEF All

(* Recovery from the start scans the files that are not empty.               *)
LEMMA FilesFromStart ==
    ASSUME NEW fs, Directory(fs)
    PROVE  SegmentFiles(fs, 0) = InOrder(NonEmpty(fs))
<1>1. ASSUME NEW n \in DOMAIN fs PROVE final_entry_after(n, Len(fs[n]), 0) <=> fs[n] # <<>>
  <2>1. n \in Nat /\ fs[n] \in Seq(Cell)
    BY DEF Directory
  <2>2. Len(fs[n]) \in Nat /\ (fs[n] = <<>> <=> Len(fs[n]) = 0)
    BY <2>1
  <2>3. \A x \in Nat : 0 < x * (n + 1) <=> x # 0
    <3>1. ASSUME NEW x \in Nat PROVE 0 < x * (n + 1) <=> x # 0
      <4>1. x * (n + 1) = x * n + x /\ x * n \in Nat
        BY <2>1
      <4>2. x = 0 => x * n = 0
        <5>1. 0 * n = 0
          BY <2>1
        <5> QED  BY <5>1
      <4> QED  BY <4>1, <4>2
    <3> QED  BY <3>1
  <2> QED  BY <2>2, <2>3 DEF final_entry_after
<1>2. {n \in DOMAIN fs : final_entry_after(n, Len(fs[n]), 0)} = NonEmpty(fs)
  BY <1>1 DEF NonEmpty
<1> QED  BY <1>2 DEF SegmentFiles

LEMMA RecoverFromStart ==
    ASSUME Directory(files)
    PROVE  LET acc == All(files) IN
           Recover(0) = [acc EXCEPT !.stop = IF @ = "no" /\ acc.carry.cells # <<>>
                                             THEN "corrupted" ELSE @]
<1> DEFINE s == InOrder(NonEmpty(files))
<1>1. s \in Seq(Nat)
  <2>1. NonEmpty(files) \in SUBSET DOMAIN files
    BY DEF NonEmpty
  <2> QED  BY <2>1, Ordered
<1>2. SegmentFiles(files, 0) = s
  BY FilesFromStart
<1>3. 0 % SegSize = 0
  BY WalAssumption
<1>4. RecoverSegments(files, s, 0) = All(files)
  <2> HIDE DEF s
  <2>1. RecoverSegments(files, s, 0) = Scan!Result(files, Start, s)
    BY <1>1, RecoverScans
  <2> QED  BY <2>1 DEF All, s
<1> HIDE DEF s
<1> QED  BY <1>2, <1>3, <1>4 DEF Recover

LEMMA EmptyCat ==
    ASSUME NEW S, NEW s \in Seq(S)
    PROVE  <<>> \o s = s /\ s \o <<>> = s /\ SubSeq(s, 1, Len(s)) = s /\ SubSeq(s, 0 + 1, Len(s)) = s
OBVIOUS

(* What recovery knows after segment n of a sound log, when ids were read    *)
(* before it and p is read from b, k cells of which were carried over.       *)
Scanned(ids, n, k, b, p) ==
    [ids |-> ids \o p.ids, stop |-> "no",
     carry |-> [segment |-> n, at |-> p.at - k,
                cells |-> IF p.end = "partial"
                          THEN SubSeq(b, p.at + 1, p.at + HeaderSize) ELSE <<>>]]

(* Its cells and those carried over have been read without finding damage.   *)
Unbroken(c, p) ==
    /\ c \in Seq(Cell) /\ p.end # "corrupted"
    /\ c # <<>> => Len(c) = HeaderSize /\ p.at > HeaderSize

(* One segment of a sound log: what was carried over and the segment's cells *)
(* are read together.                                                        *)
LEMMA SegmentScanned ==
    ASSUME NEW fs, NEW n, fs[n] \in Seq(Cell), NEW acc, acc.stop = "no",
           Unbroken(acc.carry.cells, Parse(acc.carry.cells \o fs[n]))
    PROVE  RecoverSegment(fs, acc, n, 0) =
              Scanned(acc.ids, n, Len(acc.carry.cells), acc.carry.cells \o fs[n],
                      Parse(acc.carry.cells \o fs[n]))
<1> DEFINE c == acc.carry.cells
           b == c \o fs[n]
           p == Parse(b)
<1>5. /\ c \in Seq(Cell) /\ c = acc.carry.cells /\ b = c \o fs[n] /\ p = Parse(b)
      /\ p.end # "corrupted" /\ (c # <<>> => Len(c) = HeaderSize /\ p.at > HeaderSize)
  BY DEF Unbroken
<1> HIDE DEF c, b, p
<1>1. b \in Seq(Cell)
  BY <1>5
<1>2. p.at \in Nat /\ HeaderSize \in Nat
  BY <1>1, <1>5, ParseEnds, WalAssumption DEF ReadsFrom, Reading
<1>3. CASE c = <<>>
  <2>1. b = fs[n] /\ SubSeq(fs[n], 0 + 1, Len(fs[n])) = b /\ Len(c) = 0
    BY <1>3, <1>5, EmptyCat
  <2>2. p.at + 0 = p.at /\ p.at - Len(c) = p.at
    BY <1>2, <2>1
  <2>3. RecoverSegment(fs, acc, n, 0) =
           [ids |-> acc.ids \o p.ids, stop |-> "no",
            carry |-> IF p.end = "partial"
                      THEN [[segment |-> n, at |-> p.at + 0, cells |-> <<>>]
                               EXCEPT !.cells = SubSeq(b, p.at + 1, p.at + HeaderSize)]
                      ELSE [segment |-> n, at |-> p.at + 0, cells |-> <<>>]]
    <3> DEFINE s == SubSeq(fs[n], 0 + 1, Len(fs[n]))
    <3>1. acc.stop = "no" /\ acc.carry.cells = <<>>
      BY <1>3, <1>5
    <3>2. RecoverSegment(fs, acc, n, 0) =
             [ids |-> acc.ids \o Parse(s).ids,
              stop |-> IF Parse(s).end = "corrupted" THEN "corrupted" ELSE "no",
              carry |-> IF Parse(s).end = "partial"
                        THEN [[segment |-> n, at |-> Parse(s).at + 0, cells |-> <<>>]
                                 EXCEPT !.cells = SubSeq(s, Parse(s).at + 1,
                                                         Parse(s).at + HeaderSize)]
                        ELSE [segment |-> n, at |-> Parse(s).at + 0, cells |-> <<>>]]
      BY <3>1 DEF RecoverSegment
    <3>3. s = b
      BY <2>1
    <3> HIDE DEF s
    <3> QED  BY <1>5, <3>2, <3>3
  <2>4. RecoverSegment(fs, acc, n, 0) = Scanned(acc.ids, n, Len(c), b, p)
    <3>1. CASE p.end = "partial"
      <4> DEFINE y == SubSeq(b, p.at + 1, p.at + HeaderSize)
      <4> HIDE DEF y
      <4>1. PICK q : /\ q = [[segment |-> n, at |-> p.at + 0, cells |-> <<>>] EXCEPT !.cells = y]
                     /\ RecoverSegment(fs, acc, n, 0) =
                           [ids |-> acc.ids \o p.ids, stop |-> "no", carry |-> q]
        BY <2>3, <3>1 DEF y
      <4>2. q = [segment |-> n, at |-> p.at, cells |-> y]
        BY <2>2, <4>1
      <4> QED  BY <2>2, <3>1, <4>1, <4>2 DEF Scanned, y
    <3>2. CASE p.end # "partial"
      BY <2>2, <2>3, <3>2 DEF Scanned
    <3> QED  BY <3>1, <3>2
  <2> QED  BY <2>4 DEF c, b, p
<1>4. CASE c # <<>>
  <2>1. Len(c) = HeaderSize /\ p.at > HeaderSize /\ ~(p.at < HeaderSize)
    BY <1>2, <1>4, <1>5
  <2>2. RecoverSegment(fs, acc, n, 0) =
           [ids |-> acc.ids \o p.ids, stop |-> "no",
            carry |-> IF p.end = "partial"
                      THEN [[segment |-> n, cells |-> <<>>, at |-> p.at - HeaderSize]
                               EXCEPT !.at = p.at - HeaderSize,
                                      !.cells = SubSeq(b, p.at + 1, p.at + HeaderSize)]
                      ELSE [segment |-> n, cells |-> <<>>, at |-> p.at - HeaderSize]]
    BY <1>4, <1>5, <2>1 DEF RecoverSegment
  <2>3. RecoverSegment(fs, acc, n, 0) = Scanned(acc.ids, n, Len(c), b, p)
    <3>1. CASE p.end = "partial"
      <4> DEFINE y == SubSeq(b, p.at + 1, p.at + HeaderSize)
      <4> HIDE DEF y
      <4>1. PICK q : /\ q = [[segment |-> n, cells |-> <<>>, at |-> p.at - HeaderSize]
                                EXCEPT !.at = p.at - HeaderSize, !.cells = y]
                     /\ RecoverSegment(fs, acc, n, 0) =
                           [ids |-> acc.ids \o p.ids, stop |-> "no", carry |-> q]
        BY <2>2, <3>1 DEF y
      <4>2. q = [segment |-> n, at |-> p.at - HeaderSize, cells |-> y]
        BY <4>1
      <4> QED  BY <2>1, <3>1, <4>1, <4>2 DEF Scanned, y
    <3>2. CASE p.end # "partial"
      BY <2>1, <2>2, <3>2 DEF Scanned
    <3> QED  BY <3>1, <3>2
  <2> QED  BY <2>3 DEF c, b, p
<1> QED  BY <1>3, <1>4

-----------------------------------------------------------------------------
(* Sound logs                                                                *)

(* The sequence number of the place where recovery has stopped reading.      *)
Place(acc) == acc.carry.segment * SegSize + acc.carry.at

(* Recovery goes on; it has read up to a place before bound, and records     *)
(* that start before that place.  It carries nothing or a header.            *)
GoodAcc(rs, acc, bound) ==
    /\ acc.ids \in Seq(1 .. Len(rs)) /\ acc.stop = "no"
    /\ acc.carry.cells \in Seq(Cell)
    /\ acc.carry.cells # <<>> => Len(acc.carry.cells) = HeaderSize
    /\ Place(acc) \in Nat /\ Place(acc) <= bound
    /\ \A i \in 1 .. Len(acc.ids) : rs[acc.ids[i]].lsn < Place(acc)

(* The cells recovery reads at segment n.                                    *)
Buffer(fs, n) == Before(fs, n).carry.cells \o fs[n]

(* Segment n is sound: the record that was begun before it ends in it, and   *)
(* what follows the last record is less than a header and fills the segment. *)
GoodEnd(fs, n, p) ==
    /\ p.end # "corrupted"
    /\ Before(fs, n).carry.cells # <<>> => p.at > HeaderSize
    /\ p.end = "clean" => p.at = Len(Buffer(fs, n)) \/ Len(fs[n]) = SegSize

SegmentOK(fs, rs, n) ==
    /\ GoodAcc(rs, Before(fs, n), n * SegSize)
    /\ GoodEnd(fs, n, Parse(Buffer(fs, n)))

SoundFiles(fs, rs) ==
    /\ Directory(fs)
    /\ \A n \in DOMAIN fs : Len(fs[n]) <= SegSize
    /\ \A n \in NonEmpty(fs) : SegmentOK(fs, rs, n)

(* The log ends in segment n.                                                *)
SoundAt(fs, rs, n) ==
    /\ SoundFiles(fs, rs)
    /\ n \in DOMAIN fs /\ \A m \in DOMAIN fs : m > n => fs[m] = <<>>
    /\ GoodAcc(rs, All(fs), n * SegSize + Len(fs[n]))

(* Records that are added or settled change nothing here.                    *)
LEMMA GoodAccFrame ==
    ASSUME NEW rs, NEW qs, Len(rs) \in Nat, Len(qs) \in Nat, Len(rs) <= Len(qs),
           \A i \in 1 .. Len(rs) : qs[i].lsn = rs[i].lsn,
           NEW acc, NEW bound, GoodAcc(rs, acc, bound)
    PROVE  GoodAcc(qs, acc, bound)
<1>1. acc.ids \in Seq(1 .. Len(rs)) /\ Len(acc.ids) \in Nat
  BY DEF GoodAcc
<1>2. \A i \in 1 .. Len(acc.ids) : acc.ids[i] \in 1 .. Len(rs)
  BY <1>1
<1>3. acc.ids \in Seq(1 .. Len(qs))
  <2>1. 1 .. Len(rs) \subseteq 1 .. Len(qs)
    OBVIOUS
  <2> QED  BY <1>1, <2>1, SeqMonotonic
<1>4. \A i \in 1 .. Len(acc.ids) : qs[acc.ids[i]].lsn < Place(acc)
  BY <1>2 DEF GoodAcc
<1> QED  BY <1>3, <1>4 DEF GoodAcc

LEMMA SoundFrame ==
    ASSUME NEW rs, NEW qs, Len(rs) \in Nat, Len(qs) \in Nat, Len(rs) <= Len(qs),
           \A i \in 1 .. Len(rs) : qs[i].lsn = rs[i].lsn,
           NEW fs, NEW n, SoundAt(fs, rs, n)
    PROVE  SoundAt(fs, qs, n)
<1>1. \A acc, bound : GoodAcc(rs, acc, bound) => GoodAcc(qs, acc, bound)
  BY GoodAccFrame
<1> QED  BY <1>1 DEF SoundAt, SoundFiles, SegmentOK

(* Nothing is read from a header alone.                                      *)
LEMMA HeaderAlone ==
    ASSUME NEW c \in Seq(Cell), c # <<>> => Len(c) = HeaderSize
    PROVE  Parse(c).ids = <<>> /\ Parse(c).at = 0
<1>1. ReadsFrom(c, 0, Parse(c))
  BY ParseEnds
<1>2. HeaderSize \in Nat /\ (c = <<>> => Len(c) = 0)
  BY WalAssumption
<1>3. Len(c) <= HeaderSize
  BY <1>2
<1> QED  BY <1>1, <1>2, <1>3 DEF ReadsFrom, Reading

(* What recovery knows at the end, from the last segment.                    *)
LastKnown(fs, rs, n, B, b, p) ==
    /\ GoodAcc(rs, B, n * SegSize) /\ b \in Seq(Cell) /\ p \in Reading /\ n \in Nat
    /\ b = B.carry.cells \o fs[n] /\ Len(b) = Len(B.carry.cells) + Len(fs[n])
    /\ All(fs).ids = B.ids \o p.ids
    /\ fs[n] = <<>> => All(fs) = B /\ p.at = 0 /\ p.ids = <<>>
    /\ fs[n] # <<>> => All(fs) = Scanned(B.ids, n, Len(B.carry.cells), b, p)

LEMMA AllOfLast ==
    ASSUME NEW fs, NEW rs, NEW n, SoundAt(fs, rs, n)
    PROVE  LastKnown(fs, rs, n, Before(fs, n), Buffer(fs, n), Parse(Buffer(fs, n)))
<1> DEFINE B == Before(fs, n)
           b == Buffer(fs, n)
           p == Parse(b)
           c == B.carry.cells
<1>0. B = Before(fs, n) /\ b = Buffer(fs, n) /\ p = Parse(b) /\ c = B.carry.cells
  OBVIOUS
<1> HIDE DEF B, b, p
<1> SUFFICES LastKnown(fs, rs, n, B, b, p)
  BY DEF B, b, p
<1> USE <1>0
<1>1. /\ Directory(fs) /\ n \in DOMAIN fs /\ \A m \in DOMAIN fs : m > n => fs[m] = <<>>
      /\ fs[n] \in Seq(Cell) /\ Len(fs[n]) \in Nat /\ n \in Nat
  BY DEF SoundAt, SoundFiles, Directory
<1>2. All(fs) = IF fs[n] = <<>> THEN B ELSE RecoverSegment(fs, B, n, 0)
  BY <1>1, AllAt
<1>3. GoodAcc(rs, B, n * SegSize)
  <2>1. CASE fs[n] = <<>>
    <3>1. Len(fs[n]) = 0 /\ n * SegSize \in Nat
      BY <1>1, <2>1, WalAssumption
    <3>2. n * SegSize + Len(fs[n]) = n * SegSize
      BY <3>1
    <3> QED  BY <1>2, <2>1, <3>2 DEF SoundAt
  <2>2. CASE fs[n] # <<>>
    <3>1. n \in NonEmpty(fs)
      BY <1>1, <2>2 DEF NonEmpty
    <3> QED  BY <3>1 DEF SoundAt, SoundFiles, SegmentOK
  <2> QED  BY <2>1, <2>2
<1>4. c \in Seq(Cell) /\ B.stop = "no" /\ (c # <<>> => Len(c) = HeaderSize) /\ b = c \o fs[n]
  BY <1>3 DEF GoodAcc, Buffer
<1>5. b \in Seq(Cell) /\ Len(b) = Len(c) + Len(fs[n])
  BY <1>1, <1>4
<1>6. p \in Reading
  BY <1>5, ParseEnds DEF ReadsFrom
<1>7. B.ids \in Seq(1 .. Len(rs)) /\ p.ids \in Seq(1 .. MaxRecords)
  BY <1>3, <1>6 DEF GoodAcc, Reading
<1>8. CASE fs[n] = <<>>
  <2>1. b = c
    BY <1>4, <1>8, EmptyCat
  <2>2. p.at = 0 /\ p.ids = <<>>
    BY <1>4, <2>1, HeaderAlone
  <2>3. B.ids \o <<>> = B.ids
    BY <1>7, EmptyCat
  <2> QED  BY <1>1, <1>2, <1>3, <1>4, <1>5, <1>6, <1>8, <2>2, <2>3 DEF LastKnown
<1>9. CASE fs[n] # <<>>
  <2>1. n \in NonEmpty(fs)
    BY <1>1, <1>9 DEF NonEmpty
  <2>2. GoodEnd(fs, n, p)
    BY <2>1 DEF SoundAt, SoundFiles, SegmentOK
  <2>3. p.end # "corrupted" /\ (c # <<>> => p.at > HeaderSize)
    BY <2>2 DEF GoodEnd
  <2>5. c = B.carry.cells
    OBVIOUS
  <2> HIDE DEF c
  <2>8. Unbroken(B.carry.cells, Parse(B.carry.cells \o fs[n]))
    BY <1>4, <2>3, <2>5 DEF Unbroken
  <2>4. RecoverSegment(fs, B, n, 0) = Scanned(B.ids, n, Len(c), b, p)
    <3>1. RecoverSegment(fs, B, n, 0) =
             Scanned(B.ids, n, Len(B.carry.cells), B.carry.cells \o fs[n],
                     Parse(B.carry.cells \o fs[n]))
      BY <1>1, <1>4, <2>8, SegmentScanned
    <3> QED  BY <1>4, <2>5, <3>1
  <2>6. All(fs) = RecoverSegment(fs, B, n, 0)
    BY <1>2, <1>9
  <2>7. All(fs).ids = B.ids \o p.ids
    <3>1. Scanned(B.ids, n, Len(c), b, p).ids = B.ids \o p.ids
      BY DEF Scanned
    <3> QED  BY <2>4, <2>6, <3>1
  <2> QED  BY <1>1, <1>3, <1>4, <1>5, <1>6, <1>9, <2>4, <2>5, <2>6, <2>7 DEF LastKnown
<1> QED  BY <1>8, <1>9

(* The cells w, written behind the log that ends in segment n, complete the  *)
(* records new and leave the segment sound.                                  *)
Extends(fs, rs, n, w, new) ==
    LET B == Before(fs, n)
        b == Buffer(fs, n)
        q == Parse(b \o w)
    IN  /\ w \in Seq(Cell) /\ w # <<>> /\ Len(fs[n]) + Len(w) <= SegSize
        /\ q.end # "corrupted"
        /\ B.carry.cells # <<>> => q.at > HeaderSize
        /\ q.end = "clean" => q.at = Len(b \o w) \/ Len(fs[n]) + Len(w) = SegSize
        /\ q.ids = Parse(b).ids \o new /\ q.at >= Parse(b).at
        /\ new \in Seq(1 .. Len(rs))
        /\ \A i \in 1 .. Len(new) : rs[new[i]].lsn < n * SegSize + (q.at - Len(B.carry.cells))

LEMMA CarryTyped ==
    ASSUME NEW b \in Seq(Cell), NEW p, p = Parse(b), p.end = "partial"
    PROVE  /\ SubSeq(b, p.at + 1, p.at + HeaderSize) \in Seq(Cell)
           /\ Len(SubSeq(b, p.at + 1, p.at + HeaderSize)) = HeaderSize
<1>1. p.at \in Nat /\ p.at + HeaderSize <= Len(b) /\ HeaderSize \in Nat /\ Len(b) \in Nat
  BY ParseEnds, WalAssumption DEF ReadsFrom, Reading
<1>2. \A i \in p.at + 1 .. p.at + HeaderSize : b[i] \in Cell
  BY <1>1
<1>3. p.at + 1 \in Int /\ p.at + HeaderSize \in Int
  BY <1>1
<1>4. HeaderSize > 0
  BY WalAssumption
<1> HIDE DEF Cell
<1> QED  BY <1>1, <1>2, <1>3, <1>4, SubSeqProperties

(* A record of the scan that is read from sound cells is good.               *)
LEMMA ScannedGood ==
    ASSUME NEW rs, NEW ids \in Seq(1 .. Len(rs)), NEW n \in Nat, NEW k \in Nat,
           NEW b \in Seq(Cell), NEW p, p = Parse(b), p.ids \in Seq(1 .. Len(rs)), p.at >= k,
           \A i \in 1 .. Len(ids \o p.ids) : rs[(ids \o p.ids)[i]].lsn < n * SegSize + (p.at - k)
    PROVE  GoodAcc(rs, Scanned(ids, n, k, b, p), n * SegSize + (Len(b) - k))
<1> DEFINE acc == Scanned(ids, n, k, b, p)
<1>1. p.at \in Nat /\ p.at <= Len(b) /\ Len(b) \in Nat
  BY ParseEnds DEF ReadsFrom, Reading
<1>2. /\ acc.ids = ids \o p.ids /\ acc.stop = "no" /\ acc.carry.segment = n
      /\ acc.carry.at = p.at - k
      /\ acc.carry.cells = IF p.end = "partial" THEN SubSeq(b, p.at + 1, p.at + HeaderSize)
                           ELSE <<>>
  BY DEF Scanned
<1>3. acc.carry.cells \in Seq(Cell) /\ (acc.carry.cells # <<>> => Len(acc.carry.cells) = HeaderSize)
  <2>1. CASE p.end = "partial"
    BY <1>2, <2>1, CarryTyped
  <2>2. CASE p.end # "partial"
    <3>1. acc.carry.cells = <<>>
      BY <1>2, <2>2
    <3>2. <<>> \in Seq(Cell)
      OBVIOUS
    <3> QED  BY <3>1, <3>2
  <2> QED  BY <2>1, <2>2
<1>4. ids \o p.ids \in Seq(1 .. Len(rs))
  BY ConcatProperties
<1> HIDE DEF acc
<1>5. n * SegSize \in Nat
  BY WalAssumption
<1>6. Place(acc) = n * SegSize + (p.at - k) /\ Place(acc) \in Nat
      /\ Place(acc) <= n * SegSize + (Len(b) - k)
  BY <1>1, <1>2, <1>5, SMTT(20) DEF Place
<1>7. GoodAcc(rs, acc, n * SegSize + (Len(b) - k))
  BY <1>2, <1>3, <1>4, <1>6 DEF GoodAcc
<1> QED  BY <1>7 DEF acc

(* What lies before segment n decides what recovery knows there.             *)
LEMMA SameBefore ==
    ASSUME NEW fs, NEW gs, NEW rs, Directory(fs), Directory(gs), NEW n \in Nat,
           EarlierThan(fs, n) = EarlierThan(gs, n),
           \A m \in EarlierThan(fs, n) : fs[m] = gs[m]
    PROVE  /\ Before(gs, n) = Before(fs, n)
           /\ \A m \in EarlierThan(fs, n) : SegmentOK(fs, rs, m) => SegmentOK(gs, rs, m)
<1>1. Before(gs, n) = Before(fs, n)
  BY BeforeFrame
<1>2. ASSUME NEW m \in EarlierThan(fs, n), SegmentOK(fs, rs, m) PROVE SegmentOK(gs, rs, m)
  <2>1. m \in Nat /\ m < n
    BY DEF EarlierThan, NonEmpty, Directory
  <2>2. \A k \in NonEmpty(fs) \cup NonEmpty(gs) : k < m => k < n
    <3>1. \A k \in NonEmpty(fs) \cup NonEmpty(gs) : k \in Nat
      BY DEF NonEmpty, Directory
    <3> QED  BY <2>1, <3>1
  <2>3. EarlierThan(fs, m) = {k \in EarlierThan(fs, n) : k < m}
    BY <2>2, Zenon DEF EarlierThan
  <2>4. EarlierThan(gs, m) = {k \in EarlierThan(gs, n) : k < m}
    BY <2>2, Zenon DEF EarlierThan
  <2>5. EarlierThan(fs, m) = EarlierThan(gs, m) /\ \A k \in EarlierThan(fs, m) : fs[k] = gs[k]
    BY <2>3, <2>4
  <2>6. Before(fs, m) = Before(gs, m)
    BY <2>5, BeforeFrame
  <2>7. fs[m] = gs[m] /\ Buffer(fs, m) = Buffer(gs, m)
    BY <2>6 DEF Buffer
  <2> QED  BY <1>2, <2>6, <2>7 DEF SegmentOK, GoodEnd
<1> QED  BY <1>1, <1>2

LEMMA ConcatParts ==
    ASSUME NEW S, NEW T, NEW U, NEW s \in Seq(T), NEW t \in Seq(U), s \o t \in Seq(S)
    PROVE  s \in Seq(S) /\ t \in Seq(S)
<1>1. Len(s) \in Nat /\ Len(t) \in Nat /\ Len(s \o t) = Len(s) + Len(t)
  OBVIOUS
<1>2. \A i \in 1 .. Len(s) : s[i] = (s \o t)[i] /\ s[i] \in S
  BY <1>1
<1>3. \A i \in 1 .. Len(t) : t[i] = (s \o t)[Len(s) + i] /\ t[i] \in S
  <2>1. \A i \in 1 .. Len(t) : Len(s) + i \in 1 .. Len(s \o t)
    BY <1>1
  <2>2. \A i \in 1 .. Len(t) : t[i] = (s \o t)[Len(s) + i]
    OBVIOUS
  <2>3. \A j \in 1 .. Len(s \o t) : (s \o t)[j] \in S
    OBVIOUS
  <2> QED  BY <2>1, <2>2, <2>3
<1>4. s = [i \in 1 .. Len(s) |-> s[i]] /\ t = [i \in 1 .. Len(t) |-> t[i]]
  OBVIOUS
<1> QED  BY <1>1, <1>2, <1>3, <1>4

(* The directory gs is fs but for the cells v of segment n.                  *)
Replaced(fs, gs, n, v) ==
    /\ Directory(gs) /\ DOMAIN gs = DOMAIN fs /\ gs[n] = v
    /\ \A m \in DOMAIN fs : m # n => gs[m] = fs[m]
    /\ EarlierThan(fs, n) = EarlierThan(gs, n)
    /\ \A m \in EarlierThan(fs, n) : fs[m] = gs[m]

With(fs, n, v) == [fs EXCEPT ![n] = v]

LEMMA WithReplaces ==
    ASSUME NEW fs, Directory(fs), NEW n \in DOMAIN fs, NEW v \in Seq(Cell)
    PROVE  Replaced(fs, With(fs, n, v), n, v)
<1> DEFINE gs == With(fs, n, v)
<1>1. n \in Nat
  BY DEF Directory
<1>2. /\ DOMAIN gs = DOMAIN fs /\ gs[n] = v /\ \A m \in DOMAIN fs : m # n => gs[m] = fs[m]
      /\ gs = [m \in DOMAIN gs |-> gs[m]]
  BY DEF With, Directory
<1> HIDE DEF gs
<1>3. \A m \in DOMAIN gs : gs[m] \in Seq(Cell)
  BY <1>1, <1>2 DEF Directory
<1>4. Directory(gs)
  BY <1>2, <1>3 DEF Directory
<1>5. EarlierThan(fs, n) = EarlierThan(gs, n) /\ \A m \in EarlierThan(fs, n) : fs[m] = gs[m]
  <2>1. \A m \in DOMAIN fs : m < n => gs[m] = fs[m]
    <3>1. \A m \in DOMAIN fs : m \in Nat
      BY DEF Directory
    <3> QED  BY <1>1, <1>2, <3>1
  <2> QED  BY <1>2, <2>1 DEF EarlierThan, NonEmpty
<1>6. Replaced(fs, gs, n, v)
  BY <1>2, <1>4, <1>5 DEF Replaced
<1> QED  BY <1>6 DEF gs

(* The cells w written to segment n.                                         *)
Written(fs, n, w) == With(fs, n, fs[n] \o w)

Extended(fs, gs, rs, n, b, w, new) ==
    /\ SoundAt(gs, rs, n) /\ Before(gs, n) = Before(fs, n) /\ Buffer(gs, n) = b
    /\ gs[n] = fs[n] \o w /\ DOMAIN gs = DOMAIN fs
    /\ All(gs) = Scanned(Before(fs, n).ids, n, Len(Before(fs, n).carry.cells), b, Parse(b))
    /\ All(gs).ids = All(fs).ids \o new

(* A write that extends the log leaves it sound, with the records new more.  *)
LEMMA WriteSound ==
    ASSUME NEW fs, NEW rs \in Seq(Record), NEW n, SoundAt(fs, rs, n), NEW w, NEW new, Extends(fs, rs, n, w, new)
    PROVE  Extended(fs, Written(fs, n, w), rs, n, Buffer(fs, n) \o w, w, new)
<1> DEFINE gs == Written(fs, n, w)
           B == Before(fs, n)
           k == Len(B.carry.cells)
           a == Buffer(fs, n)
           b == a \o w
           p == Parse(a)
           q == Parse(b)
<1>1. /\ Directory(fs) /\ n \in DOMAIN fs /\ n \in Nat /\ fs[n] \in Seq(Cell) /\ Len(fs[n]) \in Nat
      /\ \A m \in DOMAIN fs : m \in Nat /\ Len(fs[m]) <= SegSize /\ (m > n => fs[m] = <<>>)
      /\ \A m \in NonEmpty(fs) : SegmentOK(fs, rs, m)
      /\ GoodAcc(rs, All(fs), n * SegSize + Len(fs[n]))
  BY DEF SoundAt, SoundFiles, Directory
<1>2. /\ GoodAcc(rs, B, n * SegSize) /\ a \in Seq(Cell) /\ p \in Reading
      /\ a = B.carry.cells \o fs[n] /\ Len(a) = k + Len(fs[n])
      /\ All(fs).ids = B.ids \o p.ids
      /\ fs[n] = <<>> => All(fs) = B /\ p.at = 0 /\ p.ids = <<>>
      /\ fs[n] # <<>> => All(fs) = Scanned(B.ids, n, k, a, p)
  BY AllOfLast DEF LastKnown
<1>3. /\ w \in Seq(Cell) /\ w # <<>> /\ Len(fs[n]) + Len(w) <= SegSize
      /\ q.end # "corrupted"
      /\ B.carry.cells # <<>> => q.at > HeaderSize
      /\ q.end = "clean" => q.at = Len(b) \/ Len(fs[n]) + Len(w) = SegSize
      /\ q.ids = p.ids \o new /\ q.at >= p.at
      /\ new \in Seq(1 .. Len(rs))
      /\ \A i \in 1 .. Len(new) : rs[new[i]].lsn < n * SegSize + (q.at - k)
  BY DEF Extends
<1>4. /\ B.carry.cells \in Seq(Cell) /\ B.stop = "no" /\ B.ids \in Seq(1 .. Len(rs))
      /\ (B.carry.cells # <<>> => k = HeaderSize) /\ (B.carry.cells = <<>> => k = 0) /\ k \in Nat
  BY <1>2 DEF GoodAcc
<1>5. b \in Seq(Cell) /\ Len(b) = Len(a) + Len(w) /\ Len(w) \in Nat
  BY <1>2, <1>3
<1>6. q \in Reading /\ q.at \in Nat /\ q.at <= Len(b) /\ q.at >= k /\ p.at \in Nat
  <2>1. ReadsFrom(b, 0, q)
    BY <1>5, ParseEnds
  <2>2. q \in Reading /\ q.at \in Nat /\ q.at <= Len(b) /\ p.at \in Nat
    BY <1>2, <2>1 DEF ReadsFrom, Reading
  <2>3. HeaderSize \in Nat
    BY WalAssumption
  <2> QED  BY <1>3, <1>4, <2>2, <2>3
<1>7. /\ Directory(gs) /\ DOMAIN gs = DOMAIN fs /\ gs[n] = fs[n] \o w
      /\ \A m \in DOMAIN fs : m # n => gs[m] = fs[m]
      /\ EarlierThan(fs, n) = EarlierThan(gs, n) /\ \A m \in EarlierThan(fs, n) : fs[m] = gs[m]
  <2>1. fs[n] \o w \in Seq(Cell)
    BY <1>1, <1>3
  <2>2. Replaced(fs, gs, n, fs[n] \o w)
    BY <1>1, <2>1, WithReplaces DEF Written
  <2> HIDE DEF gs
  <2> QED  BY <2>2 DEF Replaced
<1> HIDE DEF gs
<1>8. gs[n] # <<>> /\ gs[n] \in Seq(Cell) /\ Len(gs[n]) = Len(fs[n]) + Len(w)
  BY <1>1, <1>3, <1>7
<1>9. /\ Before(gs, n) = B
      /\ \A m \in EarlierThan(fs, n) : SegmentOK(fs, rs, m) => SegmentOK(gs, rs, m)
  BY <1>1, <1>7, SameBefore
<1>10. Buffer(gs, n) = b
  <2>1. Buffer(gs, n) = B.carry.cells \o (fs[n] \o w)
    BY <1>7, <1>9 DEF Buffer
  <2>2. B.carry.cells \o (fs[n] \o w) = (B.carry.cells \o fs[n]) \o w
    <3>1. \A x, y, z \in Seq(Cell) : x \o (y \o z) = (x \o y) \o z
      BY ConcatAssociative
    <3> QED  BY <1>1, <1>3, <1>4, <3>1
  <2> QED  BY <1>2, <2>1, <2>2
<1>11. SegmentOK(gs, rs, n)
  <2>1. GoodEnd(gs, n, q)
    BY <1>3, <1>8, <1>9, <1>10 DEF GoodEnd
  <2> QED  BY <1>2, <1>9, <1>10, <2>1 DEF SegmentOK
<1>12. All(gs) = Scanned(B.ids, n, k, b, q)
  <2>1. All(gs) = RecoverSegment(gs, B, n, 0)
    <3>1. \A m \in DOMAIN gs : m > n => gs[m] = <<>>
      BY <1>1, <1>7
    <3>2. All(gs) = RecoverSegment(gs, Before(gs, n), n, 0)
      BY <1>1, <1>7, <1>8, <3>1, AllAt
    <3> QED  BY <1>9, <3>2
  <2>2. b = B.carry.cells \o gs[n]
    BY <1>9, <1>10 DEF Buffer
  <2>3. Unbroken(B.carry.cells, Parse(B.carry.cells \o gs[n]))
    BY <1>3, <1>4, <2>2 DEF Unbroken
  <2>4. RecoverSegment(gs, B, n, 0) =
           Scanned(B.ids, n, Len(B.carry.cells), B.carry.cells \o gs[n],
                   Parse(B.carry.cells \o gs[n]))
    BY <1>4, <1>8, <2>3, SegmentScanned
  <2> QED  BY <2>1, <2>2, <2>4
<1>13. p.ids \in Seq(1 .. Len(rs))
  <2>1. All(fs).ids \in Seq(1 .. Len(rs)) /\ p.ids \in Seq(1 .. MaxRecords)
    BY <1>1, <1>2 DEF GoodAcc, Reading
  <2> QED  BY <1>2, <1>4, <2>1, ConcatParts
<1>14. B.ids \o q.ids = All(fs).ids \o new /\ q.ids \in Seq(1 .. Len(rs))
  <2>1. B.ids \o (p.ids \o new) = (B.ids \o p.ids) \o new
    <3>1. \A x, y, z \in Seq(1 .. Len(rs)) : x \o (y \o z) = (x \o y) \o z
      BY ConcatAssociative, SMTT(20)
    <3> HIDE DEF B, p
    <3> QED  BY <1>3, <1>4, <1>13, <3>1
  <2>2. p.ids \o new \in Seq(1 .. Len(rs))
    BY <1>3, <1>13, ConcatProperties
  <2> QED  BY <1>2, <1>3, <2>1, <2>2
<1>15. n * SegSize \in Nat
  BY <1>1, WalAssumption
<1>16. Place(All(fs)) \in Nat /\ Place(All(fs)) <= n * SegSize + (q.at - k)
  <2>1. CASE fs[n] = <<>>
    <3>1. Place(B) \in Nat /\ Place(B) <= n * SegSize
      BY <1>2 DEF GoodAcc
    <3> QED  BY <1>2, <1>4, <1>6, <1>15, <2>1, <3>1, SMTT(20)
  <2>2. CASE fs[n] # <<>>
    <3>1. Place(All(fs)) = n * SegSize + (p.at - k)
      <4>1. All(fs) = Scanned(B.ids, n, k, a, p)
        BY <1>2, <2>2
      <4>2. Scanned(B.ids, n, k, a, p).carry.segment = n
        BY DEF Scanned
      <4>3. Scanned(B.ids, n, k, a, p).carry.at = p.at - k
        BY DEF Scanned
      <4> QED  BY <4>1, <4>2, <4>3 DEF Place
    <3>2. Place(All(fs)) \in Nat
      BY <1>1 DEF GoodAcc
    <3> QED  BY <1>3, <1>4, <1>6, <1>15, <3>1, <3>2, SMTT(40)
  <2> QED  BY <2>1, <2>2
<1>17. \A i \in 1 .. Len(B.ids \o q.ids) : rs[(B.ids \o q.ids)[i]].lsn < n * SegSize + (q.at - k)
  <2> DEFINE x == All(fs).ids
  <2>1. x \in Seq(1 .. Len(rs)) /\ \A i \in 1 .. Len(x) : rs[x[i]].lsn < Place(All(fs))
    BY <1>1 DEF GoodAcc
  <2> HIDE DEF x
  <2>2. Len(x) \in Nat /\ Len(new) \in Nat /\ Len(x \o new) = Len(x) + Len(new)
    BY <1>3, <2>1
  <2>3. ASSUME NEW i \in 1 .. Len(x \o new) PROVE rs[(x \o new)[i]].lsn < n * SegSize + (q.at - k)
    <3>1. CASE i <= Len(x)
      <4>1. i \in 1 .. Len(x) /\ (x \o new)[i] = x[i]
        BY <1>3, <2>1, <2>2, <3>1
      <4>2. x[i] \in 1 .. Len(rs) /\ \A j \in 1 .. Len(rs) : rs[j].lsn \in Nat
        <5>1. x[i] \in 1 .. Len(rs)
          BY <2>1, <4>1
        <5>2. \A j \in 1 .. Len(rs) : rs[j] \in Record
          OBVIOUS
        <5> QED  BY <5>1, <5>2 DEF Record
      <4>3. rs[x[i]].lsn < Place(All(fs)) /\ rs[x[i]].lsn \in Nat
        BY <2>1, <4>1, <4>2
      <4>4. \A c, d \in Nat : \A f \in Int : c < d /\ d <= f => c < f
        OBVIOUS
      <4>5. n * SegSize + (q.at - k) \in Int
        BY <1>4, <1>6, <1>15
      <4> QED  BY <1>16, <4>1, <4>3, <4>4, <4>5
    <3>2. CASE i > Len(x)
      <4>1. i - Len(x) \in 1 .. Len(new) /\ (x \o new)[i] = new[i - Len(x)]
        BY <1>3, <2>1, <2>2, <3>2
      <4> QED  BY <1>3, <4>1
    <3> QED  BY <2>2, <3>1, <3>2
  <2> QED  BY <1>14, <2>3 DEF x
<1>18. GoodAcc(rs, All(gs), n * SegSize + Len(gs[n]))
  <2>1. GoodAcc(rs, Scanned(B.ids, n, k, b, q), n * SegSize + (Len(b) - k))
    <3> HIDE DEF B, k, b
    <3> QED  BY <1>1, <1>4, <1>5, <1>6, <1>14, <1>17, ScannedGood
  <2>2. Len(b) - k = Len(gs[n])
    <3>1. \A r, s, u \in Nat : (r + s + u) - r = s + u
      OBVIOUS
    <3>2. Len(b) = k + Len(fs[n]) + Len(w)
      BY <1>2, <1>5
    <3>3. k \in Nat /\ Len(fs[n]) \in Nat /\ Len(w) \in Nat
      BY <1>1, <1>4, <1>5
    <3> HIDE DEF k, b
    <3> QED  BY <1>8, <3>1, <3>2, <3>3
  <2> QED  BY <1>12, <2>1, <2>2
<1>19. SoundAt(gs, rs, n)
  <2>1. \A m \in DOMAIN gs : Len(gs[m]) <= SegSize /\ (m > n => gs[m] = <<>>)
    <3>1. ASSUME NEW m \in DOMAIN gs PROVE Len(gs[m]) <= SegSize /\ (m > n => gs[m] = <<>>)
      <4>1. CASE m = n
        <5>1. ~(n > n)
          BY <1>1
        <5> QED  BY <1>3, <1>8, <4>1, <5>1
      <4>2. CASE m # n
        BY <1>1, <1>7, <4>2
      <4> QED  BY <4>1, <4>2
    <3> QED  BY <3>1
  <2>2. \A m \in NonEmpty(gs) : m = n \/ m \in EarlierThan(fs, n)
    BY <1>1, <1>7, <2>1 DEF EarlierThan, NonEmpty
  <2>3. \A m \in EarlierThan(fs, n) : m \in NonEmpty(fs)
    BY DEF EarlierThan
  <2>4. \A m \in NonEmpty(gs) : SegmentOK(gs, rs, m)
    BY <1>1, <1>9, <1>11, <2>2, <2>3
  <2> QED  BY <1>1, <1>7, <1>18, <2>1, <2>4 DEF SoundAt, SoundFiles
<1>20. All(gs).ids = All(fs).ids \o new
  <2>1. Scanned(B.ids, n, k, b, q).ids = B.ids \o q.ids
    BY DEF Scanned
  <2> QED  BY <1>12, <1>14, <2>1
<1> QED  BY <1>7, <1>9, <1>10, <1>12, <1>19, <1>20 DEF gs, Extended

(* What recovery knows after a segment that is sound.                        *)
LEMMA SegmentRead ==
    ASSUME NEW fs, NEW rs, Directory(fs), NEW n \in NonEmpty(fs), SegmentOK(fs, rs, n)
    PROVE  RecoverSegment(fs, Before(fs, n), n, 0) =
              Scanned(Before(fs, n).ids, n, Len(Before(fs, n).carry.cells), Buffer(fs, n),
                      Parse(Buffer(fs, n)))
<1> DEFINE B == Before(fs, n)
<1>1. /\ B.stop = "no" /\ B.carry.cells \in Seq(Cell)
      /\ B.carry.cells # <<>> => Len(B.carry.cells) = HeaderSize
  BY DEF SegmentOK, GoodAcc
<1>2. fs[n] \in Seq(Cell)
  BY DEF Directory, NonEmpty
<1>3. /\ Parse(Buffer(fs, n)).end # "corrupted"
      /\ B.carry.cells # <<>> => Parse(Buffer(fs, n)).at > HeaderSize
  BY DEF SegmentOK, GoodEnd
<1>4. Buffer(fs, n) = B.carry.cells \o fs[n]
  BY DEF Buffer
<1> HIDE DEF B
<1>5. Unbroken(B.carry.cells, Parse(B.carry.cells \o fs[n]))
  BY <1>1, <1>3, <1>4 DEF Unbroken
<1>6. RecoverSegment(fs, B, n, 0) =
         Scanned(B.ids, n, Len(B.carry.cells), B.carry.cells \o fs[n],
                 Parse(B.carry.cells \o fs[n]))
  BY <1>1, <1>2, <1>5, SegmentScanned
<1> QED  BY <1>4, <1>6 DEF B

(* Segment n is the last one with cells.                                     *)
IsLast(fs, n) == n \in NonEmpty(fs) /\ \A m \in NonEmpty(fs) : m <= n

LEMMA LastExists ==
    ASSUME NEW fs, Directory(fs), NonEmpty(fs) # {}
    PROVE  LET s == InOrder(NonEmpty(fs)) IN s # <<>> /\ s \in Seq(Nat) /\ IsLast(fs, Last(s))
<1> DEFINE S == NonEmpty(fs)
           s == InOrder(S)
           k == Cardinality(S)
<1>1. S \in SUBSET Nat /\ IsFiniteSet(S) /\ s \in Seq(Nat)
  <2>1. S \in SUBSET DOMAIN fs
    BY DEF NonEmpty
  <2> QED  BY <2>1, Ordered
<1>2. k \in Nat /\ k # 0
  BY <1>1, FS_CardinalityType, FS_EmptySet
<1> HIDE DEF S, s, k
<1>3. /\ Len(s) = k /\ \A i \in 1 .. k : s[i] \in S
      /\ \A n \in S : \E i \in 1 .. k : s[i] = n
  BY <1>1, InOrderEnumerates DEF s, k
<1>4. k \in 1 .. k /\ s[k] \in S /\ s # <<>> /\ Last(s) = s[k]
  BY <1>1, <1>2, <1>3 DEF Last
<1>5. ASSUME NEW n \in S PROVE n <= s[k]
  <2>1. PICK i \in 1 .. k : s[i] = n
    BY <1>3
  <2>2. i < k => s[i] < s[k]
    BY <1>1, <1>4, InOrderAscends DEF s, k
  <2>3. i = k \/ i < k
    BY <1>2
  <2>4. n \in Nat /\ s[k] \in Nat
    BY <1>1, <1>4
  <2> QED  BY <2>1, <2>2, <2>3, <2>4
<1> QED  BY <1>1, <1>4, <1>5 DEF IsLast, S, s

(* A sound log may be taken to end in its last segment.                      *)
LEMMA SoundAtLast ==
    ASSUME NEW fs, NEW rs, NEW n, SoundAt(fs, rs, n), NEW l, IsLast(fs, l)
    PROVE  SoundAt(fs, rs, l)
<1> DEFINE B == Before(fs, l)
           k == Len(B.carry.cells)
           b == Buffer(fs, l)
           p == Parse(b)
<1>1. /\ Directory(fs) /\ n \in DOMAIN fs /\ n \in Nat /\ l \in DOMAIN fs /\ l \in Nat
      /\ fs[l] \in Seq(Cell) /\ Len(fs[l]) \in Nat /\ fs[l] # <<>> /\ l \in NonEmpty(fs)
      /\ SegmentOK(fs, rs, l) /\ SoundFiles(fs, rs)
      /\ GoodAcc(rs, All(fs), n * SegSize + Len(fs[n]))
  BY DEF SoundAt, SoundFiles, Directory, IsLast, NonEmpty
<1>2. \A m \in DOMAIN fs : m > l => fs[m] = <<>>
  <2>1. \A m \in DOMAIN fs : m > l => ~(m <= l)
    BY <1>1 DEF Directory
  <2> QED  BY <2>1 DEF IsLast, NonEmpty
<1>3. All(fs) = RecoverSegment(fs, B, l, 0)
  BY <1>1, <1>2, AllAt
<1>4. All(fs) = Scanned(B.ids, l, k, b, p)
  BY <1>1, <1>3, SegmentRead
<1>5. B.carry.cells \in Seq(Cell)
  BY <1>1 DEF SegmentOK, GoodAcc
<1>6. b \in Seq(Cell) /\ Len(b) = k + Len(fs[l]) /\ k \in Nat
  BY <1>1, <1>5 DEF Buffer
<1>7. p.at \in Nat /\ p.at <= Len(b)
  BY <1>6, ParseEnds DEF ReadsFrom, Reading
<1> HIDE DEF B, k, b, p
<1>8. Place(All(fs)) = l * SegSize + (p.at - k)
  <2>1. Scanned(B.ids, l, k, b, p).carry.segment = l
    BY DEF Scanned
  <2>2. Scanned(B.ids, l, k, b, p).carry.at = p.at - k
    BY DEF Scanned
  <2> QED  BY <1>4, <2>1, <2>2 DEF Place
<1>9. l * SegSize \in Nat
  BY <1>1, WalAssumption
<1>10. Place(All(fs)) <= l * SegSize + Len(fs[l])
  BY <1>1, <1>6, <1>7, <1>8, <1>9
<1>11. GoodAcc(rs, All(fs), l * SegSize + Len(fs[l]))
  BY <1>1, <1>10 DEF GoodAcc
<1> QED  BY <1>1, <1>2, <1>11 DEF SoundAt

(* The cells of a segment that follow those carried over, up to a place.     *)
LEMMA CutBehind ==
    ASSUME NEW c \in Seq(Cell), NEW v \in Seq(Cell), NEW x \in Nat, Len(c) <= x, x <= Len(c) + Len(v)
    PROVE  /\ SubSeq(v, 1, x - Len(c)) \in Seq(Cell) /\ Len(SubSeq(v, 1, x - Len(c))) = x - Len(c)
           /\ c \o SubSeq(v, 1, x - Len(c)) = SubSeq(c \o v, 1, x)
<1> DEFINE k == Len(c)
           u == SubSeq(v, 1, x - k)
           s == SubSeq(c \o v, 1, x)
           t == c \o u
<1>1. k \in Nat /\ Len(v) \in Nat /\ x - k \in 0 .. Len(v)
  OBVIOUS
<1>2. u \in Seq(Cell) /\ Len(u) = x - k /\ \A i \in 1 .. x - k : u[i] = v[i]
  BY <1>1
<1>3. c \o v \in Seq(Cell) /\ Len(c \o v) = k + Len(v) /\ x <= Len(c \o v)
  BY <1>1
<1>4. s \in Seq(Cell) /\ Len(s) = x /\ \A i \in 1 .. x : s[i] = (c \o v)[i]
  BY <1>1, <1>3
<1> HIDE DEF u
<1>5. t \in Seq(Cell) /\ Len(t) = x
  BY <1>1, <1>2
<1>6. ASSUME NEW i \in 1 .. x PROVE t[i] = s[i]
  <2>1. CASE i <= k
    <3>1. t[i] = c[i] /\ (c \o v)[i] = c[i]
      BY <1>1, <1>2, <2>1
    <3> QED  BY <1>4, <3>1
  <2>2. CASE i > k
    <3>1. t[i] = u[i - k] /\ (c \o v)[i] = v[i - k] /\ i - k \in 1 .. x - k
      BY <1>1, <1>2, <2>2
    <3>2. u[i - k] = v[i - k]
      BY <1>2, <3>1
    <3> HIDE DEF t, s, k
    <3> QED  BY <1>4, <3>1, <3>2
  <2>3. i <= k \/ i > k
    BY <1>1
  <2> HIDE DEF t, s, k
  <2> QED  BY <2>1, <2>2, <2>3
<1>7. t = s
  <2> HIDE DEF t, s
  <2>1. t = [i \in 1 .. x |-> t[i]] /\ s = [i \in 1 .. x |-> s[i]]
    BY <1>4, <1>5
  <2> QED  BY <1>6, <2>1
<1> QED  BY <1>2, <1>7 DEF u

(* The place where recovery finds a header without a body.                   *)
Broken(fs) == All(fs).carry.cells # <<>>

CutAt(fs, l) == SubSeq(fs[l], 1, All(fs).carry.at)

Cut(fs, l) == With(fs, l, CutAt(fs, l))

(* A file that is opened for appending ends where reading ends, or is full.  *)
Exact(fs, n) ==
    Parse(Buffer(fs, n)).end = "clean" /\ Parse(Buffer(fs, n)).at = Len(Buffer(fs, n))

(* What the place is, in the last segment.                                   *)
LEMMA BrokenPlace ==
    ASSUME NEW fs, NEW rs, NEW l, SoundAt(fs, rs, l), IsLast(fs, l), Broken(fs)
    PROVE  LET B == Before(fs, l)
               k == Len(B.carry.cells)
               p == Parse(Buffer(fs, l))
           IN  /\ All(fs).carry.segment = l /\ All(fs).carry.at = p.at - k
               /\ p.at >= k /\ p.at \in Nat /\ k \in Nat /\ p.at <= k + Len(fs[l])
               /\ p.at = k => k = 0 /\ p.ids = <<>>
               /\ fs[l] \in Seq(Cell) /\ B.carry.cells \in Seq(Cell)
               /\ CutAt(fs, l) = SubSeq(fs[l], 1, p.at - k) /\ CutAt(fs, l) \in Seq(Cell)
               /\ Len(CutAt(fs, l)) = p.at - k
               /\ B.carry.cells \o CutAt(fs, l) = SubSeq(Buffer(fs, l), 1, p.at)
<1> DEFINE B == Before(fs, l)
           c == B.carry.cells
           k == Len(c)
           b == Buffer(fs, l)
           p == Parse(b)
<1>1. /\ Directory(fs) /\ l \in DOMAIN fs /\ l \in NonEmpty(fs) /\ fs[l] # <<>>
      /\ fs[l] \in Seq(Cell) /\ Len(fs[l]) \in Nat /\ SegmentOK(fs, rs, l)
  BY DEF SoundAt, SoundFiles, Directory, IsLast, NonEmpty
<1>2. /\ c \in Seq(Cell) /\ b \in Seq(Cell) /\ p \in Reading /\ b = c \o fs[l]
      /\ Len(b) = k + Len(fs[l]) /\ All(fs) = Scanned(B.ids, l, k, b, p)
      /\ c # <<>> => Len(c) = HeaderSize
  BY <1>1, AllOfLast, ZenonT(40) DEF LastKnown, GoodAcc
<1>3. (c # <<>> => p.at > HeaderSize) /\ p.end # "corrupted"
  BY <1>1 DEF SegmentOK, GoodEnd
<1>4. ReadsFrom(b, 0, p)
  BY <1>2, ParseEnds
<1>5. k \in Nat /\ (c = <<>> => k = 0) /\ HeaderSize \in Nat /\ p.at \in Nat
  BY <1>2, WalAssumption DEF Reading
<1> HIDE DEF B, c, k, b, p
<1>6. /\ p.at >= k /\ p.at <= k + Len(fs[l])
  BY <1>2, <1>3, <1>4, <1>5 DEF ReadsFrom, k
<1>7. p.at = k => k = 0 /\ p.ids = <<>>
  BY <1>2, <1>3, <1>4, <1>5 DEF ReadsFrom, k
<1>8. Scanned(B.ids, l, k, b, p).carry.segment = l /\ Scanned(B.ids, l, k, b, p).carry.at = p.at - k
  BY DEF Scanned
<1>9. CutAt(fs, l) = SubSeq(fs[l], 1, p.at - k)
  BY <1>2, <1>8 DEF CutAt
<1>10. /\ SubSeq(fs[l], 1, p.at - k) \in Seq(Cell) /\ Len(SubSeq(fs[l], 1, p.at - k)) = p.at - k
       /\ c \o SubSeq(fs[l], 1, p.at - k) = SubSeq(c \o fs[l], 1, p.at)
  BY <1>1, <1>2, <1>5, <1>6, CutBehind DEF k
<1> QED  BY <1>1, <1>2, <1>5, <1>6, <1>7, <1>8, <1>9, <1>10 DEF B, c, k, b, p

(* Truncation at that place loses no record, and the file ends with one.     *)
LEMMA TruncateSound ==
    ASSUME NEW fs, NEW rs \in Seq(Record), NEW l, SoundAt(fs, rs, l), IsLast(fs, l), Broken(fs)
    PROVE  LET gs == Cut(fs, l) IN
           /\ SoundAt(gs, rs, l) /\ Exact(gs, l) /\ DOMAIN gs = DOMAIN fs
           /\ gs[l] = CutAt(fs, l) /\ All(gs).ids = All(fs).ids
<1> DEFINE gs == Cut(fs, l)
           B == Before(fs, l)
           c == B.carry.cells
           k == Len(c)
           a == Buffer(fs, l)
           p == Parse(a)
           v == CutAt(fs, l)
           b == SubSeq(a, 1, p.at)
           q == Parse(b)
<1>1. /\ Directory(fs) /\ l \in DOMAIN fs /\ l \in Nat /\ Len(fs[l]) \in Nat
      /\ \A m \in DOMAIN fs : m \in Nat /\ Len(fs[m]) <= SegSize /\ (m > l => fs[m] = <<>>)
      /\ \A m \in NonEmpty(fs) : SegmentOK(fs, rs, m)
      /\ GoodAcc(rs, All(fs), l * SegSize + Len(fs[l])) /\ fs[l] # <<>>
  BY DEF SoundAt, SoundFiles, Directory, IsLast, NonEmpty
<1>2. /\ All(fs).carry.segment = l /\ All(fs).carry.at = p.at - k
      /\ p.at >= k /\ p.at \in Nat /\ k \in Nat /\ p.at <= k + Len(fs[l])
      /\ p.at = k => k = 0 /\ p.ids = <<>>
      /\ fs[l] \in Seq(Cell) /\ c \in Seq(Cell)
      /\ v \in Seq(Cell) /\ Len(v) = p.at - k /\ c \o v = b
  BY BrokenPlace
<1>3. /\ GoodAcc(rs, B, l * SegSize) /\ a \in Seq(Cell) /\ p \in Reading
      /\ a = c \o fs[l] /\ All(fs).ids = B.ids \o p.ids
  BY AllOfLast DEF LastKnown
<1>4. B.stop = "no" /\ B.ids \in Seq(1 .. Len(rs)) /\ (c # <<>> => k = HeaderSize)
  BY <1>3 DEF GoodAcc
<1>5. /\ b \in Seq(Cell) /\ Len(b) = p.at
      /\ q = [ids |-> p.ids, end |-> "clean", at |-> p.at]
  BY <1>3, ParseCut
<1>6. Replaced(fs, gs, l, v)
  BY <1>1, <1>2, WithReplaces DEF Cut
<1> HIDE DEF gs, v, b, q
<1>7. q.ids = p.ids /\ q.end = "clean" /\ q.at = p.at /\ q = Parse(b) /\ c \o v = b
  BY <1>2, <1>5 DEF q
<1>8. /\ Before(gs, l) = B
      /\ \A m \in EarlierThan(fs, l) : SegmentOK(fs, rs, m) => SegmentOK(gs, rs, m)
  BY <1>1, <1>6, SameBefore DEF Replaced
<1>9. Buffer(gs, l) = b
  BY <1>6, <1>7, <1>8 DEF Buffer, Replaced
<1>10. Exact(gs, l)
  BY <1>5, <1>7, <1>9 DEF Exact
<1>11. \A m \in DOMAIN gs : Len(gs[m]) <= SegSize /\ (m > l => gs[m] = <<>>)
  <2>1. ASSUME NEW m \in DOMAIN gs PROVE Len(gs[m]) <= SegSize /\ (m > l => gs[m] = <<>>)
    <3>1. CASE m = l
      <4>1. ~(l > l) /\ SegSize \in Nat /\ Len(v) <= Len(fs[l]) /\ Len(v) \in Nat
        <5>1. \A x, y, z \in Nat : x <= y + z /\ x >= y => x - y <= z /\ x - y \in Nat
          OBVIOUS
        <5> QED  BY <1>1, <1>2, <5>1, WalAssumption, SMTT(20)
      <4>2. Len(v) <= SegSize
        BY <1>1, <4>1
      <4> QED  BY <1>6, <3>1, <4>1, <4>2 DEF Replaced
    <3>2. CASE m # l
      BY <1>1, <1>6, <3>2 DEF Replaced
    <3> QED  BY <3>1, <3>2
  <2> QED  BY <2>1
<1>12. \A m \in EarlierThan(fs, l) : SegmentOK(gs, rs, m)
  <2>1. \A m \in EarlierThan(fs, l) : m \in NonEmpty(fs)
    BY DEF EarlierThan
  <2> QED  BY <1>1, <1>8, <2>1
<1>13. \A m \in NonEmpty(gs) : m = l \/ m \in EarlierThan(fs, l)
  BY <1>1, <1>6, <1>11 DEF EarlierThan, NonEmpty, Replaced
<1>14. p.ids \in Seq(1 .. Len(rs))
  <2>1. All(fs).ids \in Seq(1 .. Len(rs)) /\ p.ids \in Seq(1 .. MaxRecords)
    BY <1>1, <1>3 DEF GoodAcc, Reading
  <2> QED  BY <1>3, <1>4, <2>1, ConcatParts
<1>15. l * SegSize \in Nat
  BY <1>1, WalAssumption
<1>16. CASE v = <<>>
  <2>1. Len(v) = 0 /\ gs[l] = <<>> /\ Len(gs[l]) = 0
    BY <1>6, <1>16 DEF Replaced
  <2>2. p.at = k /\ p.ids = <<>>
    BY <1>2, <2>1
  <2>3. All(gs) = B
    BY <1>6, <1>8, <1>11, <2>1, <1>1, AllAt DEF Replaced
  <2>4. GoodAcc(rs, All(gs), l * SegSize + Len(gs[l]))
    <3>1. l * SegSize + 0 = l * SegSize
      BY <1>15
    <3> QED  BY <1>3, <2>1, <2>3, <3>1
  <2>5. B.ids \o p.ids = B.ids
    BY <1>4, <2>2, EmptyCat
  <2>6. \A m \in NonEmpty(gs) : SegmentOK(gs, rs, m)
    BY <1>12, <1>13, <2>1 DEF NonEmpty
  <2>7. SoundAt(gs, rs, l)
    BY <1>1, <1>6, <1>11, <2>4, <2>6 DEF SoundAt, SoundFiles, Replaced
  <2> QED  BY <1>3, <1>6, <1>10, <2>3, <2>5, <2>7 DEF Replaced, gs, v
<1>17. CASE v # <<>>
  <2>1. gs[l] # <<>> /\ l \in NonEmpty(gs) /\ gs[l] = v
    BY <1>1, <1>6, <1>17 DEF Replaced, NonEmpty
  <2>2. c # <<>> => q.at > HeaderSize
    <3>1. l \in NonEmpty(fs)
      BY <1>1 DEF NonEmpty
    <3> QED  BY <1>1, <1>7, <3>1 DEF SegmentOK, GoodEnd
  <2>3. SegmentOK(gs, rs, l)
    <3>1. GoodEnd(gs, l, q)
      BY <1>5, <1>7, <1>8, <1>9, <2>2 DEF GoodEnd
    <3> QED  BY <1>3, <1>7, <1>8, <1>9, <3>1 DEF SegmentOK
  <2>4. All(gs) = Scanned(B.ids, l, k, b, q)
    <3>1. All(gs) = RecoverSegment(gs, B, l, 0)
      BY <1>1, <1>6, <1>8, <1>11, <2>1, AllAt DEF Replaced
    <3>2. RecoverSegment(gs, Before(gs, l), l, 0) =
             Scanned(Before(gs, l).ids, l, Len(Before(gs, l).carry.cells), Buffer(gs, l),
                     Parse(Buffer(gs, l)))
      BY <1>6, <2>1, <2>3, SegmentRead DEF Replaced
    <3> QED  BY <1>7, <1>8, <1>9, <3>1, <3>2
  <2>5. Place(All(fs)) = l * SegSize + (p.at - k)
    BY <1>2 DEF Place
  <2>6. \A i \in 1 .. Len(B.ids \o q.ids) : rs[(B.ids \o q.ids)[i]].lsn < l * SegSize + (q.at - k)
    <3>1. \A i \in 1 .. Len(All(fs).ids) : rs[All(fs).ids[i]].lsn < Place(All(fs))
      BY <1>1 DEF GoodAcc
    <3>2. All(fs).ids = B.ids \o q.ids /\ Place(All(fs)) = l * SegSize + (q.at - k)
      BY <1>3, <1>7, <2>5
    <3> QED  BY <3>1, <3>2
  <2>7. GoodAcc(rs, All(gs), l * SegSize + Len(gs[l]))
    <3>1. GoodAcc(rs, Scanned(B.ids, l, k, b, q), l * SegSize + (Len(b) - k))
      <4>1. q.ids \in Seq(1 .. Len(rs)) /\ q.at >= k
        BY <1>2, <1>7, <1>14
      <4> HIDE DEF B, k, p
      <4> QED  BY <1>1, <1>2, <1>4, <1>5, <1>7, <2>6, <4>1, ScannedGood
    <3>2. Len(b) - k = Len(gs[l])
      BY <1>2, <1>5, <2>1
    <3> QED  BY <2>4, <3>1, <3>2
  <2>8. \A m \in NonEmpty(gs) : SegmentOK(gs, rs, m)
    BY <1>12, <1>13, <2>3
  <2>9. SoundAt(gs, rs, l)
    BY <1>1, <1>6, <1>11, <2>7, <2>8 DEF SoundAt, SoundFiles, Replaced
  <2>10. All(gs).ids = All(fs).ids
    <3>1. Scanned(B.ids, l, k, b, q).ids = B.ids \o q.ids
      BY DEF Scanned
    <3> QED  BY <1>3, <1>7, <2>4, <3>1
  <2> QED  BY <1>6, <1>10, <2>9, <2>10 DEF Replaced, gs, v
<1> QED  BY <1>16, <1>17

-----------------------------------------------------------------------------
(* The plans of Wal::append                                                  *)

Whole(id, size) == Cells(id, size, 1, size)
Header(id, size) == Cells(id, size, 1, HeaderSize)
Body(id, size) == Cells(id, size, HeaderSize + 1, size)

InOne(p, id, size) == p = <<WriteCall(Whole(id, size))>>

InTwo(p, id, size, n, t) ==
    p = <<WriteCall(Header(id, size)), WriteCall(Padding(n)), RotateCall(t),
          WriteCall(Body(id, size))>>

InNext(p, id, size, n, t) ==
    p = <<WriteCall(Padding(n)), RotateCall(t), WriteCall(Whole(id, size))>>

(* The three layouts of a record, for the space that is left.  A record that *)
(* does not fit reaches into a later segment.                                *)
LEMMA PlanShape ==
    ASSUME active \in Nat, file_size \in 0 .. SegSize, NEW id, NEW size \in Sizes
    PROVE  LET p == AppendPlan(id, size)
               free == SegSize - file_size
           IN  \/ size <= free /\ InOne(p, id, size)
               \/ /\ size > free /\ HeaderSize <= free
                  /\ \E t \in Nat : t > active /\ InTwo(p, id, size, free - HeaderSize, t)
               \/ /\ size > free /\ HeaderSize > free
                  /\ \E t \in Nat : t > active /\ InNext(p, id, size, free, t)
<1> DEFINE free == remaining_space
           target == (next_lsn + size) \div SegSize
<1>1. /\ size \in Nat /\ size > HeaderSize /\ HeaderSize \in Nat /\ HeaderSize > 0
      /\ SegSize \in Nat \ {0} /\ file_size \in Nat /\ file_size <= SegSize
  BY WalAssumption
<1>2. free \in Nat /\ free = SegSize - file_size
  BY <1>1 DEF remaining_space
<1>3. ASSUME ~(size <= free) PROVE target \in Nat /\ target > active
  <2>1. active * SegSize \in Nat
    BY <1>1
  <2>2. next_lsn \in Nat /\ next_lsn = active * SegSize + file_size
    BY <1>1, <2>1 DEF base_lsn, next_lsn
  <2>3. next_lsn + size \in Nat /\ active * SegSize + SegSize <= next_lsn + size
    BY <1>1, <1>2, <1>3, <2>1, <2>2
  <2> QED  BY <1>1, <2>3, DivBehind
<1> HIDE DEF free, target
<1>4. AppendPlan(id, size) =
         IF size <= free THEN <<WriteCall(Whole(id, size))>>
         ELSE IF HeaderSize <= free
         THEN <<WriteCall(Header(id, size)), WriteCall(Padding(free - HeaderSize)),
                RotateCall(target), WriteCall(Body(id, size))>>
         ELSE <<WriteCall(Padding(free)), RotateCall(target), WriteCall(Whole(id, size))>>
  BY DEF AppendPlan, free, target, Whole, Header, Body
<1>5. CASE size <= free
  BY <1>2, <1>4, <1>5 DEF InOne
<1>6. CASE ~(size <= free) /\ HeaderSize <= free
  <2>1. target \in Nat /\ target > active /\ size > free
    BY <1>1, <1>2, <1>3, <1>6
  <2>2. InTwo(AppendPlan(id, size), id, size, free - HeaderSize, target)
    BY <1>4, <1>6 DEF InTwo
  <2> QED  BY <1>2, <1>6, <2>1, <2>2
<1>7. CASE ~(size <= free) /\ ~(HeaderSize <= free)
  <2>1. target \in Nat /\ target > active /\ size > free /\ HeaderSize > free
    BY <1>1, <1>2, <1>3, <1>7
  <2>2. InNext(AppendPlan(id, size), id, size, free, target)
    BY <1>4, <1>7 DEF InNext
  <2> QED  BY <1>2, <2>1, <2>2
<1> QED  BY <1>5, <1>6, <1>7

(* The cells of a record's parts.                                            *)
LEMMA PartsWritten ==
    ASSUME NEW id \in 1 .. MaxRecords, NEW size \in Sizes
    PROVE  /\ size \in Nat /\ size > HeaderSize /\ HeaderSize \in Nat /\ HeaderSize > 0
           /\ Whole(id, size) \in Seq(Cell) /\ Len(Whole(id, size)) = size
           /\ Header(id, size) \in Seq(Cell) /\ Len(Header(id, size)) = HeaderSize
           /\ Body(id, size) \in Seq(Cell) /\ Len(Body(id, size)) = size - HeaderSize
           /\ \A i \in 1 .. size : Whole(id, size)[i] = [id |-> id, size |-> size, pos |-> i]
           /\ \A i \in 1 .. HeaderSize : Header(id, size)[i] = [id |-> id, size |-> size, pos |-> i]
           /\ \A i \in 1 .. size - HeaderSize :
                 Body(id, size)[i] = [id |-> id, size |-> size, pos |-> HeaderSize + i]
<1>1. size \in Nat /\ size > HeaderSize /\ HeaderSize \in Nat /\ HeaderSize > 0
  BY WalAssumption
<1>2. /\ 1 \in Nat /\ 1 <= size /\ 1 <= HeaderSize /\ HeaderSize + 1 \in Nat /\ 1 <= 1
      /\ HeaderSize + 1 <= size /\ 1 <= HeaderSize + 1 /\ HeaderSize <= size /\ size <= size
      /\ size - 1 + 1 = size /\ size - (HeaderSize + 1) + 1 = size - HeaderSize
      /\ HeaderSize - 1 + 1 = HeaderSize
  BY <1>1
<1>3. /\ Whole(id, size) \in Seq(Cell) /\ Len(Whole(id, size)) = size
  BY <1>1, <1>2, CellsWritten DEF Whole
<1>4. /\ Header(id, size) \in Seq(Cell) /\ Len(Header(id, size)) = HeaderSize
  BY <1>1, <1>2, CellsWritten DEF Header
<1>5. /\ Body(id, size) \in Seq(Cell) /\ Len(Body(id, size)) = size - HeaderSize
  BY <1>1, <1>2, CellsWritten DEF Body
<1>6. \A i \in 1 .. size : Whole(id, size)[i] = [id |-> id, size |-> size, pos |-> i]
  <2>1. \A i \in 1 .. size : 1 + i - 1 = i
    BY <1>1
  <2> QED  BY <1>2, <2>1 DEF Whole, Cells
<1>7. \A i \in 1 .. HeaderSize : Header(id, size)[i] = [id |-> id, size |-> size, pos |-> i]
  <2>1. \A i \in 1 .. HeaderSize : 1 + i - 1 = i
    BY <1>1
  <2> QED  BY <1>2, <2>1 DEF Header, Cells
<1>8. \A i \in 1 .. size - HeaderSize :
         Body(id, size)[i] = [id |-> id, size |-> size, pos |-> HeaderSize + i]
  <2>1. \A i \in 1 .. size - HeaderSize : HeaderSize + 1 + i - 1 = HeaderSize + i
    BY <1>1
  <2> QED  BY <1>2, <2>1 DEF Body, Cells
<1> QED  BY <1>1, <1>3, <1>4, <1>5, <1>6, <1>7, <1>8

LEMMA Calls ==
    /\ \A c \in Seq(Cell) : /\ WriteCall(c) \in Call /\ WriteCall(c).call = "write"
                            /\ WriteCall(c).cells = c
    /\ \A n \in Nat : /\ RotateCall(n) \in Call /\ RotateCall(n).call = "rotate"
                      /\ RotateCall(n).segment = n /\ RotateCall(n).cells = <<>>
<1>1. <<>> \in Seq(Cell)
  OBVIOUS
<1> QED  BY <1>1 DEF WriteCall, RotateCall, Call

-----------------------------------------------------------------------------
(* What no damage undoes                                                     *)

(* The last cell of a record.                                                *)
Final(c) == c.pos = c.size /\ c.pos > 0

(* Position x of file n has the last cell of record id.                      *)
Holds(fs, n, x, id) ==
    n \in DOMAIN fs /\ x \in 1 .. Len(fs[n]) /\ Final(fs[n][x]) /\ fs[n][x].id = id

(* Only acknowledged records have a last cell in the log, and only one.      *)
Finished(fs, rs) ==
    /\ \A n, x, id : Holds(fs, n, x, id) => id \in 1 .. Len(rs) /\ rs[id].fate = "acked"
    /\ \A n, x, m, y, id : Holds(fs, n, x, id) /\ Holds(fs, m, y, id) => n = m /\ x = y

(* A plan writes the last cell of record id with its last call.              *)
EndsRecord(p, id) ==
    /\ p # <<>> => p[Len(p)].call = "write"
    /\ \A i \in 1 .. Len(p) : \A x \in 1 .. Len(p[i].cells) :
          Final(p[i].cells[x]) => i = Len(p) /\ x = Len(p[i].cells) /\ p[i].cells[x].id = id

LEMMA PartsEnd ==
    ASSUME NEW id \in 1 .. MaxRecords, NEW size \in Sizes
    PROVE  /\ \A x \in 1 .. size : Final(Whole(id, size)[x]) => x = size /\ Whole(id, size)[x].id = id
           /\ \A x \in 1 .. HeaderSize : ~Final(Header(id, size)[x])
           /\ \A x \in 1 .. size - HeaderSize :
                 Final(Body(id, size)[x]) => x = size - HeaderSize /\ Body(id, size)[x].id = id
           /\ \A n \in Nat : \A x \in 1 .. n : ~Final(Padding(n)[x])
<1>1. /\ size \in Nat /\ size > HeaderSize /\ HeaderSize \in Nat /\ HeaderSize > 0
      /\ \A i \in 1 .. size : Whole(id, size)[i] = [id |-> id, size |-> size, pos |-> i]
      /\ \A i \in 1 .. HeaderSize : Header(id, size)[i] = [id |-> id, size |-> size, pos |-> i]
      /\ \A i \in 1 .. size - HeaderSize :
            Body(id, size)[i] = [id |-> id, size |-> size, pos |-> HeaderSize + i]
  BY PartsWritten
<1>2. /\ \A i \in Nat : Final([id |-> id, size |-> size, pos |-> i]) => i = size
      /\ \A i \in Nat : [id |-> id, size |-> size, pos |-> i].id = id
  BY DEF Final
<1>3. ASSUME NEW x \in 1 .. size, Final(Whole(id, size)[x])
      PROVE  x = size /\ Whole(id, size)[x].id = id
  <2>1. x \in Nat /\ Whole(id, size)[x] = [id |-> id, size |-> size, pos |-> x]
    BY <1>1
  <2> HIDE DEF Final
  <2> QED  BY <1>2, <1>3, <2>1
<1>4. ASSUME NEW x \in 1 .. HeaderSize PROVE ~Final(Header(id, size)[x])
  <2>1. x \in Nat /\ x # size
    BY <1>1
  <2> QED  BY <1>1, <1>2, <2>1
<1>5. ASSUME NEW x \in 1 .. size - HeaderSize, Final(Body(id, size)[x])
      PROVE  x = size - HeaderSize /\ Body(id, size)[x].id = id
  <2>1. HeaderSize + x \in Nat /\ x \in Nat
    BY <1>1
  <2>2. HeaderSize + x = size /\ Body(id, size)[x].id = id
    <3>1. Body(id, size)[x] = [id |-> id, size |-> size, pos |-> HeaderSize + x]
      BY <1>1
    <3> QED  BY <1>2, <1>5, <2>1, <3>1
  <2> QED  BY <1>1, <2>1, <2>2
<1>6. \A n \in Nat : \A x \in 1 .. n : ~Final(Padding(n)[x])
  BY DEF Padding, Final, Zero
<1> QED  BY <1>3, <1>4, <1>5, <1>6

LEMMA AppendEnds ==
    ASSUME active \in Nat, file_size \in 0 .. SegSize, NEW id \in 1 .. MaxRecords, NEW size \in Sizes,
           NEW p, p = AppendPlan(id, size)
    PROVE  p \in Seq(Call) /\ p # <<>> /\ EndsRecord(p, id)
<1> DEFINE free == SegSize - file_size
<1>1. free \in Nat /\ HeaderSize \in Nat
  BY WalAssumption
<1> HIDE DEF free
<1> DEFINE W == Whole(id, size)
           H == Header(id, size)
           B == Body(id, size)
<1>2. /\ W \in Seq(Cell) /\ Len(W) = size /\ H \in Seq(Cell) /\ Len(H) = HeaderSize
      /\ B \in Seq(Cell) /\ Len(B) = size - HeaderSize
  BY PartsWritten
<1>3. /\ \A x \in 1 .. Len(W) : Final(W[x]) => x = Len(W) /\ W[x].id = id
      /\ \A x \in 1 .. Len(H) : ~Final(H[x])
      /\ \A x \in 1 .. Len(B) : Final(B[x]) => x = Len(B) /\ B[x].id = id
  BY <1>2, PartsEnd, ZenonT(40)
<1>4. ASSUME NEW n \in Nat
      PROVE  Padding(n) \in Seq(Cell) /\ \A x \in 1 .. Len(Padding(n)) : ~Final(Padding(n)[x])
  BY PartsEnd, PaddingWritten
<1> HIDE DEF W, H, B
<1>5. CASE InOne(p, id, size)
  <2> DEFINE w == WriteCall(W)
  <2>1. w \in Call /\ w.cells = W /\ w.call = "write"
    BY <1>2, Calls
  <2>2. p = <<w>>
    BY <1>5 DEF InOne, W
  <2> HIDE DEF w
  <2> QED  BY <1>3, <2>1, <2>2 DEF EndsRecord
<1>6. ASSUME NEW n \in Nat, NEW t \in Nat, InTwo(p, id, size, n, t)
      PROVE  p \in Seq(Call) /\ p # <<>> /\ EndsRecord(p, id)
  <2> DEFINE h == WriteCall(H)
             z == WriteCall(Padding(n))
             r == RotateCall(t)
             w == WriteCall(B)
  <2>1. /\ h \in Call /\ h.cells = H /\ z \in Call /\ z.cells = Padding(n) /\ r \in Call
        /\ r.cells = <<>> /\ w \in Call /\ w.cells = B /\ w.call = "write"
    BY <1>2, <1>4, Calls
  <2>2. p = <<h, z, r, w>>
    BY <1>6 DEF InTwo, H, B
  <2> HIDE DEF h, z, r, w
  <2>3. /\ p \in Seq(Call) /\ p # <<>> /\ Len(p) = 4
        /\ p[1] = h /\ p[2] = z /\ p[3] = r /\ p[4] = w
    BY <2>1, <2>2
  <2>4. ASSUME NEW i \in 1 .. 4, NEW x \in 1 .. Len(p[i].cells), Final(p[i].cells[x])
        PROVE  i = 4 /\ x = Len(p[i].cells) /\ p[i].cells[x].id = id
    <3>1. i = 1 \/ i = 2 \/ i = 3 \/ i = 4
      OBVIOUS
    <3>2. i # 1 /\ i # 2
      BY <1>3, <1>4, <2>1, <2>3, <2>4
    <3>3. i # 3
      BY <2>1, <2>3, <2>4
    <3> QED  BY <1>3, <2>1, <2>3, <2>4, <3>1, <3>2, <3>3
  <2> QED  BY <2>1, <2>3, <2>4 DEF EndsRecord
<1>7. ASSUME NEW n \in Nat, NEW t \in Nat, InNext(p, id, size, n, t)
      PROVE  p \in Seq(Call) /\ p # <<>> /\ EndsRecord(p, id)
  <2> DEFINE z == WriteCall(Padding(n))
             r == RotateCall(t)
             w == WriteCall(W)
  <2>1. /\ z \in Call /\ z.cells = Padding(n) /\ r \in Call
        /\ r.cells = <<>> /\ w \in Call /\ w.cells = W /\ w.call = "write"
    BY <1>2, <1>4, Calls
  <2>2. p = <<z, r, w>>
    BY <1>7 DEF InNext, W
  <2> HIDE DEF z, r, w
  <2>3. p \in Seq(Call) /\ p # <<>> /\ Len(p) = 3 /\ p[1] = z /\ p[2] = r /\ p[3] = w
    BY <2>1, <2>2
  <2>4. ASSUME NEW i \in 1 .. 3, NEW x \in 1 .. Len(p[i].cells), Final(p[i].cells[x])
        PROVE  i = 3 /\ x = Len(p[i].cells) /\ p[i].cells[x].id = id
    <3>1. i = 1 \/ i = 2 \/ i = 3
      OBVIOUS
    <3>2. i # 1
      BY <1>4, <2>1, <2>3, <2>4
    <3>3. i # 2
      BY <2>1, <2>3, <2>4
    <3> QED  BY <1>3, <2>1, <2>3, <2>4, <3>1, <3>2, <3>3
  <2> QED  BY <2>1, <2>3, <2>4 DEF EndsRecord
<1>8. \/ InOne(p, id, size)
      \/ HeaderSize <= free /\ \E t \in Nat : InTwo(p, id, size, free - HeaderSize, t)
      \/ \E t \in Nat : InNext(p, id, size, free, t)
  BY PlanShape DEF free
<1>9. HeaderSize <= free => free - HeaderSize \in Nat
  BY <1>1
<1> QED  BY <1>1, <1>5, <1>6, <1>7, <1>8, <1>9

(* The files gs have no last cell that fs has not.                           *)
LEMMA FewerCells ==
    ASSUME NEW fs, NEW gs, NEW rs, NEW qs, Finished(fs, rs),
           \A n, x, id : Holds(gs, n, x, id) => Holds(fs, n, x, id),
           \A i \in 1 .. Len(rs) : rs[i].fate = "acked" => i \in 1 .. Len(qs) /\ qs[i].fate = "acked"
    PROVE  Finished(gs, qs)
BY DEF Finished

(* The files gs have the last cell of one more record.                       *)
AddsCell(fs, gs, k, y, last) ==
    \A n, x, id : Holds(gs, n, x, id) => Holds(fs, n, x, id) \/ (n = k /\ x = y /\ id = last)

LEMMA OneMoreCell ==
    ASSUME NEW fs, NEW gs, NEW rs, NEW qs, Finished(fs, rs), NEW k, NEW y, NEW last,
           AddsCell(fs, gs, k, y, last), last \in 1 .. Len(rs), rs[last].fate # "acked",
           \A i \in 1 .. Len(rs) : rs[i].fate = "acked" \/ i = last
                                      => i \in 1 .. Len(qs) /\ qs[i].fate = "acked"
    PROVE  Finished(gs, qs)
<1>1. ~\E n, x : Holds(fs, n, x, last)
  BY DEF Finished
<1>2. \A n, x, id : Holds(gs, n, x, id) => id \in 1 .. Len(qs) /\ qs[id].fate = "acked"
  BY DEF Finished, AddsCell
<1>3. \A n, x, m, z, id : Holds(gs, n, x, id) /\ Holds(gs, m, z, id) => n = m /\ x = z
  BY <1>1 DEF Finished, AddsCell
<1> QED  BY <1>2, <1>3 DEF Finished

(* A last cell that a write has put into the log is one of those written.    *)
LEMMA WriteHolds ==
    ASSUME NEW fs, Directory(fs), NEW n \in DOMAIN fs, NEW w \in Seq(Cell),
           NEW m, NEW x, NEW id, Holds(Written(fs, n, w), m, x, id)
    PROVE  \/ Holds(fs, m, x, id)
           \/ \E i \in 1 .. Len(w) : m = n /\ x = Len(fs[n]) + i /\ Final(w[i]) /\ w[i].id = id
<1> DEFINE gs == Written(fs, n, w)
           k == Len(fs[n])
<1>1. fs[n] \in Seq(Cell) /\ fs[n] \o w \in Seq(Cell)
  BY DEF Directory
<1>2. Replaced(fs, gs, n, fs[n] \o w)
  BY <1>1, WithReplaces DEF Written
<1>3. /\ m \in DOMAIN gs /\ x \in 1 .. Len(gs[m]) /\ Final(gs[m][x]) /\ gs[m][x].id = id
  BY DEF Holds
<1> HIDE DEF gs
<1>4. CASE m # n
  BY <1>2, <1>3, <1>4 DEF Replaced, Holds
<1>5. CASE m = n
  <2>1. gs[n] = fs[n] \o w /\ Len(gs[n]) = k + Len(w) /\ k \in Nat /\ Len(w) \in Nat
    BY <1>1, <1>2 DEF Replaced
  <2>2. CASE x <= k
    <3>1. x \in 1 .. k /\ gs[n][x] = fs[n][x]
      BY <1>1, <1>3, <1>5, <2>1, <2>2
    <3> QED  BY <1>3, <1>5, <3>1 DEF Holds
  <2>3. CASE x > k
    <3>1. x - k \in 1 .. Len(w) /\ gs[n][x] = w[x - k] /\ x = k + (x - k)
      BY <1>1, <1>3, <1>5, <2>1, <2>3
    <3> QED  BY <1>3, <1>5, <3>1
  <2> QED  BY <1>3, <1>5, <2>1, <2>2, <2>3
<1> QED  BY <1>4, <1>5

(* A whole record ends with its last cell.                                   *)
LEMMA WholeEnds ==
    ASSUME NEW b \in Seq(Cell), NEW o \in Nat, NEW c, c = b[o + 1], c \in Cell, c.pos = 1,
           o + c.size <= Len(b), WholeRecord(b, o)
    PROVE  Final(b[o + c.size]) /\ b[o + c.size].id = c.id
<1>1. c.size \in Nat /\ c.size > HeaderSize /\ HeaderSize \in Nat /\ Len(b) \in Nat
  BY FirstCell, WalAssumption
<1> DEFINE k == c.size
<1>2. k \in 1 .. k /\ o + k \in 1 .. Len(b) /\ o + 1 \in 1 .. Len(b) /\ k > 0
  BY <1>1
<1>3. SubSeq(b, o + 1, o + k)[k] = b[o + k]
  BY <1>1, <1>2
<1>4. SubSeq(b, o + 1, o + k) = Cells(c.id, k, 1, k)
  BY DEF WholeRecord
<1>5. Cells(c.id, k, 1, k)[k] = [id |-> c.id, size |-> k, pos |-> k]
  <2>1. k \in 1 .. k - 1 + 1 /\ 1 + k - 1 = k
    BY <1>1
  <2> HIDE DEF k
  <2> QED  BY <2>1 DEF Cells
<1> HIDE DEF k
<1>6. b[o + k] = [id |-> c.id, size |-> k, pos |-> k]
  BY <1>3, <1>4, <1>5, Zenon
<1>7. Final(b[o + k]) /\ b[o + k].id = c.id
  BY <1>2, <1>6 DEF Final
<1> QED  BY <1>7 DEF k

(* What is read behind a record that is read at o.                           *)
LEMMA StepRecord ==
    ASSUME NEW b \in Seq(Cell), NEW o \in 0 .. Len(b), Reads(b)[o].ids # <<>>
    PROVE  LET c == b[o + 1]
               q == o + c.size
           IN  /\ q \in 0 .. Len(b) /\ q > o + HeaderSize /\ q \in 1 .. Len(b)
               /\ c.id \in 1 .. MaxRecords /\ Reads(b)[q].ids \in Seq(1 .. MaxRecords)
               /\ Reads(b)[o].ids = <<c.id>> \o Reads(b)[q].ids
               /\ Final(b[q]) /\ b[q].id = c.id
<1> DEFINE r == Reads(b)[o]
           c == b[o + 1]
           y == Reads(b)[o + c.size]
<1>1. /\ o + HeaderSize <= Len(b) /\ c \in Cell /\ c.pos = 1 /\ WholeRecord(b, o)
      /\ o + c.size \in 0 .. Len(b) /\ o + c.size > o + HeaderSize
      /\ r = [y EXCEPT !.ids = <<c.id>> \o @]
  <2>1. \/ r = [ids |-> <<>>, end |-> "clean", at |-> o]
        \/ r = [ids |-> <<>>, end |-> "partial", at |-> o]
        \/ r = [ids |-> <<>>, end |-> "corrupted", at |-> o]
        \/ /\ o + HeaderSize <= Len(b) /\ c \in Cell /\ c.pos = 1 /\ WholeRecord(b, o)
           /\ o + c.size \in 0 .. Len(b) /\ o + c.size > o + HeaderSize
           /\ r = [y EXCEPT !.ids = <<c.id>> \o @]
    BY StepCases
  <2>2. r.ids # <<>>
    OBVIOUS
  <2> HIDE DEF r, c, y
  <2> QED  BY <2>1, <2>2
<1>2. y \in Reading
  BY <1>1, ReadingEnds DEF ReadsFrom
<1>3. c.id \in 1 .. MaxRecords /\ c.size \in Nat /\ Len(b) \in Nat /\ HeaderSize \in Nat
  BY <1>1, FirstCell, WalAssumption
<1>4. Final(b[o + c.size]) /\ b[o + c.size].id = c.id
  <2>1. o \in Nat /\ o + c.size <= Len(b)
    BY <1>1, <1>3
  <2> QED  BY <1>1, <2>1, WholeEnds
<1>5. r.ids = <<c.id>> \o y.ids /\ y.ids \in Seq(1 .. MaxRecords)
  <2> HIDE DEF r, y, c
  <2> QED  BY <1>1, <1>2 DEF Reading
<1>6. o + c.size \in 1 .. Len(b)
  BY <1>1, <1>3
<1> QED  BY <1>1, <1>3, <1>4, <1>5, <1>6

(* Every record that is read has its last cell behind a header.              *)
ReadsHeld(b, o) ==
    \A i \in 1 .. Len(Reads(b)[o].ids) :
        \E x \in 1 .. Len(b) : x > o + HeaderSize /\ Final(b[x]) /\ b[x].id = Reads(b)[o].ids[i]

LEMMA ReadsHolds ==
    ASSUME NEW b \in Seq(Cell)
    PROVE  \A o \in 0 .. Len(b) : ReadsHeld(b, o)
<1> DEFINE P == {o \in 0 .. Len(b) : ReadsHeld(b, o)}
<1>1. Len(b) \in Nat /\ HeaderSize \in Nat
  BY WalAssumption
<1>2. ASSUME NEW o \in 0 .. Len(b), \A q \in 0 .. Len(b) : q > o => q \in P
      PROVE  ReadsHeld(b, o)
  <2> DEFINE s == Reads(b)[o].ids
             c == b[o + 1]
             q == o + c.size
             t == Reads(b)[q].ids
  <2>1. CASE s = <<>>
    BY <2>1 DEF ReadsHeld
  <2>2. CASE s # <<>>
    <3>1. /\ q \in 0 .. Len(b) /\ q > o + HeaderSize /\ q \in 1 .. Len(b)
          /\ c.id \in 1 .. MaxRecords /\ t \in Seq(1 .. MaxRecords)
          /\ s = <<c.id>> \o t /\ Final(b[q]) /\ b[q].id = c.id
      BY <2>2, StepRecord
    <3>2. ReadsHeld(b, q)
      <4>1. q > o
        <5> HIDE DEF q
        <5> QED  BY <1>1, <3>1
      <4> QED  BY <1>2, <3>1, <4>1
    <3> HIDE DEF s, c, q, t
    <3>3. ASSUME NEW i \in 1 .. Len(s)
          PROVE  \E x \in 1 .. Len(b) : x > o + HeaderSize /\ Final(b[x]) /\ b[x].id = s[i]
      <4>1. CASE i = 1
        <5>1. s[i] = c.id
          BY <3>1, <4>1
        <5> QED  BY <3>1, <5>1
      <4>2. CASE i # 1
        <5>1. i - 1 \in 1 .. Len(t) /\ s[i] = t[i - 1]
          BY <3>1, <4>2
        <5>2. PICK x \in 1 .. Len(b) : x > q + HeaderSize /\ Final(b[x]) /\ b[x].id = t[i - 1]
          BY <3>2, <5>1 DEF ReadsHeld, t
        <5>3. x > o + HeaderSize
          BY <1>1, <3>1, <5>2
        <5> QED  BY <5>1, <5>2, <5>3
      <4> QED  BY <4>1, <4>2
    <3> QED  BY <3>3 DEF ReadsHeld, s
  <2> QED  BY <2>1, <2>2
<1>3. \A o \in 0 .. Len(b) : o \in P
  <2>1. \A o \in 0 .. Len(b) : (\A q \in 0 .. Len(b) : q > o => q \in P) => o \in P
    BY <1>2
  <2> HIDE DEF P
  <2> QED  BY <1>1, <2>1, DownInduction
<1> QED  BY <1>3

(* Behind the first k cells no record has two last cells.                    *)
OnceBehind(b, k) ==
    \A x, y \in 1 .. Len(b) :
        x > k /\ y > k /\ Final(b[x]) /\ Final(b[y]) /\ b[x].id = b[y].id => x = y

Distinct(s) == \A i, j \in 1 .. Len(s) : i # j => s[i] # s[j]

LEMMA ReadsDistinct ==
    ASSUME NEW b \in Seq(Cell), NEW k \in 0 .. HeaderSize, OnceBehind(b, k)
    PROVE  \A o \in 0 .. Len(b) : Distinct(Reads(b)[o].ids)
<1> DEFINE P == {o \in 0 .. Len(b) : Distinct(Reads(b)[o].ids)}
<1>1. Len(b) \in Nat /\ HeaderSize \in Nat
  BY WalAssumption
<1>2. ASSUME NEW o \in 0 .. Len(b), \A q \in 0 .. Len(b) : q > o => q \in P
      PROVE  Distinct(Reads(b)[o].ids)
  <2> DEFINE s == Reads(b)[o].ids
             c == b[o + 1]
             q == o + c.size
             t == Reads(b)[q].ids
  <2>1. CASE s = <<>>
    BY <2>1 DEF Distinct
  <2>2. CASE s # <<>>
    <3>1. /\ q \in 0 .. Len(b) /\ q > o + HeaderSize /\ q \in 1 .. Len(b)
          /\ c.id \in 1 .. MaxRecords /\ t \in Seq(1 .. MaxRecords)
          /\ s = <<c.id>> \o t /\ Final(b[q]) /\ b[q].id = c.id
      BY <2>2, StepRecord
    <3>2. Distinct(t)
      <4>1. q > o
        <5> HIDE DEF q
        <5> QED  BY <1>1, <3>1
      <4> QED  BY <1>2, <3>1, <4>1
    <3>3. ReadsHeld(b, q)
      BY <3>1, ReadsHolds
    <3> HIDE DEF s, c, q, t
    <3>4. ASSUME NEW i \in 1 .. Len(t) PROVE t[i] # c.id
      <4>1. PICK x \in 1 .. Len(b) : x > q + HeaderSize /\ Final(b[x]) /\ b[x].id = t[i]
        BY <3>3 DEF ReadsHeld, t
      <4>2. x # q /\ x > k /\ q > k
        BY <1>1, <3>1, <4>1
      <4> QED  BY <3>1, <4>1, <4>2 DEF OnceBehind
    <3>5. /\ Len(s) = Len(t) + 1 /\ s[1] = c.id /\ Len(t) \in Nat
          /\ \A i \in 1 .. Len(s) : i # 1 => i - 1 \in 1 .. Len(t) /\ s[i] = t[i - 1]
      BY <3>1
    <3>6. ASSUME NEW i \in 1 .. Len(s), NEW j \in 1 .. Len(s), i # j PROVE s[i] # s[j]
      <4>1. CASE i = 1
        BY <3>4, <3>5, <3>6, <4>1
      <4>2. CASE j = 1
        BY <3>4, <3>5, <3>6, <4>2
      <4>3. CASE i # 1 /\ j # 1
        <5>1. i - 1 # j - 1
          BY <3>5, <3>6
        <5> QED  BY <3>2, <3>5, <4>3, <5>1 DEF Distinct
      <4> QED  BY <4>1, <4>2, <4>3
    <3> QED  BY <3>6 DEF Distinct, s
  <2> QED  BY <2>1, <2>2
<1>3. \A o \in 0 .. Len(b) : o \in P
  <2>1. \A o \in 0 .. Len(b) : (\A q \in 0 .. Len(b) : q > o => q \in P) => o \in P
    BY <1>2
  <2> HIDE DEF P
  <2> QED  BY <1>1, <2>1, DownInduction
<1> QED  BY <1>3

(* What recovery knows, whatever the log is: the place it has come to is in  *)
(* a file, and it carries nothing or a header.                               *)
Located(fs, acc) ==
    /\ acc.carry.segment \in NonEmpty(fs)
    /\ acc.stop # "underflow" => acc.carry.at <= Len(fs[acc.carry.segment])

AccTyped(fs, acc) ==
    /\ acc.stop \in {"no", "corrupted", "underflow"}
    /\ acc.carry.cells \in Seq(Cell)
    /\ acc.carry.cells # <<>> => Len(acc.carry.cells) = HeaderSize
    /\ acc.stop # "underflow" => acc.carry.at \in Nat
    /\ acc.stop # "no" \/ acc.carry.cells # <<>> => Located(fs, acc)

(* The records read have their last cells in the files S, each only once.    *)
AccHeld(fs, acc, S) ==
    /\ acc.ids \in Seq(1 .. MaxRecords) /\ Distinct(acc.ids)
    /\ \A i \in 1 .. Len(acc.ids) : \E n \in S : \E x : Holds(fs, n, x, acc.ids[i])

LEMMA StepIds ==
    ASSUME NEW fs, NEW n, fs[n] \in Seq(Cell), NEW acc, acc.stop = "no"
    PROVE  RecoverSegment(fs, acc, n, 0).ids = acc.ids \o Parse(acc.carry.cells \o fs[n]).ids
<1>1. CASE acc.carry.cells = <<>>
  <2> DEFINE s == SubSeq(fs[n], 0 + 1, Len(fs[n]))
  <2>1. RecoverSegment(fs, acc, n, 0).ids = acc.ids \o Parse(s).ids
    BY <1>1 DEF RecoverSegment
  <2>2. s = fs[n] /\ acc.carry.cells \o fs[n] = fs[n]
    BY <1>1, EmptyCat
  <2> HIDE DEF s
  <2> QED  BY <2>1, <2>2
<1>2. CASE acc.carry.cells # <<>>
  BY <1>2 DEF RecoverSegment
<1> QED  BY <1>1, <1>2

(* The same file read from its start, or behind a header that was carried    *)
(* over.                                                                     *)
LEMMA StepTyped ==
    ASSUME NEW fs, Directory(fs), NEW n \in NonEmpty(fs), NEW acc, AccTyped(fs, acc)
    PROVE  /\ AccTyped(fs, RecoverSegment(fs, acc, n, 0))
           /\ Located(fs, RecoverSegment(fs, acc, n, 0))
<1> DEFINE c == acc.carry.cells
           b == c \o fs[n]
           p == Parse(b)
           r == RecoverSegment(fs, acc, n, 0)
<1>1. fs[n] \in Seq(Cell) /\ Len(fs[n]) \in Nat /\ HeaderSize \in Nat /\ HeaderSize > 0
  BY WalAssumption DEF NonEmpty, Directory
<1>2. c \in Seq(Cell) /\ (c # <<>> => Len(c) = HeaderSize)
  BY DEF AccTyped
<1>3. b \in Seq(Cell) /\ Len(b) = Len(c) + Len(fs[n])
  BY <1>1, <1>2
<1>4. ReadsFrom(b, 0, p)
  BY <1>3, ParseEnds
<1>5. /\ p.at \in Nat /\ p.at <= Len(b) /\ p.end \in {"clean", "partial", "corrupted"}
      /\ (p.at = 0 /\ p.ids = <<>>) \/ (p.at > HeaderSize /\ p.ids # <<>>)
  <2> HIDE DEF p, b
  <2>1. p \in Reading /\ p.at <= Len(b)
    BY <1>4 DEF ReadsFrom
  <2>2. (p.at = 0 /\ p.ids = <<>>) \/ (p.at > 0 + HeaderSize /\ p.ids # <<>>)
    BY <1>4 DEF ReadsFrom
  <2>3. 0 + HeaderSize = HeaderSize
    BY <1>1
  <2> QED  BY <2>1, <2>2, <2>3 DEF Reading
<1> DEFINE y == SubSeq(b, p.at + 1, p.at + HeaderSize)
<1>6. p.end = "partial" => y \in Seq(Cell) /\ Len(y) = HeaderSize
  <2> HIDE DEF b
  <2> QED  BY <1>3, CarryTyped
<1>7. <<>> \in Seq(Cell)
  OBVIOUS
<1>8. CASE acc.stop # "no"
  <2>1. r = acc
    BY <1>8 DEF RecoverSegment
  <2> QED  BY <1>8, <2>1 DEF AccTyped
<1>9. CASE acc.stop = "no" /\ c = <<>>
  <2>1. b = fs[n] /\ SubSeq(fs[n], 0 + 1, Len(fs[n])) = b /\ Len(b) = Len(fs[n])
    BY <1>1, <1>9, EmptyCat
  <2> DEFINE s == SubSeq(fs[n], 0 + 1, Len(fs[n]))
             z == SubSeq(s, Parse(s).at + 1, Parse(s).at + HeaderSize)
  <2>2. /\ r.stop = IF Parse(s).end = "corrupted" THEN "corrupted" ELSE "no"
        /\ r.carry = IF Parse(s).end = "partial"
                     THEN [[segment |-> n, at |-> Parse(s).at + 0, cells |-> <<>>] EXCEPT !.cells = z]
                     ELSE [segment |-> n, at |-> Parse(s).at + 0, cells |-> <<>>]
    BY <1>9 DEF RecoverSegment
  <2>3. s = b /\ Parse(s) = p /\ z = y
    BY <2>1
  <2> HIDE DEF s, z, y, r, p, b, c
  <2>4. /\ r.carry.segment = n /\ r.carry.at = p.at + 0
        /\ r.carry.cells = IF p.end = "partial" THEN y ELSE <<>>
    <3>1. CASE p.end = "partial"
      BY <2>2, <2>3, <3>1
    <3>2. CASE p.end # "partial"
      BY <2>2, <2>3, <3>2
    <3> QED  BY <3>1, <3>2
  <2>5. r.carry.at = p.at
    BY <1>5, <2>4
  <2>6. r.stop \in {"no", "corrupted"}
    BY <2>2
  <2>7. Located(fs, r)
    BY <1>5, <2>1, <2>4, <2>5 DEF Located
  <2>8. r.carry.cells \in Seq(Cell) /\ (r.carry.cells # <<>> => Len(r.carry.cells) = HeaderSize)
    BY <1>6, <1>7, <2>4
  <2>9. AccTyped(fs, r)
    BY <1>5, <2>5, <2>6, <2>7, <2>8 DEF AccTyped
  <2> QED  BY <2>7, <2>9 DEF r
<1>10. CASE acc.stop = "no" /\ c # <<>>
  <2>1. Len(b) = HeaderSize + Len(fs[n])
    BY <1>2, <1>3, <1>10
  <2> DEFINE place == [segment |-> n, cells |-> <<>>,
                       at |-> IF p.at > HeaderSize THEN p.at - HeaderSize ELSE p.at]
  <2>2. /\ r.stop = IF p.end = "corrupted" THEN "corrupted"
                    ELSE IF p.end = "partial" /\ p.at < HeaderSize THEN "underflow"
                    ELSE "no"
        /\ r.carry = IF p.end = "corrupted" /\ p.ids = <<>>
                     THEN [acc.carry EXCEPT !.cells = <<>>]
                     ELSE IF p.end = "partial"
                     THEN [place EXCEPT !.at = p.at - HeaderSize, !.cells = y]
                     ELSE place
    BY <1>10 DEF RecoverSegment
  <2>3. Located(fs, acc) /\ acc.carry.at \in Nat
    BY <1>10 DEF AccTyped
  <2> HIDE DEF y, r, p, b
  <2>4. CASE p.end = "corrupted" /\ p.ids = <<>>
    <3>1. r.stop = "corrupted" /\ r.carry = [acc.carry EXCEPT !.cells = <<>>]
      BY <2>2, <2>4
    <3>2. r.carry.segment = acc.carry.segment /\ r.carry.at = acc.carry.at
      BY <3>1
    <3>3. acc.carry.at <= Len(fs[acc.carry.segment]) /\ acc.carry.segment \in NonEmpty(fs)
      BY <1>10, <2>3 DEF Located
    <3>4. Located(fs, r)
      BY <3>2, <3>3 DEF Located
    <3>5. r.carry.cells = <<>> \/ r.carry.cells = c
      BY <3>1
    <3>6. AccTyped(fs, r)
      BY <1>2, <1>7, <2>3, <3>1, <3>2, <3>4, <3>5 DEF AccTyped
    <3> QED  BY <3>4, <3>6 DEF r
  <2>5. CASE p.end = "partial"
    <3>1. r.carry = [place EXCEPT !.at = p.at - HeaderSize, !.cells = y]
      BY <2>2, <2>5
    <3>2. r.carry.segment = n /\ r.carry.at = p.at - HeaderSize /\ r.carry.cells = y
      BY <3>1
    <3>3. r.stop # "underflow" => p.at > HeaderSize
      BY <1>1, <1>5, <2>2, <2>5
    <3>4. r.stop # "underflow" => r.carry.at \in Nat /\ r.carry.at <= Len(fs[n])
      BY <1>1, <1>5, <2>1, <3>2, <3>3
    <3>5. Located(fs, r)
      BY <3>2, <3>4 DEF Located
    <3>6. r.stop \in {"no", "underflow"}
      BY <2>2, <2>5
    <3>7. AccTyped(fs, r)
      BY <1>6, <2>5, <3>2, <3>4, <3>5, <3>6 DEF AccTyped
    <3> QED  BY <3>5, <3>7 DEF r
  <2>6. CASE p.end # "partial" /\ ~(p.end = "corrupted" /\ p.ids = <<>>)
    <3>1. r.carry = place /\ r.stop \in {"no", "corrupted"}
      BY <2>2, <2>6
    <3>2. /\ r.carry.segment = n /\ r.carry.cells = <<>>
          /\ r.carry.at = IF p.at > HeaderSize THEN p.at - HeaderSize ELSE p.at
      BY <3>1
    <3>3. r.carry.at \in Nat /\ r.carry.at <= Len(fs[n])
      BY <1>1, <1>5, <2>1, <3>2
    <3>4. Located(fs, r)
      BY <3>2, <3>3 DEF Located
    <3>5. AccTyped(fs, r)
      BY <1>7, <3>1, <3>2, <3>3, <3>4 DEF AccTyped
    <3> QED  BY <3>4, <3>5 DEF r
  <2> QED  BY <2>4, <2>5, <2>6
<1> QED  BY <1>8, <1>9, <1>10

LEMMA StepHeld ==
    ASSUME NEW fs, Directory(fs), NEW rs, Finished(fs, rs), NEW n \in NonEmpty(fs), NEW acc,
           AccTyped(fs, acc), NEW S, AccHeld(fs, acc, S), n \notin S
    PROVE  AccHeld(fs, RecoverSegment(fs, acc, n, 0), S \cup {n})
<1> DEFINE c == acc.carry.cells
           k == Len(c)
           b == c \o fs[n]
           t == Parse(b).ids
           s == acc.ids
<1>1. CASE acc.stop # "no"
  <2>1. RecoverSegment(fs, acc, n, 0) = acc
    BY <1>1 DEF RecoverSegment
  <2> QED  BY <2>1 DEF AccHeld
<1>2. CASE acc.stop = "no"
  <2>1. n \in DOMAIN fs /\ fs[n] \in Seq(Cell) /\ Len(fs[n]) \in Nat /\ HeaderSize \in Nat
    BY WalAssumption DEF NonEmpty, Directory
  <2>2. c \in Seq(Cell) /\ k \in Nat /\ k <= HeaderSize
    <3>1. c \in Seq(Cell) /\ (c # <<>> => Len(c) = HeaderSize)
      BY DEF AccTyped
    <3>2. c = <<>> => Len(c) = 0
      OBVIOUS
    <3> QED  BY <2>1, <3>1, <3>2
  <2>3. b \in Seq(Cell) /\ Len(b) = k + Len(fs[n]) /\ 0 \in 0 .. Len(b)
    BY <2>1, <2>2
  <2>4. \A x \in 1 .. Len(b) : x > k => x - k \in 1 .. Len(fs[n]) /\ b[x] = fs[n][x - k]
    BY <2>1, <2>2, <2>3
  <2>5. t = Reads(b)[0].ids /\ t \in Seq(1 .. MaxRecords)
    BY <2>3, ParseReads, ParseEnds DEF ReadsFrom, Reading
  <2>6. ReadsHeld(b, 0)
    <3> HIDE DEF b
    <3> QED  BY <2>3, ReadsHolds
  <2> HIDE DEF b, k, t
  <2>7. \A x \in 1 .. Len(b) : x > k /\ Final(b[x]) => Holds(fs, n, x - k, b[x].id)
    BY <2>1, <2>4 DEF Holds
  <2>8. ASSUME NEW i \in 1 .. Len(t) PROVE \E x : Holds(fs, n, x, t[i])
    <3>1. PICK x \in 1 .. Len(b) : x > 0 + HeaderSize /\ Final(b[x]) /\ b[x].id = t[i]
      BY <2>5, <2>6 DEF ReadsHeld
    <3>2. x > k
      BY <2>1, <2>2, <3>1
    <3> QED  BY <2>7, <3>1, <3>2
  <2>9. OnceBehind(b, k)
    <3>1. ASSUME NEW x \in 1 .. Len(b), NEW y \in 1 .. Len(b), x > k, y > k, Final(b[x]),
                 Final(b[y]), b[x].id = b[y].id
          PROVE  x = y
      <4>1. Holds(fs, n, x - k, b[x].id) /\ Holds(fs, n, y - k, b[x].id)
        BY <2>7, <3>1
      <4>2. x - k = y - k
        BY <4>1 DEF Finished
      <4> QED  BY <2>2, <4>2
    <3> QED  BY <3>1 DEF OnceBehind
  <2>10. Distinct(t)
    <3>1. k \in 0 .. HeaderSize
      BY <2>1, <2>2
    <3> QED  BY <2>3, <2>5, <2>9, <3>1, ReadsDistinct
  <2>11. /\ s \in Seq(1 .. MaxRecords) /\ Distinct(s)
         /\ \A i \in 1 .. Len(s) : \E m \in S : \E x : Holds(fs, m, x, s[i])
    BY DEF AccHeld
  <2>12. RecoverSegment(fs, acc, n, 0).ids = s \o t
    BY <1>2, <2>1, StepIds DEF b, t
  <2> HIDE DEF s
  <2>13. ASSUME NEW i \in 1 .. Len(s), NEW j \in 1 .. Len(t) PROVE s[i] # t[j]
    <3>1. PICK m, x : m \in S /\ Holds(fs, m, x, s[i])
      BY <2>11
    <3>2. PICK y : Holds(fs, n, y, t[j])
      BY <2>8
    <3> QED  BY <3>1, <3>2 DEF Finished
  <2> DEFINE u == s \o t
  <2>14. /\ u \in Seq(1 .. MaxRecords) /\ Len(u) = Len(s) + Len(t) /\ Len(s) \in Nat /\ Len(t) \in Nat
         /\ \A i \in 1 .. Len(s) : u[i] = s[i]
         /\ \A i \in 1 .. Len(u) : i > Len(s) => i - Len(s) \in 1 .. Len(t) /\ u[i] = t[i - Len(s)]
    BY <2>5, <2>11
  <2> HIDE DEF u
  <2>15. ASSUME NEW i \in 1 .. Len(u), NEW j \in 1 .. Len(u), i # j PROVE u[i] # u[j]
    <3>1. CASE i <= Len(s) /\ j <= Len(s)
      <4>1. i \in 1 .. Len(s) /\ j \in 1 .. Len(s)
        BY <2>14, <3>1
      <4> QED  BY <2>11, <2>14, <2>15, <4>1 DEF Distinct
    <3>2. CASE i <= Len(s) /\ j > Len(s)
      <4>1. i \in 1 .. Len(s)
        BY <2>14, <3>2
      <4> QED  BY <2>13, <2>14, <3>2, <4>1
    <3>3. CASE i > Len(s) /\ j <= Len(s)
      <4>1. j \in 1 .. Len(s)
        BY <2>14, <3>3
      <4> QED  BY <2>13, <2>14, <3>3, <4>1
    <3>4. CASE i > Len(s) /\ j > Len(s)
      <4>1. i - Len(s) # j - Len(s)
        BY <2>14, <2>15
      <4> QED  BY <2>10, <2>14, <3>4, <4>1, SMTT(20) DEF Distinct
    <3>5. (i <= Len(s) \/ i > Len(s)) /\ (j <= Len(s) \/ j > Len(s))
      BY <2>14
    <3> QED  BY <3>1, <3>2, <3>3, <3>4, <3>5
  <2>16. ASSUME NEW i \in 1 .. Len(u) PROVE \E m \in S \cup {n} : \E x : Holds(fs, m, x, u[i])
    <3>1. CASE i <= Len(s)
      <4>1. i \in 1 .. Len(s) /\ u[i] = s[i]
        BY <2>14, <3>1
      <4> QED  BY <2>11, <4>1
    <3>2. CASE i > Len(s)
      <4>1. i - Len(s) \in 1 .. Len(t) /\ u[i] = t[i - Len(s)]
        BY <2>14, <3>2
      <4> QED  BY <2>8, <4>1
    <3>3. i <= Len(s) \/ i > Len(s)
      BY <2>14
    <3> QED  BY <3>1, <3>2, <3>3
  <2>17. RecoverSegment(fs, acc, n, 0).ids = u
    BY <2>12 DEF u
  <2> QED  BY <2>14, <2>15, <2>16, <2>17 DEF AccHeld, Distinct
<1> QED  BY <1>1, <1>2

(* Recovery of any log: where it ends, and what it reads.                    *)
LEMMA RecoveryAny ==
    ASSUME NEW fs, Directory(fs), NEW rs, Finished(fs, rs)
    PROVE  /\ AccTyped(fs, All(fs)) /\ AccHeld(fs, All(fs), DOMAIN fs)
           /\ NonEmpty(fs) # {} => Located(fs, All(fs))
<1> DEFINE S == NonEmpty(fs)
           s == InOrder(S)
           n == Len(s)
<1>1. S \in SUBSET Nat /\ IsFiniteSet(S) /\ s \in Seq(Nat) /\ \A i \in 1 .. n : s[i] \in S
  <2>1. S \in SUBSET DOMAIN fs
    BY DEF NonEmpty
  <2> QED  BY <2>1, Ordered
<1>2. n \in Nat /\ n = Cardinality(S)
  BY <1>1, InOrderEnumerates
<1>3. \A i, j \in 1 .. n : i < j => s[i] < s[j]
  BY <1>1, <1>2, InOrderAscends
<1>4. \A i, j \in 1 .. n : s[i] = s[j] => i = j
  <2>1. ASSUME NEW i \in 1 .. n, NEW j \in 1 .. n, s[i] = s[j] PROVE i = j
    <3>1. s[i] \in Nat /\ s[j] \in Nat
      BY <1>1
    <3>2. ~(i < j) /\ ~(j < i)
      BY <1>3, <2>1, <3>1
    <3> QED  BY <1>2, <3>2
  <2> QED  BY <2>1
<1> HIDE DEF s, n
<1>5. PICK f : Scan!IsRun(f, fs, Start, s) /\ Scan!Result(fs, Start, s) = f[n]
  BY <1>1, Scan!FoldRuns DEF n
<1>6. f[0] = Start /\ \A i \in 1 .. n : f[i] = RecoverSegment(fs, f[i - 1], s[i], 0)
  BY <1>5 DEF Scan!IsRun, ScanStep, n
<1> DEFINE Read(i) == {s[j] : j \in 1 .. i}
           P == {i \in Nat : i <= n => /\ AccTyped(fs, f[i]) /\ AccHeld(fs, f[i], Read(i))
                                       /\ i > 0 => Located(fs, f[i])}
<1>7. 0 \in P
  <2>1. /\ Start.stop = "no" /\ Start.carry.cells = <<>> /\ Start.carry.at = 0 /\ Start.ids = <<>>
    BY DEF Start, Nowhere
  <2>2. AccTyped(fs, Start)
    BY <2>1 DEF AccTyped
  <2>3. AccHeld(fs, Start, Read(0))
    BY <2>1 DEF AccHeld, Distinct
  <2> QED  BY <1>6, <2>2, <2>3
<1>8. ASSUME NEW i \in Nat, i \in P PROVE i + 1 \in P
  <2>1. CASE ~(i + 1 <= n)
    BY <2>1
  <2>2. CASE i + 1 <= n
    <3>1. i <= n /\ i + 1 \in 1 .. n /\ (i + 1) - 1 = i
      BY <1>2, <2>2
    <3>2. AccTyped(fs, f[i]) /\ AccHeld(fs, f[i], Read(i))
      BY <1>8, <3>1
    <3>3. f[i + 1] = RecoverSegment(fs, f[i], s[i + 1], 0) /\ s[i + 1] \in NonEmpty(fs)
      BY <1>1, <1>6, <3>1
    <3>4. s[i + 1] \notin Read(i)
      <4>1. ASSUME NEW j \in 1 .. i PROVE s[j] # s[i + 1]
        <5>1. j \in 1 .. n /\ j # i + 1
          BY <1>2, <3>1
        <5> QED  BY <1>4, <3>1, <5>1
      <4> QED  BY <4>1
    <3>5. Read(i + 1) = Read(i) \cup {s[i + 1]}
      <4>1. 1 .. i + 1 = (1 .. i) \cup {i + 1}
        OBVIOUS
      <4> QED  BY <4>1
    <3> HIDE DEF Read
    <3>6. AccTyped(fs, f[i + 1]) /\ Located(fs, f[i + 1])
      BY <3>2, <3>3, StepTyped
    <3>7. AccHeld(fs, f[i + 1], Read(i + 1))
      BY <3>2, <3>3, <3>4, <3>5, StepHeld
    <3> QED  BY <3>6, <3>7
  <2> QED  BY <2>1, <2>2
<1>9. \A i \in Nat : i \in P
  <2> HIDE DEF P
  <2> QED  BY <1>7, <1>8, Scan!SetInduction
<1>10. /\ AccTyped(fs, f[n]) /\ AccHeld(fs, f[n], Read(n)) /\ (n > 0 => Located(fs, f[n]))
  BY <1>2, <1>9
<1>11. All(fs) = f[n]
  BY <1>5 DEF All, s
<1>12. AccHeld(fs, f[n], DOMAIN fs)
  <2>1. Read(n) \subseteq DOMAIN fs
    BY <1>1 DEF NonEmpty
  <2> HIDE DEF Read
  <2> QED  BY <1>10, <2>1 DEF AccHeld
<1>13. NonEmpty(fs) # {} => n > 0
  <2>1. Cardinality(S) = 0 <=> S = {}
    BY <1>1, FS_EmptySet
  <2> QED  BY <1>2, <2>1
<1> QED  BY <1>10, <1>11, <1>12, <1>13

(* An empty file is created, or emptied.                                     *)
Created(fs, n) == [m \in DOMAIN fs \cup {n} |-> IF m = n THEN <<>> ELSE fs[m]]

LEMMA CreatedFiles ==
    ASSUME NEW fs, Directory(fs), NEW n \in Nat
    PROVE  LET gs == Created(fs, n) IN
           /\ Directory(gs) /\ DOMAIN gs = DOMAIN fs \cup {n} /\ gs[n] = <<>>
           /\ \A m \in DOMAIN gs : m # n => m \in DOMAIN fs /\ gs[m] = fs[m]
           /\ \A m, x, id : Holds(gs, m, x, id) => Holds(fs, m, x, id)
<1> DEFINE gs == Created(fs, n)
<1>1. /\ DOMAIN gs = DOMAIN fs \cup {n} /\ gs[n] = <<>> /\ gs = [m \in DOMAIN gs |-> gs[m]]
      /\ \A m \in DOMAIN gs : m # n => m \in DOMAIN fs /\ gs[m] = fs[m]
  BY DEF Created
<1> HIDE DEF gs
<1>2. DOMAIN gs \in SUBSET Nat /\ IsFiniteSet(DOMAIN gs)
  BY <1>1, FS_AddElement DEF Directory
<1>3. \A m \in DOMAIN gs : gs[m] \in Seq(Cell)
  <2>1. <<>> \in Seq(Cell) /\ \A m \in DOMAIN fs : fs[m] \in Seq(Cell)
    BY DEF Directory
  <2> QED  BY <1>1, <2>1
<1>4. Directory(gs)
  BY <1>1, <1>2, <1>3 DEF Directory
<1>5. \A m, x, id : Holds(gs, m, x, id) => Holds(fs, m, x, id)
  <2>1. ASSUME NEW m, NEW x, NEW id, Holds(gs, m, x, id) PROVE Holds(fs, m, x, id)
    <3>1. m # n
      BY <1>1, <2>1 DEF Holds
    <3> QED  BY <1>1, <2>1, <3>1 DEF Holds
  <2> QED  BY <2>1
<1> QED  BY <1>1, <1>4, <1>5 DEF gs

LEMMA InOrderRange ==
    ASSUME NEW S \in SUBSET Nat, IsFiniteSet(S)
    PROVE  Range(InOrder(S)) = S
<1> DEFINE s == InOrder(S)
<1>1. /\ s \in Seq(S) /\ Len(s) = Cardinality(S)
      /\ \A n \in S : \E i \in 1 .. Cardinality(S) : s[i] = n
  BY InOrderEnumerates
<1> HIDE DEF s
<1>2. DOMAIN s = 1 .. Len(s) /\ \A i \in 1 .. Len(s) : s[i] \in S
  BY <1>1
<1> QED  BY <1>1, <1>2 DEF Range, s

(* truncate_and_open_segment_file leaves the file it opens, however many     *)
(* are removed behind it: none of its cells lies behind the place.            *)
LEMMA TruncatedFiles ==
    ASSUME Directory(files), NEW place, place.segment \in DOMAIN files, place.at \in Nat,
           place.at <= Len(files[place.segment]), Len(files[place.segment]) <= SegSize
    PROVE  LET gs == Truncated(place) IN
           /\ Directory(gs) /\ DOMAIN gs \subseteq DOMAIN files /\ place.segment \in DOMAIN gs
           /\ Len(gs[place.segment]) = place.at
           /\ \A m, x, id : Holds(gs, m, x, id) => Holds(files, m, x, id)
<1> DEFINE k == place.segment
           at == place.at
           v == SubSeq(files[k], 1, at)
           cut == [files EXCEPT ![k] = v]
           seq == k * SegSize + at
           T == {n \in DOMAIN cut : final_entry_after(n, Len(cut[n]), seq)}
           gs == Truncated(place)
<1>1. /\ k \in DOMAIN files /\ k \in Nat /\ at \in Nat /\ files[k] \in Seq(Cell)
      /\ Len(files[k]) \in Nat /\ SegSize \in Nat /\ at <= Len(files[k]) /\ at <= SegSize
  BY WalAssumption DEF Directory
<1>2. v \in Seq(Cell) /\ Len(v) = at /\ \A x \in 1 .. at : v[x] = files[k][x]
  BY <1>1
<1>3. Replaced(files, cut, k, v)
  BY <1>1, <1>2, WithReplaces DEF With
<1> HIDE DEF k, at, v, cut
<1>4. /\ Directory(cut) /\ DOMAIN cut = DOMAIN files /\ cut[k] = v
      /\ \A m \in DOMAIN files : m # k => cut[m] = files[m]
  BY <1>3 DEF Replaced
<1>5. Range(SegmentFiles(cut, seq)) = T
  <2>1. T \in SUBSET DOMAIN cut
    OBVIOUS
  <2>2. T \in SUBSET Nat /\ IsFiniteSet(T)
    BY <1>4, <2>1, Ordered
  <2> HIDE DEF T
  <2>3. Range(InOrder(T)) = T
    BY <2>2, InOrderRange
  <2> QED  BY <2>3 DEF SegmentFiles, T
<1>6. gs = [n \in DOMAIN cut \ T |-> cut[n]]
  BY <1>5 DEF Truncated, cut, v, k, at
<1>7. k \notin T
  <2>1. at * k \in Nat /\ k * SegSize \in Nat /\ at * k <= k * SegSize /\ at * (k + 1) = at * k + at
    <3>1. PICK d \in Nat : SegSize = at + d
      <4>1. SegSize - at \in Nat /\ SegSize = at + (SegSize - at)
        BY <1>1
      <4> QED  BY <4>1
    <3>2. \A x, y, z \in Nat : /\ z * (x + y) = x * z + z * y /\ z * y \in Nat /\ x * z \in Nat
                               /\ x * (z + 1) = x * z + x
      OBVIOUS
    <3>3. k * (at + d) = at * k + k * d /\ k * d \in Nat /\ at * k \in Nat
          /\ at * (k + 1) = at * k + at
      BY <1>1, <3>2, SMTT(20)
    <3> QED  BY <3>1, <3>3
  <2>2. ~(seq < at * (k + 1))
    BY <1>1, <2>1
  <2> QED  BY <1>2, <1>4, <2>2 DEF final_entry_after
<1> HIDE DEF T, gs
<1>8. DOMAIN gs = DOMAIN cut \ T /\ gs = [n \in DOMAIN gs |-> gs[n]]
      /\ \A n \in DOMAIN gs : gs[n] = cut[n]
  BY <1>6
<1>9. Directory(gs)
  <2>1. DOMAIN gs \in SUBSET DOMAIN cut
    BY <1>8
  <2>2. DOMAIN gs \in SUBSET Nat /\ IsFiniteSet(DOMAIN gs)
    BY <1>4, <2>1, Ordered
  <2>3. \A n \in DOMAIN gs : gs[n] \in Seq(Cell)
    BY <1>4, <1>8 DEF Directory
  <2> QED  BY <1>8, <2>2, <2>3 DEF Directory
<1>10. ASSUME NEW m, NEW x, NEW id, Holds(gs, m, x, id) PROVE Holds(files, m, x, id)
  <2>1. m \in DOMAIN files /\ x \in 1 .. Len(cut[m]) /\ Final(cut[m][x]) /\ cut[m][x].id = id
    BY <1>4, <1>8, <1>10 DEF Holds
  <2>2. CASE m # k
    BY <1>4, <2>1, <2>2 DEF Holds
  <2>3. CASE m = k
    <3>1. x \in 1 .. at /\ cut[m][x] = files[k][x]
      BY <1>2, <1>4, <2>1, <2>3
    <3>2. x \in 1 .. Len(files[k])
      BY <1>1, <3>1
    <3> QED  BY <2>1, <2>3, <3>1, <3>2 DEF Holds
  <2> QED  BY <2>2, <2>3
<1> QED  BY <1>1, <1>2, <1>4, <1>7, <1>8, <1>9, <1>10 DEF gs, k, at

LEMMA SettleRecords ==
    ASSUME recs \in Seq(Record), Len(recs) > 0, NEW fate \in Fates, Settle(fate)
    PROVE  /\ recs' \in Seq(Record) /\ Len(recs') = Len(recs)
           /\ \A i \in 1 .. Len(recs) : /\ recs'[i].lsn = recs[i].lsn /\ recs'[i].size = recs[i].size
                                        /\ i # Len(recs) => recs'[i] = recs[i]
           /\ recs'[Len(recs)].fate = fate
<1> DEFINE last == Len(recs)
           r == [recs[last] EXCEPT !.fate = fate]
<1>1. last \in Nat /\ last \in 1 .. last /\ recs[last] \in Record /\ DOMAIN recs = 1 .. last
  OBVIOUS
<1>2. r \in Record /\ r.lsn = recs[last].lsn /\ r.size = recs[last].size /\ r.fate = fate
  BY <1>1 DEF Record
<1>3. recs' = [recs EXCEPT ![last] = r]
  BY DEF Settle
<1> HIDE DEF r
<1>4. /\ recs' \in Seq(Record) /\ Len(recs') = last /\ recs'[last] = r
      /\ \A i \in 1 .. last : i # last => recs'[i] = recs[i]
  <2>1. recs'[last] = r /\ DOMAIN recs' = 1 .. last
    BY <1>1, <1>3
  <2>2. \A i \in 1 .. last : i # last => recs'[i] = recs[i]
    BY <1>1, <1>3
  <2>3. recs' \in Seq(Record)
    BY <1>1, <1>2, <1>3
  <2>4. Len(recs') = last
    <3> HIDE DEF last
    <3> QED  BY <1>1, <2>1, <2>3
  <2> QED  BY <2>1, <2>2, <2>3, <2>4
<1> QED  BY <1>1, <1>2, <1>4

LEMMA TailEnds ==
    ASSUME NEW p \in Seq(Call), p # <<>>, NEW id, EndsRecord(p, id)
    PROVE  /\ Head(p) = p[1] /\ p[1] \in Call /\ Len(p) \in Nat /\ Len(p) > 0
           /\ Tail(p) \in Seq(Call) /\ EndsRecord(Tail(p), id)
           /\ Len(p) = 1 => Head(p).call = "write"
           /\ Tail(p) = <<>> <=> Len(p) = 1
<1> DEFINE q == Tail(p)
<1>0. Len(p) = 1 => Head(p).call = "write"
  BY DEF EndsRecord
<1>1. /\ Head(p) = p[1] /\ p[1] \in Call /\ Len(p) \in Nat /\ Len(p) > 0
      /\ q \in Seq(Call) /\ Len(q) = Len(p) - 1 /\ \A i \in 1 .. Len(q) : q[i] = p[i + 1]
  OBVIOUS
<1> HIDE DEF q
<1>2. ASSUME NEW i \in 1 .. Len(q), NEW x \in 1 .. Len(q[i].cells), Final(q[i].cells[x])
      PROVE  i = Len(q) /\ x = Len(q[i].cells) /\ q[i].cells[x].id = id
  <2>1. i + 1 \in 1 .. Len(p) /\ q[i] = p[i + 1]
    BY <1>1
  <2>2. i + 1 = Len(p) /\ x = Len(q[i].cells) /\ q[i].cells[x].id = id
    BY <1>2, <2>1 DEF EndsRecord
  <2> QED  BY <1>1, <2>2
<1>3. q = <<>> <=> Len(p) = 1
  <2>1. q = <<>> <=> Len(q) = 0
    BY <1>1
  <2> QED  BY <1>1, <2>1
<1>4. q # <<>> => q[Len(q)].call = "write"
  <2>1. q # <<>> => Len(q) \in 1 .. Len(q) /\ q[Len(q)] = p[Len(p)]
    <3>1. q # <<>> => Len(q) \in 1 .. Len(q) /\ Len(q) + 1 = Len(p)
      BY <1>1, <1>3
    <3> QED  BY <1>1, <3>1
  <2> QED  BY <2>1 DEF EndsRecord
<1> QED  BY <1>0, <1>1, <1>2, <1>3, <1>4 DEF EndsRecord, q

FilesTyped ==
    /\ Directory(files) /\ active \in Nat /\ file_size \in 0 .. SegSize
    /\ mode = "run" => active \in DOMAIN files /\ file_size <= Len(files[active])

(* The record in progress is the last one, until the process is restarted.   *)
RecordsTyped ==
    /\ recs \in Seq(Record) /\ Len(recs) <= MaxRecords
    /\ \A i \in 1 .. Len(recs) : recs[i].fate = "pending" =>
          i = Len(recs) /\ (plan # <<>> \/ mode = "down")
    /\ plan # <<>> => mode = "run" /\ Len(recs) > 0 /\ recs[Len(recs)].fate = "pending"

PlanTyped == plan \in Seq(Call) /\ EndsRecord(plan, Len(recs))

(* The inductive invariant of the log under any damage.                      *)
Lasting ==
    /\ FilesTyped /\ RecordsTyped /\ PlanTyped /\ Finished(files, recs)
    /\ mode \in {"run", "dead", "down", "failed"} /\ crashes \in 0 .. MaxCrashes

(* A write that is cut short does not put a last cell into the log.          *)
LEMMA TornFiles ==
    ASSUME Lasting, NEW gs \in Torn
    PROVE  /\ Directory(gs) /\ DOMAIN gs = DOMAIN files
           /\ \A m \in DOMAIN files : Len(files[m]) <= Len(gs[m])
           /\ \A m, x, id : Holds(gs, m, x, id) => Holds(files, m, x, id)
           /\ gs # files => plan # <<>>
<1>1. Directory(files) /\ \A m \in DOMAIN files : files[m] \in Seq(Cell)
  BY DEF Lasting, FilesTyped, Directory
<1>2. CASE gs = files
  BY <1>1, <1>2
<1>3. CASE gs # files
  <2> DEFINE c == Head(plan).cells
  <2>1. plan # <<>> /\ \E n \in 1 .. Len(c) - 1 :
                           gs = [files EXCEPT ![active] = @ \o SubSeq(c, 1, n)]
    BY <1>3 DEF Torn
  <2>2. PICK n \in 1 .. Len(c) - 1 : gs = [files EXCEPT ![active] = @ \o SubSeq(c, 1, n)]
    BY <2>1
  <2>3. /\ active \in DOMAIN files /\ plan \in Seq(Call) /\ EndsRecord(plan, Len(recs))
    BY <2>1 DEF Lasting, FilesTyped, RecordsTyped, PlanTyped
  <2>4. Head(plan) = plan[1] /\ plan[1] \in Call /\ 1 \in 1 .. Len(plan)
    BY <2>1, <2>3
  <2>5. c \in Seq(Cell) /\ Len(c) \in Nat
    BY <2>4 DEF Call
  <2>6. \A x \in 1 .. Len(c) : Final(c[x]) => x = Len(c)
    BY <2>3, <2>4 DEF EndsRecord
  <2> DEFINE w == SubSeq(c, 1, n)
  <2> HIDE DEF c
  <2>7. w \in Seq(Cell) /\ Len(w) = n /\ n \in Nat /\ \A x \in 1 .. n : w[x] = c[x] /\ ~Final(w[x])
    <3>1. w \in Seq(Cell) /\ Len(w) = n /\ n \in Nat /\ \A x \in 1 .. n : w[x] = c[x]
      BY <2>5
    <3>2. \A x \in 1 .. n : x \in 1 .. Len(c) /\ x # Len(c)
      BY <2>5
    <3> QED  BY <2>6, <3>1, <3>2
  <2> HIDE DEF w
  <2>8. gs = Written(files, active, w)
    BY <2>2 DEF Written, With, w, c
  <2>9. files[active] \o w \in Seq(Cell) /\ Len(files[active] \o w) >= Len(files[active])
    BY <1>1, <2>3, <2>7
  <2>10. Replaced(files, gs, active, files[active] \o w)
    BY <1>1, <2>3, <2>8, <2>9, WithReplaces DEF Written
  <2>11. \A m \in DOMAIN files : Len(files[m]) <= Len(gs[m])
    <3>1. ASSUME NEW m \in DOMAIN files PROVE Len(files[m]) <= Len(gs[m])
      <4>1. CASE m = active
        BY <2>9, <2>10, <4>1 DEF Replaced
      <4>2. CASE m # active
        <5>1. gs[m] = files[m] /\ Len(files[m]) \in Nat
          BY <1>1, <2>10, <4>2 DEF Replaced
        <5> QED  BY <5>1
      <4> QED  BY <4>1, <4>2
    <3> QED  BY <3>1
  <2>12. ASSUME NEW m, NEW x, NEW id, Holds(gs, m, x, id) PROVE Holds(files, m, x, id)
    <3>1. Holds(Written(files, active, w), m, x, id)
      BY <2>8, <2>12
    <3>2. \/ Holds(files, m, x, id)
          \/ \E i \in 1 .. Len(w) : Final(w[i])
      BY <1>1, <2>3, <2>7, <3>1, WriteHolds
    <3> QED  BY <2>7, <3>2
  <2> QED  BY <2>1, <2>10, <2>11, <2>12 DEF Replaced
<1> QED  BY <1>2, <1>3

LEMMA AppendLasting ==
    ASSUME Lasting, NEW size \in Sizes, AppendEntry(size)
    PROVE  Lasting'
<1> DEFINE rec == [size |-> size, lsn |-> next_lsn, fate |-> "pending"]
           last == Len(recs)
<1>1. /\ mode' = mode /\ files' = files /\ active' = active /\ file_size' = file_size
      /\ crashes' = crashes /\ recs' = Append(recs, rec) /\ plan = <<>> /\ last < MaxRecords
      /\ mode = "run" /\ plan' = AppendPlan(last + 1, size)
  BY DEF AppendEntry
<1>2. /\ active \in Nat /\ file_size \in 0 .. SegSize /\ recs \in Seq(Record) /\ last \in Nat
      /\ SegSize \in Nat /\ MaxRecords \in Nat
  BY WalAssumption DEF Lasting, FilesTyped, RecordsTyped
<1>3. next_lsn \in Nat
  <2>1. active * SegSize \in Nat
    BY <1>2
  <2> QED  BY <1>2, <2>1 DEF next_lsn, base_lsn
<1>4. rec \in Record /\ rec.fate = "pending"
  BY <1>3 DEF Record, Fates
<1> HIDE DEF rec
<1>5. /\ recs' \in Seq(Record) /\ Len(recs') = last + 1 /\ recs'[last + 1] = rec
      /\ \A i \in 1 .. last : recs'[i] = recs[i]
  BY <1>1, <1>2, <1>4
<1>6. last + 1 \in 1 .. MaxRecords
  BY <1>1, <1>2
<1>7. plan' \in Seq(Call) /\ plan' # <<>> /\ EndsRecord(plan', last + 1)
  BY <1>1, <1>2, <1>6, AppendEnds
<1>8. \A i \in 1 .. last : recs[i].fate # "pending"
  BY <1>1 DEF Lasting, RecordsTyped
<1>9. RecordsTyped'
  <2>1. \A i \in 1 .. last + 1 : recs'[i].fate = "pending" => i = last + 1
    BY <1>2, <1>5, <1>8
  <2>2. last + 1 <= MaxRecords /\ last + 1 > 0
    BY <1>2, <1>6
  <2> HIDE DEF last
  <2> QED  BY <1>1, <1>4, <1>5, <1>7, <2>1, <2>2 DEF RecordsTyped
<1>10. FilesTyped' /\ PlanTyped'
  BY <1>1, <1>5, <1>7 DEF Lasting, FilesTyped, PlanTyped
<1>11. Finished(files', recs')
  <2>1. Finished(files, recs)
    BY DEF Lasting
  <2>2. \A i \in 1 .. Len(recs) : recs[i].fate = "acked" => i \in 1 .. Len(recs') /\ recs'[i].fate = "acked"
    BY <1>2, <1>5
  <2> QED  BY <1>1, <2>1, <2>2, FewerCells
<1> QED  BY <1>1, <1>9, <1>10, <1>11 DEF Lasting

LEMMA WriteLasting ==
    ASSUME Lasting, Write
    PROVE  Lasting'
<1> DEFINE c == Head(plan).cells
           last == Len(recs)
           k == Len(files[active])
<1>1. /\ plan # <<>> /\ file_size + Len(c) <= SegSize
      /\ files' = [files EXCEPT ![active] = @ \o c] /\ file_size' = file_size + Len(c)
      /\ plan' = Tail(plan) /\ active' = active /\ mode' = mode /\ crashes' = crashes
      /\ IF Len(plan) = 1 THEN Settle("acked") ELSE recs' = recs
  BY DEF Write, Fits
<1>2. /\ Directory(files) /\ active \in Nat /\ file_size \in 0 .. SegSize /\ active \in DOMAIN files
      /\ file_size <= k /\ plan \in Seq(Call) /\ EndsRecord(plan, last) /\ recs \in Seq(Record)
      /\ last \in Nat /\ last > 0 /\ recs[last].fate = "pending" /\ mode = "run"
      /\ \A i \in 1 .. last : i # last => recs[i].fate # "pending"
      /\ last <= MaxRecords /\ Finished(files, recs)
  BY <1>1 DEF Lasting, FilesTyped, RecordsTyped, PlanTyped
<1>3. /\ Head(plan) = plan[1] /\ plan[1] \in Call /\ Len(plan) \in Nat /\ Len(plan) > 0
      /\ plan' \in Seq(Call) /\ EndsRecord(plan', last) /\ (plan' = <<>> <=> Len(plan) = 1)
  BY <1>1, <1>2, TailEnds
<1>4. c \in Seq(Cell) /\ Len(c) \in Nat /\ files[active] \in Seq(Cell) /\ k \in Nat
  BY <1>2, <1>3, SMTT(20) DEF Call, Directory
<1>5. \A x \in 1 .. Len(c) : Final(c[x]) => 1 = Len(plan) /\ x = Len(c) /\ c[x].id = last
  <2>1. 1 \in 1 .. Len(plan)
    BY <1>3
  <2> QED  BY <1>2, <1>3, <2>1 DEF EndsRecord
<1>6. files' = Written(files, active, c)
  BY <1>1 DEF Written, With
<1> HIDE DEF c
<1>7. files[active] \o c \in Seq(Cell) /\ Len(files[active] \o c) = k + Len(c)
  BY <1>4
<1>8. Replaced(files, files', active, files[active] \o c)
  BY <1>2, <1>6, <1>7, WithReplaces DEF Written
<1>9. FilesTyped'
  <2>1. Len(files'[active]) = k + Len(c) /\ Directory(files') /\ active \in DOMAIN files'
    BY <1>2, <1>7, <1>8 DEF Replaced
  <2>2. file_size + Len(c) \in 0 .. SegSize /\ file_size + Len(c) <= k + Len(c)
    BY <1>1, <1>2, <1>4, WalAssumption
  <2> QED  BY <1>1, <1>2, <2>1, <2>2 DEF FilesTyped
<1>10. ASSUME NEW m, NEW x, NEW id, Holds(files', m, x, id)
       PROVE  Holds(files, m, x, id) \/ (Len(plan) = 1 /\ m = active /\ x = k + Len(c) /\ id = last)
  <2>1. Holds(Written(files, active, c), m, x, id)
    BY <1>6, <1>10
  <2>2. \/ Holds(files, m, x, id)
        \/ \E i \in 1 .. Len(c) : m = active /\ x = k + i /\ Final(c[i]) /\ c[i].id = id
    BY <1>2, <1>4, <2>1, WriteHolds
  <2> QED  BY <1>5, <2>2
<1>11. CASE Len(plan) = 1
  <2>1. "acked" \in Fates /\ Settle("acked")
    BY <1>1, <1>11 DEF Fates
  <2>2. /\ recs' \in Seq(Record) /\ Len(recs') = last /\ recs'[last].fate = "acked"
        /\ \A i \in 1 .. last : i # last => recs'[i] = recs[i]
    BY <1>2, <2>1, SettleRecords
  <2>3. RecordsTyped' /\ PlanTyped'
    BY <1>2, <1>3, <1>11, <2>2 DEF RecordsTyped, PlanTyped
  <2>4. Finished(files', recs')
    <3>1. AddsCell(files, files', active, k + Len(c), last)
      BY <1>10 DEF AddsCell
    <3>2. last \in 1 .. Len(recs) /\ recs[last].fate # "acked"
      BY <1>2
    <3>3. \A i \in 1 .. Len(recs) : recs[i].fate = "acked" \/ i = last
                                       => i \in 1 .. Len(recs') /\ recs'[i].fate = "acked"
      BY <1>2, <2>2
    <3> QED  BY <1>2, <3>1, <3>2, <3>3, OneMoreCell
  <2> QED  BY <1>1, <1>9, <2>3, <2>4 DEF Lasting
<1>12. CASE Len(plan) # 1
  <2>1. recs' = recs /\ plan' # <<>>
    BY <1>1, <1>3, <1>12
  <2>2. RecordsTyped' /\ PlanTyped'
    BY <1>1, <1>2, <1>3, <2>1 DEF RecordsTyped, PlanTyped
  <2>3. Finished(files', recs')
    <3>1. \A m, x, id : Holds(files', m, x, id) => Holds(files, m, x, id)
      BY <1>10, <1>12
    <3> QED  BY <1>2, <2>1, <3>1, FewerCells
  <2> QED  BY <1>1, <1>9, <2>2, <2>3 DEF Lasting
<1> QED  BY <1>11, <1>12

LEMMA RotateLasting ==
    ASSUME Lasting, Rotate
    PROVE  Lasting'
<1> DEFINE n == Head(plan).segment
<1>1. /\ plan # <<>> /\ files' = Created(files, n) /\ active' = n /\ file_size' = 0
      /\ plan' = Tail(plan) /\ recs' = recs /\ mode' = mode /\ crashes' = crashes
      /\ Head(plan).call = "rotate"
  BY DEF Rotate, Created
<1>2. /\ Directory(files) /\ plan \in Seq(Call) /\ EndsRecord(plan, Len(recs))
      /\ recs \in Seq(Record) /\ mode = "run" /\ Finished(files, recs)
  BY <1>1 DEF Lasting, FilesTyped, RecordsTyped, PlanTyped
<1>3. /\ Head(plan) = plan[1] /\ plan[1] \in Call /\ Len(plan) \in Nat /\ Len(plan) > 0
      /\ plan' \in Seq(Call) /\ EndsRecord(plan', Len(recs)) /\ (plan' = <<>> <=> Len(plan) = 1)
  BY <1>1, <1>2, TailEnds
<1>4. n \in Nat
  BY <1>3 DEF Call
<1> HIDE DEF n
<1>5. /\ Directory(files') /\ n \in DOMAIN files' /\ files'[n] = <<>>
      /\ \A m, x, id : Holds(files', m, x, id) => Holds(files, m, x, id)
  <2>1. Directory(Created(files, n)) /\ DOMAIN Created(files, n) = DOMAIN files \cup {n}
        /\ Created(files, n)[n] = <<>>
        /\ \A m, x, id : Holds(Created(files, n), m, x, id) => Holds(files, m, x, id)
    BY <1>2, <1>4, CreatedFiles
  <2>2. n \in DOMAIN Created(files, n)
    BY <2>1
  <2> QED  BY <1>1, <2>1, <2>2
<1>6. FilesTyped'
  <2>1. Len(files'[n]) = 0 /\ 0 \in 0 .. SegSize
    BY <1>5, WalAssumption
  <2> QED  BY <1>1, <1>4, <1>5, <2>1 DEF FilesTyped
<1>7. PlanTyped' /\ Finished(files', recs')
  BY <1>1, <1>2, <1>3, <1>5, FewerCells DEF PlanTyped
<1>8. CASE plan' # <<>>
  <2>1. RecordsTyped'
    BY <1>1, <1>8 DEF Lasting, RecordsTyped
  <2> QED  BY <1>1, <1>6, <1>7, <2>1 DEF Lasting
<1>9. plan' # <<>>
  BY <1>1, <1>2, <1>3, TailEnds
<1> QED  BY <1>8, <1>9

(* A failed append, by a panic or an error.                                  *)
LEMMA FailureLasting ==
    ASSUME Lasting, WritePanic \/ Error
    PROVE  Lasting'
<1> DEFINE last == Len(recs)
<1>1. /\ plan # <<>> /\ files' \in Torn /\ plan' = <<>> /\ active' = active
      /\ file_size' = file_size /\ crashes' = crashes /\ mode' \in {mode, "dead"}
      /\ \E fate \in {"failed", "error"} : Settle(fate)
  <2>1. CASE WritePanic
    <3>1. files \in Torn
      BY DEF Torn
    <3> QED  BY <2>1, <3>1 DEF WritePanic
  <2>2. CASE Error
    BY <2>2 DEF Error
  <2> QED  BY <2>1, <2>2
<1>2. PICK fate \in {"failed", "error"} : Settle(fate)
  BY <1>1
<1>3. /\ active \in Nat /\ file_size \in 0 .. SegSize /\ active \in DOMAIN files
      /\ file_size <= Len(files[active]) /\ recs \in Seq(Record) /\ last \in Nat /\ last > 0
      /\ recs[last].fate = "pending" /\ mode = "run" /\ last <= MaxRecords
      /\ \A i \in 1 .. last : i # last => recs[i].fate # "pending"
      /\ Finished(files, recs) /\ files[active] \in Seq(Cell)
  BY <1>1 DEF Lasting, FilesTyped, RecordsTyped, Directory
<1>4. /\ recs' \in Seq(Record) /\ Len(recs') = last /\ recs'[last].fate = fate
      /\ \A i \in 1 .. last : i # last => recs'[i] = recs[i]
  <2>1. fate \in Fates
    BY DEF Fates
  <2> QED  BY <1>2, <1>3, <2>1, SettleRecords
<1>5. /\ Directory(files') /\ DOMAIN files' = DOMAIN files
      /\ \A m \in DOMAIN files : Len(files[m]) <= Len(files'[m])
      /\ \A m, x, id : Holds(files', m, x, id) => Holds(files, m, x, id)
  BY <1>1, TornFiles
<1>6. FilesTyped'
  <2>1. file_size <= Len(files'[active])
    <3>1. files'[active] \in Seq(Cell)
      BY <1>3, <1>5 DEF Directory
    <3>2. Len(files'[active]) \in Nat /\ Len(files[active]) \in Nat
      BY <1>3, <3>1
    <3> QED  BY <1>3, <1>5, <3>2
  <2> QED  BY <1>1, <1>3, <1>5, <2>1 DEF FilesTyped
<1>7. RecordsTyped'
  <2>1. \A i \in 1 .. last : recs'[i].fate # "pending"
    BY <1>3, <1>4
  <2> QED  BY <1>1, <1>3, <1>4, <2>1 DEF RecordsTyped
<1>8. PlanTyped'
  BY <1>1 DEF PlanTyped, EndsRecord
<1>9. Finished(files', recs')
  <2>1. \A i \in 1 .. Len(recs) : recs[i].fate = "acked" => i \in 1 .. Len(recs') /\ recs'[i].fate = "acked"
    BY <1>3, <1>4
  <2> QED  BY <1>3, <1>5, <2>1, FewerCells
<1> QED  BY <1>1, <1>3, <1>6, <1>7, <1>8, <1>9 DEF Lasting

LEMMA CrashLasting ==
    ASSUME Lasting, Crash
    PROVE  Lasting'
<1> DEFINE last == Len(recs)
<1>1. /\ files' \in Torn /\ plan' = <<>> /\ active' = active /\ file_size' = file_size
      /\ crashes' = crashes + 1 /\ crashes < MaxCrashes /\ mode' = "down"
      /\ IF files' = files THEN recs' = recs ELSE Settle("torn")
  BY DEF Crash
<1>2. /\ Directory(files') /\ DOMAIN files' = DOMAIN files
      /\ \A m, x, id : Holds(files', m, x, id) => Holds(files, m, x, id)
      /\ files' # files => plan # <<>>
  BY <1>1, TornFiles
<1>3. FilesTyped'
  BY <1>1, <1>2 DEF Lasting, FilesTyped
<1>4. crashes' \in 0 .. MaxCrashes
  BY <1>1, WalAssumption DEF Lasting
<1>5. PlanTyped'
  BY <1>1 DEF PlanTyped, EndsRecord
<1>6. recs \in Seq(Record) /\ last \in Nat /\ last <= MaxRecords /\ Finished(files, recs)
      /\ \A i \in 1 .. last : i # last => recs[i].fate # "pending"
  BY DEF Lasting, RecordsTyped
<1>7. /\ recs' \in Seq(Record) /\ Len(recs') = last
      /\ \A i \in 1 .. last : i # last => recs'[i] = recs[i]
      /\ \A i \in 1 .. last : recs[i].fate = "acked" => recs'[i].fate = "acked"
  <2>1. CASE files' = files
    BY <1>1, <1>6, <2>1
  <2>2. CASE files' # files
    <3>1. plan # <<>> /\ Settle("torn") /\ "torn" \in Fates
      BY <1>1, <1>2, <2>2 DEF Fates
    <3>2. last > 0 /\ recs[last].fate = "pending"
      BY <3>1 DEF Lasting, RecordsTyped
    <3>3. /\ recs' \in Seq(Record) /\ Len(recs') = last
          /\ \A i \in 1 .. last : i # last => recs'[i] = recs[i]
      BY <1>6, <3>1, <3>2, SettleRecords
    <3> QED  BY <3>2, <3>3
  <2> QED  BY <2>1, <2>2
<1>8. RecordsTyped'
  <2>1. \A i \in 1 .. last : recs'[i].fate = "pending" => i = last
    BY <1>6, <1>7
  <2> QED  BY <1>1, <1>6, <1>7, <2>1 DEF RecordsTyped
<1>9. Finished(files', recs')
  BY <1>2, <1>6, <1>7, FewerCells
<1> QED  BY <1>1, <1>3, <1>4, <1>5, <1>8, <1>9 DEF Lasting

Knowledge(acc) == DOMAIN acc = {"ids", "stop", "carry"}

LEMMA AllRecord ==
    ASSUME NEW fs, Directory(fs)
    PROVE  Knowledge(All(fs))
<1> DEFINE s == InOrder(NonEmpty(fs))
<1>1. s \in Seq(Nat)
  <2>1. NonEmpty(fs) \in SUBSET DOMAIN fs
    BY DEF NonEmpty
  <2> QED  BY <2>1, Ordered
<1> HIDE DEF s
<1>2. PICK f : Scan!IsRun(f, fs, Start, s) /\ Scan!Result(fs, Start, s) = f[Len(s)]
  BY <1>1, Scan!FoldRuns
<1>3. f[0] = Start /\ \A i \in 1 .. Len(s) : f[i] = RecoverSegment(fs, f[i - 1], s[i], 0)
  BY <1>2 DEF Scan!IsRun, ScanStep
<1> DEFINE P == {i \in Nat : i <= Len(s) => Knowledge(f[i])}
<1>4. 0 \in P
  BY <1>3 DEF Start, Knowledge
<1>5. ASSUME NEW i \in Nat, i \in P PROVE i + 1 \in P
  <2>1. CASE i + 1 <= Len(s)
    <3>1. i + 1 \in 1 .. Len(s) /\ (i + 1) - 1 = i /\ Knowledge(f[i])
      BY <1>1, <1>5, <2>1
    <3>2. f[i + 1] = RecoverSegment(fs, f[i], s[i + 1], 0)
      BY <1>3, <3>1
    <3>3. \A acc, n : Knowledge(acc) => Knowledge(RecoverSegment(fs, acc, n, 0))
      BY ZenonT(40) DEF RecoverSegment, Knowledge
    <3> QED  BY <3>1, <3>2, <3>3
  <2> QED  BY <2>1
<1>6. \A i \in Nat : i \in P
  <2> HIDE DEF P
  <2> QED  BY <1>4, <1>5, Scan!SetInduction
<1>7. Knowledge(f[Len(s)])
  <2>1. Len(s) \in Nat /\ Len(s) <= Len(s)
    BY <1>1
  <2> QED  BY <1>6, <2>1
<1> QED  BY <1>2, <1>7 DEF All, s

(* What recovery reports, for any log.                                       *)
LEMMA RecoveryReports ==
    ASSUME Directory(files)
    PROVE  /\ Recover(0).ids = All(files).ids /\ Recover(0).carry = All(files).carry
           /\ Recover(0).stop = IF All(files).stop = "no" /\ All(files).carry.cells # <<>>
                                THEN "corrupted" ELSE All(files).stop
<1>1. Recover(0) = [All(files) EXCEPT !.stop = IF @ = "no" /\ All(files).carry.cells # <<>>
                                              THEN "corrupted" ELSE @]
  BY RecoverFromStart
<1>2. DOMAIN All(files) = {"ids", "stop", "carry"}
  BY AllRecord DEF Knowledge
<1> QED  BY <1>1, <1>2

(* The record in progress when the process ended is acknowledged or failed,  *)
(* depending on whether recovery has found it.                               *)
LEMMA RestartRecords ==
    ASSUME Lasting, Restart
    PROVE  /\ recs' \in Seq(Record) /\ Len(recs') = Len(recs)
           /\ \A i \in 1 .. Len(recs) :
                 /\ recs'[i].lsn = recs[i].lsn /\ recs'[i].size = recs[i].size
                 /\ recs[i].fate # "pending" => recs'[i] = recs[i]
                 /\ recs[i].fate = "pending" =>
                       recs'[i].fate = IF i \in Range(Recover(0).ids) THEN "acked" ELSE "failed"
<1> DEFINE R == Range(Recover(0).ids)
           q(i) == IF recs[i].fate # "pending" THEN recs[i]
                   ELSE [recs[i] EXCEPT !.fate = IF i \in R THEN "acked" ELSE "failed"]
<1>1. recs' = [i \in DOMAIN recs |-> q(i)]
  BY DEF Restart
<1> HIDE DEF R
<1>2. recs \in Seq(Record)
  BY DEF Lasting, RecordsTyped
<1>3. DOMAIN recs = 1 .. Len(recs) /\ Len(recs) \in Nat /\ \A i \in 1 .. Len(recs) : recs[i] \in Record
  BY <1>2
<1>4. ASSUME NEW i \in 1 .. Len(recs)
      PROVE  /\ q(i) \in Record /\ q(i).lsn = recs[i].lsn /\ q(i).size = recs[i].size
             /\ recs[i].fate # "pending" => q(i) = recs[i]
             /\ recs[i].fate = "pending" => q(i).fate = IF i \in R THEN "acked" ELSE "failed"
  <2>1. recs[i] \in Record
    BY <1>3
  <2> QED  BY <2>1 DEF Record, Fates
<1> HIDE DEF q
<1>5. recs' \in [1 .. Len(recs) -> Record] /\ \A i \in 1 .. Len(recs) : recs'[i] = q(i)
  BY <1>1, <1>3, <1>4
<1>6. recs' \in Seq(Record) /\ Len(recs') = Len(recs)
  BY <1>3, <1>5
<1> QED  BY <1>4, <1>5, <1>6 DEF R

(* The files after a restart, and the one that is opened.                    *)
LEMMA RestartFiles ==
    ASSUME Lasting, Restart
    PROVE  /\ FilesTyped' /\ mode' \in {"run", "failed"}
           /\ \A m, x, id : Holds(files', m, x, id) => Holds(files, m, x, id)
<1> DEFINE segments == SegmentFiles(files, 0)
           r == Recover(0)
<1>1. /\ Directory(files) /\ active \in Nat /\ file_size \in 0 .. SegSize /\ Finished(files, recs)
      /\ SegSize \in Nat /\ 0 \in 0 .. SegSize
  BY WalAssumption DEF Lasting, FilesTyped
<1>2. segments = InOrder(NonEmpty(files)) /\ NonEmpty(files) \in SUBSET DOMAIN files
      /\ NonEmpty(files) \in SUBSET Nat /\ IsFiniteSet(NonEmpty(files))
  <2>1. NonEmpty(files) \in SUBSET DOMAIN files
    BY DEF NonEmpty
  <2> QED  BY <1>1, <2>1, FilesFromStart, Ordered
<1>3. r.carry = All(files).carry
      /\ r.stop = (IF All(files).stop = "no" /\ All(files).carry.cells # <<>>
                   THEN "corrupted" ELSE All(files).stop)
  BY <1>1, RecoveryReports
<1>4. /\ AccTyped(files, All(files))
      /\ NonEmpty(files) # {} => Located(files, All(files))
  BY <1>1, RecoveryAny
<1>5. segments # <<>> => NonEmpty(files) # {}
  BY <1>2, InOrderEmpty
<1>6. ~TooLarge(segments) => \A n \in NonEmpty(files) : Len(files[n]) <= SegSize
  <2>1. Range(segments) = NonEmpty(files)
    BY <1>2, InOrderRange
  <2>2. \A n \in NonEmpty(files) : Len(files[n]) \in Nat
    BY <1>1, <1>2 DEF Directory
  <2> QED  BY <1>1, <2>1, <2>2 DEF TooLarge
<1>7. CASE segments = <<>> /\ files' = Created(files, 0) /\ active' = 0 /\ file_size' = 0 /\ mode' = "run"
  <2>1. /\ Directory(files') /\ DOMAIN files' = DOMAIN files \cup {0} /\ files'[0] = <<>>
        /\ \A m, x, id : Holds(files', m, x, id) => Holds(files, m, x, id)
    <3> HIDE DEF segments, r
    <3> QED  BY <1>1, <1>7, CreatedFiles
  <2>2. 0 \in DOMAIN files' /\ Len(files'[0]) = 0 /\ 0 \in Nat
    BY <2>1
  <2> HIDE DEF segments, r
  <2> QED  BY <1>1, <1>7, <2>1, <2>2 DEF FilesTyped
<1>8. CASE /\ segments # <<>> /\ ~TooLarge(segments) /\ active' = Last(segments)
           /\ file_size' = Len(files[Last(segments)]) /\ mode' = "run" /\ files' = files
  <2>1. IsLast(files, Last(segments))
    BY <1>1, <1>2, <1>5, <1>8, LastExists
  <2> DEFINE l == Last(segments)
  <2>2. l \in NonEmpty(files) /\ l \in DOMAIN files /\ l \in Nat
    BY <1>2, <2>1 DEF IsLast
  <2> HIDE DEF segments, r, l
  <2>3. Len(files[l]) \in 0 .. SegSize
    <3>1. Len(files[l]) \in Nat
      BY <1>1, <2>2 DEF Directory
    <3> QED  BY <1>1, <1>6, <1>8, <2>2, <3>1
  <2>4. active' = l /\ file_size' = Len(files[l])
    BY <1>8 DEF l
  <2> QED  BY <1>1, <1>8, <2>2, <2>3, <2>4 DEF FilesTyped
<1>9. CASE /\ segments # <<>> /\ ~TooLarge(segments) /\ r.stop = "corrupted"
           /\ files' = Truncated(r.carry) /\ active' = r.carry.segment
           /\ file_size' = r.carry.at /\ mode' = "run"
  <2> HIDE DEF segments, r
  <2> DEFINE place == r.carry
  <2>1. All(files).stop # "underflow"
    BY <1>3, <1>9
  <2>2. place.segment \in NonEmpty(files) /\ place.at \in Nat /\ place.at <= Len(files[place.segment])
    BY <1>3, <1>4, <1>5, <1>9, <2>1 DEF AccTyped, Located
  <2>3. place.segment \in DOMAIN files /\ Len(files[place.segment]) <= SegSize /\ place.segment \in Nat
    BY <1>2, <1>6, <1>9, <2>2
  <2>4. Len(files[place.segment]) \in Nat
    BY <1>1, <2>3 DEF Directory
  <2>5. place.at \in 0 .. SegSize
    BY <1>1, <2>2, <2>3, <2>4
  <2>6. /\ files' = Truncated(place) /\ active' = place.segment /\ file_size' = place.at
    BY <1>9
  <2> HIDE DEF place
  <2>7. /\ Directory(Truncated(place)) /\ place.segment \in DOMAIN Truncated(place)
        /\ Len(Truncated(place)[place.segment]) = place.at
        /\ \A m, x, id : Holds(Truncated(place), m, x, id) => Holds(files, m, x, id)
    BY <1>1, <2>2, <2>3, TruncatedFiles
  <2>8. place.at <= place.at
    BY <2>2
  <2> QED  BY <1>9, <2>3, <2>5, <2>6, <2>7, <2>8 DEF FilesTyped
<1>10. CASE mode' = "failed" /\ UNCHANGED <<files, active, file_size>>
  BY <1>1, <1>10 DEF FilesTyped
<1> QED  BY <1>7, <1>8, <1>9, <1>10 DEF Restart, Created

LEMMA RestartLasting ==
    ASSUME Lasting, Restart
    PROVE  Lasting'
<1> DEFINE last == Len(recs)
<1>1. plan' = plan /\ crashes' = crashes /\ mode = "down"
  BY DEF Restart
<1>2. /\ plan = <<>> /\ recs \in Seq(Record) /\ last \in Nat /\ last <= MaxRecords
      /\ Finished(files, recs) /\ crashes \in 0 .. MaxCrashes
  BY <1>1 DEF Lasting, RecordsTyped
<1>3. /\ recs' \in Seq(Record) /\ Len(recs') = last
      /\ \A i \in 1 .. last : recs[i].fate = "acked" => recs'[i].fate = "acked"
      /\ \A i \in 1 .. last : recs'[i].fate # "pending"
  <2>1. /\ recs' \in Seq(Record) /\ Len(recs') = Len(recs)
        /\ \A i \in 1 .. Len(recs) :
              /\ recs[i].fate # "pending" => recs'[i] = recs[i]
              /\ recs[i].fate = "pending" => recs'[i].fate \in {"acked", "failed"}
    BY RestartRecords
  <2> QED  BY <1>2, <2>1
<1>4. /\ FilesTyped' /\ mode' \in {"run", "failed"}
      /\ \A m, x, id : Holds(files', m, x, id) => Holds(files, m, x, id)
  BY RestartFiles
<1>5. RecordsTyped'
  BY <1>1, <1>2, <1>3 DEF RecordsTyped
<1>6. PlanTyped'
  BY <1>1, <1>2 DEF PlanTyped, EndsRecord
<1>7. Finished(files', recs')
  BY <1>2, <1>3, <1>4, FewerCells
<1> QED  BY <1>1, <1>2, <1>4, <1>5, <1>6, <1>7 DEF Lasting

LEMMA InitLasting == Init => Lasting
<1> SUFFICES ASSUME Init PROVE Lasting
  OBVIOUS
<1>1. /\ files = [n \in {0} |-> <<>>] /\ active = 0 /\ file_size = 0 /\ plan = <<>> /\ recs = <<>>
      /\ mode = "run" /\ crashes = 0
  BY DEF Init
<1>2. DOMAIN files = {0} /\ files[0] = <<>> /\ Len(files[0]) = 0 /\ files = [n \in DOMAIN files |-> files[n]]
  BY <1>1
<1>3. IsFiniteSet({0}) /\ {0} \in SUBSET Nat /\ <<>> \in Seq(Cell)
  BY FS_Singleton
<1>4. Directory(files)
  BY <1>2, <1>3 DEF Directory
<1>5. FilesTyped
  BY <1>1, <1>2, <1>4, WalAssumption DEF FilesTyped
<1>6. RecordsTyped /\ PlanTyped
  BY <1>1, WalAssumption DEF RecordsTyped, PlanTyped, EndsRecord
<1>7. Finished(files, recs)
  BY <1>2 DEF Finished, Holds
<1> QED  BY <1>1, <1>5, <1>6, <1>7, WalAssumption DEF Lasting

LEMMA StepLasting ==
    ASSUME Lasting, [Next]_vars
    PROVE  Lasting'
<1>1. CASE \E size \in Sizes : AppendEntry(size)
  BY <1>1, AppendLasting
<1>2. CASE Write
  BY <1>2, WriteLasting
<1>3. CASE WritePanic \/ Error
  BY <1>3, FailureLasting
<1>4. CASE Rotate
  BY <1>4, RotateLasting
<1>5. CASE Crash
  BY <1>5, CrashLasting
<1>6. CASE Restart
  BY <1>6, RestartLasting
<1>7. CASE UNCHANGED vars
  BY <1>7 DEF vars, Lasting, FilesTyped, RecordsTyped, PlanTyped
<1> QED  BY <1>1, <1>2, <1>3, <1>4, <1>5, <1>6, <1>7 DEF Next

LEMMA AlwaysLasting == Spec => []Lasting
<1>1. Lasting /\ [Next]_vars => Lasting'
  BY StepLasting
<1> QED  BY <1>1, InitLasting, PTL DEF Spec

(* Whatever errors, torn writes, crashes and truncations the log has been    *)
(* through, its files hold cells of records or padding, the active segment   *)
(* is among them and not shorter than Segment::file_size says.               *)
THEOREM LogTyped == Spec => []TypeOK
<1>1. Lasting => TypeOK
  BY DEF Lasting, FilesTyped, RecordsTyped, Directory, TypeOK, Record, Fates
<1> QED  BY <1>1, AlwaysLasting, PTL

(* Whatever errors, torn writes, crashes and truncations the log has been    *)
(* through, MemTable::recover replays no record whose append has failed and  *)
(* none twice: a record is replayed only when its last cell is in the log,   *)
(* which the last system call of its append puts there, once.                *)
THEOREM NoneRevived == Spec => []NothingRevived
<1>1. ASSUME Lasting PROVE NothingRevived
  <2>1. Directory(files) /\ Finished(files, recs)
    BY <1>1 DEF Lasting, FilesTyped
  <2> DEFINE ids == Recover(0).ids
  <2>2. AccHeld(files, All(files), DOMAIN files) /\ ids = All(files).ids
    BY <2>1, RecoveryAny, RecoveryReports
  <2> HIDE DEF ids
  <2>3. ids \in Seq(1 .. MaxRecords) /\ Distinct(ids)
        /\ \A i \in 1 .. Len(ids) : \E n \in DOMAIN files : \E x : Holds(files, n, x, ids[i])
    BY <2>2 DEF AccHeld
  <2>4. DOMAIN ids = 1 .. Len(ids)
    BY <2>3
  <2>5. \A i \in DOMAIN ids : recs[ids[i]].fate = "acked"
    BY <2>1, <2>3, <2>4 DEF Finished
  <2> QED  BY <2>3, <2>4, <2>5 DEF NothingRevived, Distinct, ids
<1> QED  BY <1>1, AlwaysLasting, PTL

-----------------------------------------------------------------------------
(* The stages of an append to a sound log                                    *)

(* A log without a header at its end has been read to the end, but for       *)
(* padding that fills the segment.                                           *)
LEMMA ReadyToAppend ==
    ASSUME NEW fs, NEW rs, NEW n, SoundAt(fs, rs, n), ~Broken(fs)
    PROVE  LET c == Before(fs, n).carry.cells
               b == Buffer(fs, n)
           IN  /\ c \in Seq(Cell) /\ b \in Seq(Cell) /\ Len(b) = Len(c) + Len(fs[n]) /\ n \in Nat
               /\ Len(fs[n]) \in Nat /\ Len(c) \in Nat /\ Parse(b) \in Reading
               /\ Len(fs[n]) < SegSize => Exact(fs, n)
               /\ Len(fs[n]) < SegSize /\ c # <<>> => Len(b) > HeaderSize
<1> DEFINE B == Before(fs, n)
           b == Buffer(fs, n)
           p == Parse(b)
           c == B.carry.cells
<1>0. Len(fs[n]) \in Nat
  BY DEF SoundAt, SoundFiles, Directory
<1>1. LastKnown(fs, rs, n, B, b, p)
  BY AllOfLast
<1> HIDE DEF B, b, p
<1>2. /\ GoodAcc(rs, B, n * SegSize) /\ b \in Seq(Cell) /\ p \in Reading /\ n \in Nat
      /\ b = c \o fs[n] /\ Len(b) = Len(c) + Len(fs[n])
      /\ fs[n] = <<>> => All(fs) = B
      /\ fs[n] # <<>> => All(fs) = Scanned(B.ids, n, Len(c), b, p)
  BY <1>1 DEF LastKnown
<1>3. c \in Seq(Cell) /\ Len(c) \in Nat
  BY <1>2 DEF GoodAcc
<1>4. All(fs).carry.cells = <<>>
  BY DEF Broken
<1>5. CASE fs[n] = <<>>
  <2>1. c = <<>> /\ Len(b) = 0
    BY <1>2, <1>4, <1>5
  <2>2. p.end = "clean" /\ p.at = 0
    <3>1. Len(b) < HeaderSize
      BY <2>1, WalAssumption
    <3>2. Parse(b) = [ids |-> <<>>, end |-> "clean", at |-> 0]
      BY <1>2, <3>1, ParseShort
    <3> QED  BY <3>2 DEF p
  <2>3. Exact(fs, n)
    BY <2>1, <2>2 DEF Exact, b, p
  <2> QED  BY <1>0, <1>2, <1>3, <2>1, <2>3 DEF b, p, B
<1>6. CASE fs[n] # <<>>
  <2>1. n \in NonEmpty(fs)
    BY <1>6 DEF NonEmpty, SoundAt
  <2>2. GoodEnd(fs, n, p)
    BY <2>1 DEF SoundAt, SoundFiles, SegmentOK, b, p
  <2>3. p.end # "corrupted" /\ (c # <<>> => p.at > HeaderSize)
        /\ (p.end = "clean" => p.at = Len(b) \/ Len(fs[n]) = SegSize)
    BY <2>2 DEF GoodEnd, b, B
  <2>4. p.end # "partial"
    <3>1. SUFFICES ASSUME p.end = "partial" PROVE FALSE
      OBVIOUS
    <3>2. Len(SubSeq(b, p.at + 1, p.at + HeaderSize)) = HeaderSize
      BY <1>2, <3>1, CarryTyped DEF p
    <3>3. All(fs).carry.cells = SubSeq(b, p.at + 1, p.at + HeaderSize)
      <4>1. Scanned(B.ids, n, Len(c), b, p).carry.cells = SubSeq(b, p.at + 1, p.at + HeaderSize)
        BY <3>1 DEF Scanned
      <4> QED  BY <1>2, <1>6, <4>1
    <3>4. Len(<<>>) = HeaderSize
      BY <1>4, <3>2, <3>3
    <3> QED  BY <3>4, WalAssumption
  <2>5. p.end = "clean"
    BY <1>2, <2>3, <2>4 DEF Reading
  <2>6. Len(fs[n]) < SegSize => p.at = Len(b)
    BY <1>0, <2>3, <2>5, WalAssumption
  <2>7. Len(fs[n]) < SegSize => Exact(fs, n)
    BY <2>5, <2>6 DEF Exact, b, p
  <2> QED  BY <1>0, <1>2, <1>3, <2>3, <2>6, <2>7 DEF b, p, B
<1> QED  BY <1>5, <1>6

(* The other way round.                                                      *)
LEMMA ExactReady ==
    ASSUME NEW fs, NEW rs, NEW n, SoundAt(fs, rs, n), Exact(fs, n)
    PROVE  ~Broken(fs)
<1> DEFINE B == Before(fs, n)
           b == Buffer(fs, n)
           p == Parse(b)
           c == B.carry.cells
<1>1. LastKnown(fs, rs, n, B, b, p)
  BY AllOfLast
<1>2. p.end = "clean" /\ p.at = Len(b)
  BY DEF Exact
<1> HIDE DEF B, b, p
<1>3. /\ GoodAcc(rs, B, n * SegSize) /\ b \in Seq(Cell)
      /\ b = c \o fs[n] /\ Len(b) = Len(c) + Len(fs[n])
      /\ fs[n] = <<>> => All(fs) = B /\ p.at = 0
      /\ fs[n] # <<>> => All(fs) = Scanned(B.ids, n, Len(c), b, p)
  BY <1>1 DEF LastKnown
<1>4. c \in Seq(Cell) /\ Len(c) \in Nat
  BY <1>3 DEF GoodAcc
<1>5. CASE fs[n] = <<>>
  <2>1. Len(c) = 0
    BY <1>2, <1>3, <1>4, <1>5
  <2>2. c = <<>>
    BY <1>4, <2>1
  <2> QED  BY <1>3, <1>5, <2>2 DEF Broken
<1>6. CASE fs[n] # <<>>
  <2>1. Scanned(B.ids, n, Len(c), b, p).carry.cells = <<>>
    BY <1>2 DEF Scanned
  <2> QED  BY <1>3, <1>6, <2>1 DEF Broken
<1> QED  BY <1>5, <1>6

(* Wal::rotate leaves the log sound: it ends in a later segment now.         *)
LEMMA CreateSound ==
    ASSUME NEW fs, NEW rs, NEW n, SoundAt(fs, rs, n), NEW t \in Nat, t > n
    PROVE  LET gs == Created(fs, t) IN
           /\ SoundAt(gs, rs, t) /\ gs[t] = <<>> /\ All(gs) = All(fs)
<1> DEFINE gs == Created(fs, t)
<1>1. /\ Directory(fs) /\ n \in DOMAIN fs /\ n \in Nat /\ \A m \in DOMAIN fs : m \in Nat
      /\ \A m \in DOMAIN fs : m > n => fs[m] = <<>>
      /\ \A m \in DOMAIN fs : Len(fs[m]) <= SegSize /\ Len(fs[m]) \in Nat
      /\ \A m \in NonEmpty(fs) : SegmentOK(fs, rs, m)
      /\ GoodAcc(rs, All(fs), n * SegSize + Len(fs[n]))
  BY DEF SoundAt, SoundFiles, Directory
<1>2. /\ Directory(gs) /\ DOMAIN gs = DOMAIN fs \cup {t} /\ gs[t] = <<>>
      /\ \A m \in DOMAIN gs : m # t => m \in DOMAIN fs /\ gs[m] = fs[m]
  BY <1>1, CreatedFiles
<1> HIDE DEF gs
<1>3. NonEmpty(gs) = NonEmpty(fs) /\ \A m \in NonEmpty(fs) : gs[m] = fs[m] /\ m < t
  <2>1. \A m \in NonEmpty(fs) : m \in DOMAIN fs /\ fs[m] # <<>> /\ m <= n /\ m \in Nat
    BY <1>1 DEF NonEmpty
  <2>2. \A m \in NonEmpty(fs) : m # t /\ m < t
    BY <1>1, <2>1
  <2>3. \A m \in NonEmpty(gs) : m \in DOMAIN gs /\ gs[m] # <<>> /\ m # t
    BY <1>2 DEF NonEmpty
  <2>4. NonEmpty(gs) \subseteq NonEmpty(fs)
    BY <1>2, <2>3 DEF NonEmpty
  <2>5. NonEmpty(fs) \subseteq NonEmpty(gs)
    BY <1>2, <2>1, <2>2 DEF NonEmpty
  <2> QED  BY <1>2, <2>1, <2>2, <2>4, <2>5
<1>4. \A m : EarlierThan(gs, m) = EarlierThan(fs, m) /\ \A x \in EarlierThan(fs, m) : gs[x] = fs[x]
  BY <1>3 DEF EarlierThan
<1>5. All(gs) = All(fs)
  <2>1. Before(gs, t) = All(gs) /\ Before(fs, t) = All(fs)
    BY <1>3, BeforeIsAll
  <2>2. EarlierThan(fs, t) = EarlierThan(gs, t) /\ \A x \in EarlierThan(fs, t) : fs[x] = gs[x]
    BY <1>4
  <2>3. Before(fs, t) = Before(gs, t)
    BY <1>1, <2>2, BeforeFrame
  <2> QED  BY <2>1, <2>3
<1>6. \A m \in NonEmpty(gs) : SegmentOK(gs, rs, m)
  <2>1. ASSUME NEW m \in NonEmpty(gs) PROVE SegmentOK(gs, rs, m)
    <3>1. SegmentOK(fs, rs, m) /\ gs[m] = fs[m]
      BY <1>1, <1>3
    <3>2. Before(gs, m) = Before(fs, m)
      BY <1>1, <1>4, BeforeFrame
    <3> QED  BY <3>1, <3>2 DEF SegmentOK, GoodEnd, Buffer
  <2> QED  BY <2>1
<1>7. \A m \in DOMAIN gs : Len(gs[m]) <= SegSize /\ (m > t => gs[m] = <<>>)
  <2>1. ASSUME NEW m \in DOMAIN gs PROVE Len(gs[m]) <= SegSize /\ (m > t => gs[m] = <<>>)
    <3>1. CASE m = t
      <4>1. Len(gs[m]) = 0
        BY <1>2, <3>1
      <4> QED  BY <1>2, <3>1, <4>1, WalAssumption
    <3>2. CASE m # t
      <4>1. m \in DOMAIN fs /\ gs[m] = fs[m] /\ m \in Nat
        BY <1>1, <1>2, <3>2
      <4>2. m > t => m > n
        BY <1>1, <4>1
      <4> QED  BY <1>1, <4>1, <4>2
    <3> QED  BY <3>1, <3>2
  <2> QED  BY <2>1
<1>8. GoodAcc(rs, All(gs), t * SegSize + Len(gs[t]))
  <2>1. n * SegSize \in Nat /\ t * SegSize \in Nat /\ n * SegSize + SegSize <= t * SegSize
    BY <1>1, TimesStep, WalAssumption
  <2>2. Len(gs[t]) = 0 /\ Len(fs[n]) <= SegSize /\ Len(fs[n]) \in Nat
    BY <1>1, <1>2
  <2>3. n * SegSize + Len(fs[n]) <= t * SegSize + Len(gs[t])
    BY <2>1, <2>2, WalAssumption
  <2>4. Place(All(fs)) <= t * SegSize + Len(gs[t])
    <3>1. Place(All(fs)) \in Nat /\ Place(All(fs)) <= n * SegSize + Len(fs[n])
      BY <1>1 DEF GoodAcc
    <3> QED  BY <2>1, <2>2, <2>3, <3>1
  <2> QED  BY <1>1, <1>5, <2>4 DEF GoodAcc
<1>9. t \in DOMAIN gs
  BY <1>2
<1> QED  BY <1>2, <1>5, <1>6, <1>7, <1>8, <1>9 DEF SoundAt, SoundFiles, gs

(* The log ends in a header, behind cells that have been read to their end.  *)
HeaderLeft(fs, n, h) ==
    /\ fs[n] # <<>>
    /\ \E cut \in Seq(Cell) : /\ Buffer(fs, n) = cut \o h
                              /\ Parse(cut).end = "clean" /\ Parse(cut).at = Len(cut)
                              /\ Before(fs, n).carry.cells # <<>> => Len(cut) > HeaderSize

(* What is left of each layout, and what the calls made so far have left in  *)
(* the files fs, whose last segment is n.                                    *)
WholeLeft(p, fs, id, size) == InOne(p, id, size) /\ ~Broken(fs)

PartsLeft(p, fs, n, id, size, k, t) ==
    /\ InTwo(p, id, size, k, t) /\ ~Broken(fs)
    /\ Len(fs[n]) + HeaderSize + k = SegSize /\ HeaderSize + k < size

PadThenBody(p, fs, n, id, size, k, t) ==
    /\ p = <<WriteCall(Padding(k)), RotateCall(t), WriteCall(Body(id, size))>>
    /\ HeaderLeft(fs, n, Header(id, size)) /\ HeaderSize + k < size

TurnThenBody(p, fs, id, size, t) ==
    /\ p = <<RotateCall(t), WriteCall(Body(id, size))>>
    /\ All(fs).carry.cells = Header(id, size)

BodyLeft(p, fs, n, id, size) ==
    /\ p = <<WriteCall(Body(id, size))>> /\ fs[n] = <<>>
    /\ All(fs).carry.cells = Header(id, size)

PadThenWhole(p, fs, n, id, size, k, t) ==
    /\ InNext(p, id, size, k, t) /\ ~Broken(fs)
    /\ Len(fs[n]) + k = SegSize /\ k < HeaderSize

TurnThenWhole(p, fs, id, size, t) ==
    /\ p = <<RotateCall(t), WriteCall(Whole(id, size))>> /\ ~Broken(fs)

AtStage(p, fs, n, id, size) ==
    \/ WholeLeft(p, fs, id, size)
    \/ BodyLeft(p, fs, n, id, size)
    \/ \E k \in Nat, t \in Nat :
          /\ t > n
          /\ \/ PartsLeft(p, fs, n, id, size, k, t)
             \/ PadThenBody(p, fs, n, id, size, k, t)
             \/ TurnThenBody(p, fs, id, size, t)
             \/ PadThenWhole(p, fs, n, id, size, k, t)
             \/ TurnThenWhole(p, fs, id, size, t)

(* The invariant of a log whose appends were at worst interrupted between    *)
(* two system calls.                                                         *)
Acked(rs) == {i \in DOMAIN rs : rs[i].fate = "acked"}

SoundLog ==
    /\ SoundAt(files, recs, active) /\ file_size = Len(files[active])
    /\ All(files).ids = InOrder(Acked(recs)) /\ mode # "failed"
    /\ SequenceNumbersIncrease
    /\ plan = <<>> /\ mode = "run" => ~Broken(files)
    /\ plan # <<>> => /\ recs[Len(recs)].lsn <= next_lsn
                      /\ AtStage(plan, files, active, Len(recs), recs[Len(recs)].size)

(* Cells written behind a log that has been read to its end.                 *)
Readable(fs, rs, n, w, v) ==
    /\ w \in Seq(Cell) /\ w # <<>> /\ Len(fs[n]) + Len(w) <= SegSize
    /\ v.end # "corrupted" /\ v.ids \in Seq(1 .. Len(rs))
    /\ v.end = "clean" => v.at = Len(w) \/ Len(fs[n]) + Len(w) = SegSize
    /\ \A i \in 1 .. Len(v.ids) : rs[v.ids[i]].lsn < n * SegSize + (Len(fs[n]) + v.at)

LEMMA ExtendsRead ==
    ASSUME NEW fs, NEW rs, NEW n, SoundAt(fs, rs, n), ~Broken(fs),
           NEW w, Readable(fs, rs, n, w, Parse(w))
    PROVE  /\ Extends(fs, rs, n, w, Parse(w).ids) /\ Exact(fs, n)
           /\ Parse(Buffer(fs, n) \o w) = Behind(Parse(Buffer(fs, n)).ids, Len(Buffer(fs, n)), Parse(w))
           /\ Buffer(fs, n) \in Seq(Cell)
           /\ Before(fs, n).carry.cells # <<>> => Len(Buffer(fs, n)) > HeaderSize
<1> DEFINE c == Before(fs, n).carry.cells
           b == Buffer(fs, n)
           p == Parse(b)
           v == Parse(w)
           q == Parse(b \o w)
<1>0. w \in Seq(Cell) /\ w # <<>> /\ Len(fs[n]) + Len(w) <= SegSize
  BY DEF Readable
<1>1. Len(w) \in Nat /\ Len(w) > 0
  BY <1>0
<1>2. /\ c \in Seq(Cell) /\ b \in Seq(Cell) /\ Len(b) = Len(c) + Len(fs[n]) /\ n \in Nat
      /\ Len(fs[n]) \in Nat /\ Len(c) \in Nat
      /\ Len(fs[n]) < SegSize => Exact(fs, n)
      /\ Len(fs[n]) < SegSize /\ c # <<>> => Len(b) > HeaderSize
  BY ReadyToAppend
<1>3. Len(fs[n]) < SegSize
  BY <1>0, <1>1, <1>2, WalAssumption
<1>4. p.end = "clean" /\ p.at = Len(b) /\ Exact(fs, n)
  BY <1>2, <1>3 DEF Exact
<1>5. v \in Reading
  BY <1>0, ParseEnds DEF ReadsFrom
<1> HIDE DEF c, b
<1>6. q = Behind(p.ids, Len(b), v)
  BY <1>0, <1>2, <1>4, ParseCat
<1> HIDE DEF p, v, q
<1>7. /\ q.end = v.end /\ q.ids = p.ids \o v.ids /\ q.at = Len(b) + v.at /\ v.at \in Nat /\ Len(b) \in Nat
  BY <1>2, <1>5, <1>6, SMTT(20) DEF Behind, Reading
<1>8. b \o w \in Seq(Cell) /\ Len(b \o w) = Len(b) + Len(w)
  BY <1>0, <1>2, SMTT(20)
<1>9. q.at >= p.at /\ (c # <<>> => q.at > HeaderSize) /\ q.at - Len(c) = Len(fs[n]) + v.at
  BY <1>2, <1>3, <1>4, <1>7, WalAssumption
<1>10. v.end # "corrupted" /\ v.ids \in Seq(1 .. Len(rs))
       /\ (v.end = "clean" => v.at = Len(w) \/ Len(fs[n]) + Len(w) = SegSize)
       /\ \A i \in 1 .. Len(v.ids) : rs[v.ids[i]].lsn < n * SegSize + (Len(fs[n]) + v.at)
  BY DEF v, Readable
<1>11. q.end = "clean" => q.at = Len(b \o w) \/ Len(fs[n]) + Len(w) = SegSize
  BY <1>1, <1>7, <1>8, <1>10
<1>12. \A i \in 1 .. Len(v.ids) : rs[v.ids[i]].lsn < n * SegSize + (q.at - Len(c))
  BY <1>9, <1>10
<1>13. Extends(fs, rs, n, w, v.ids)
  BY <1>0, <1>7, <1>9, <1>10, <1>11, <1>12 DEF Extends, b, c, q, p
<1>14. c # <<>> => Len(b) > HeaderSize
  BY <1>2, <1>3
<1> QED  BY <1>2, <1>4, <1>6, <1>13, <1>14 DEF b, c, p, q, v

(* The log gs is sound, and recovery reads the records new more from it.     *)
Follows(fs, gs, rs, n, new) ==
    SoundAt(gs, rs, n) /\ All(gs).ids = All(fs).ids \o new

(* The record whose parts are written is the one with number id, and its     *)
(* sequence number is that of a place which the log has reached.             *)
Writing(fs, rs, n, id, size) ==
    /\ rs \in Seq(Record) /\ SoundAt(fs, rs, n) /\ size \in Sizes
    /\ id \in 1 .. MaxRecords /\ id \in 1 .. Len(rs)
    /\ rs[id].lsn <= n * SegSize + Len(fs[n])

LEMMA WritingTyped ==
    ASSUME NEW fs, NEW rs, NEW n, NEW id, NEW size, Writing(fs, rs, n, id, size)
    PROVE  /\ rs[id].lsn \in Nat /\ n * SegSize \in Nat /\ n \in Nat /\ Len(fs[n]) \in Nat
           /\ fs[n] \in Seq(Cell) /\ HeaderSize \in Nat /\ SegSize \in Nat /\ HeaderSize > 0
           /\ size \in Nat /\ size > HeaderSize /\ n \in DOMAIN fs /\ Directory(fs)
           /\ Len(rs) \in Nat
<1>1. rs[id] \in Record /\ Len(rs) \in Nat
  BY DEF Writing
<1>2. /\ n \in DOMAIN fs /\ n \in Nat /\ fs[n] \in Seq(Cell) /\ Directory(fs)
  BY DEF Writing, SoundAt, SoundFiles, Directory
<1>3. HeaderSize \in Nat /\ SegSize \in Nat /\ HeaderSize > 0 /\ size \in Nat /\ size > HeaderSize
  BY WalAssumption DEF Writing
<1>4. n * SegSize \in Nat
  BY <1>2, <1>3
<1> QED  BY <1>1, <1>2, <1>3, <1>4 DEF Record

(* A record that fits is written in one call.                                *)
LEMMA WholeWritten ==
    ASSUME NEW fs, NEW rs, NEW n, NEW id, NEW size, Writing(fs, rs, n, id, size),
           ~Broken(fs), Len(fs[n]) + size <= SegSize
    PROVE  LET gs == Written(fs, n, Whole(id, size)) IN
           Follows(fs, gs, rs, n, <<id>>) /\ ~Broken(gs)
<1> DEFINE w == Whole(id, size)
           gs == Written(fs, n, w)
<1>1. /\ rs \in Seq(Record) /\ SoundAt(fs, rs, n) /\ size \in Sizes /\ id \in 1 .. MaxRecords
      /\ id \in 1 .. Len(rs) /\ rs[id].lsn <= n * SegSize + Len(fs[n])
  BY DEF Writing
<1>2. /\ rs[id].lsn \in Nat /\ n * SegSize \in Nat /\ Len(fs[n]) \in Nat
      /\ size \in Nat /\ size > HeaderSize /\ HeaderSize \in Nat
  BY WritingTyped
<1>3. w \in Seq(Cell) /\ Len(w) = size
  BY <1>1, PartsWritten
<1>4. Parse(w) = [ids |-> <<id>>, end |-> "clean", at |-> size]
  BY <1>1, ParseWhole DEF Whole
<1> HIDE DEF w
<1>5. /\ Parse(w).ids = <<id>> /\ Parse(w).end = "clean" /\ Parse(w).at = Len(w) /\ w # <<>>
      /\ Parse(w).ids \in Seq(1 .. Len(rs))
  BY <1>1, <1>2, <1>3, <1>4
<1>6. \A i \in 1 .. Len(Parse(w).ids) :
         rs[Parse(w).ids[i]].lsn < n * SegSize + (Len(fs[n]) + Parse(w).at)
  <2>1. rs[id].lsn < n * SegSize + (Len(fs[n]) + size)
    BY <1>1, <1>2
  <2>2. \A i \in 1 .. Len(<<id>>) : <<id>>[i] = id
    OBVIOUS
  <2> QED  BY <1>3, <1>5, <2>1, <2>2
<1>7. /\ Extends(fs, rs, n, w, <<id>>) /\ Exact(fs, n) /\ Buffer(fs, n) \in Seq(Cell)
      /\ Parse(Buffer(fs, n) \o w) = Behind(Parse(Buffer(fs, n)).ids, Len(Buffer(fs, n)), Parse(w))
  <2>1. Readable(fs, rs, n, w, Parse(w))
    BY <1>3, <1>5, <1>6 DEF Readable
  <2>2. Extends(fs, rs, n, w, Parse(w).ids) /\ Exact(fs, n) /\ Buffer(fs, n) \in Seq(Cell)
    BY <1>1, <2>1, ExtendsRead
  <2>3. Parse(Buffer(fs, n) \o w) = Behind(Parse(Buffer(fs, n)).ids, Len(Buffer(fs, n)), Parse(w))
    BY <1>1, <2>1, ExtendsRead
  <2>4. Parse(w).ids = <<id>>
    BY <1>5, Zenon
  <2> QED  BY <2>2, <2>3, <2>4, Zenon
<1>8. /\ SoundAt(gs, rs, n) /\ All(gs).ids = All(fs).ids \o <<id>> /\ Buffer(gs, n) = Buffer(fs, n) \o w
  <2>1. rs \in Seq(Record) /\ SoundAt(fs, rs, n) /\ Extends(fs, rs, n, w, <<id>>)
    BY <1>1, <1>7
  <2>2. Extended(fs, Written(fs, n, w), rs, n, Buffer(fs, n) \o w, w, <<id>>)
    BY <2>1, WriteSound
  <2> QED  BY <2>2 DEF Extended
<1> HIDE DEF gs
<1>9. Exact(gs, n)
  <2>1. Len(Buffer(fs, n) \o w) = Len(Buffer(fs, n)) + Len(w)
    <3>1. Buffer(fs, n) \in Seq(Cell) /\ w \in Seq(Cell)
      BY <1>3, <1>7, Zenon
    <3> QED  BY <3>1, ConcatProperties
  <2>2. Behind(Parse(Buffer(fs, n)).ids, Len(Buffer(fs, n)), Parse(w)).end = "clean"
        /\ Behind(Parse(Buffer(fs, n)).ids, Len(Buffer(fs, n)), Parse(w)).at = Len(Buffer(fs, n)) + Len(w)
    BY <1>5 DEF Behind
  <2> QED  BY <1>7, <1>8, <2>1, <2>2 DEF Exact
<1> QED  BY <1>8, <1>9, ExactReady DEF Follows, gs, w

(* The header of a record that does not fit.                                 *)
LEMMA HeaderWritten ==
    ASSUME NEW fs, NEW rs, NEW n, NEW id, NEW size, Writing(fs, rs, n, id, size),
           ~Broken(fs), Len(fs[n]) + HeaderSize <= SegSize
    PROVE  LET gs == Written(fs, n, Header(id, size)) IN
           Follows(fs, gs, rs, n, <<>>) /\ HeaderLeft(gs, n, Header(id, size))
<1> DEFINE w == Header(id, size)
           gs == Written(fs, n, w)
<1>1. /\ rs \in Seq(Record) /\ SoundAt(fs, rs, n) /\ size \in Sizes /\ id \in 1 .. MaxRecords
  BY DEF Writing
<1>2. /\ n * SegSize \in Nat /\ Len(fs[n]) \in Nat /\ fs[n] \in Seq(Cell)
      /\ size \in Nat /\ size > HeaderSize /\ HeaderSize \in Nat /\ HeaderSize > 0
  BY WritingTyped
<1>3. w \in Seq(Cell) /\ Len(w) = HeaderSize /\ w[1] = [id |-> id, size |-> size, pos |-> 1]
  <2>1. 1 \in 1 .. HeaderSize
    BY <1>2
  <2> QED  BY <1>1, <2>1, PartsWritten
<1> HIDE DEF w
<1>4. Parse(w) = [ids |-> <<>>, end |-> "partial", at |-> 0]
  <2>1. HeaderSize <= Len(w) /\ w[1].pos = 1 /\ w[1].size > Len(w)
    BY <1>2, <1>3
  <2> QED  BY <1>3, <2>1, ParseHeader
<1>5. /\ Parse(w).ids = <<>> /\ Parse(w).end = "partial" /\ w # <<>>
      /\ Parse(w).ids \in Seq(1 .. Len(rs)) /\ Len(Parse(w).ids) = 0
  BY <1>2, <1>3, <1>4
<1>6. /\ Extends(fs, rs, n, w, <<>>) /\ Exact(fs, n) /\ Buffer(fs, n) \in Seq(Cell)
      /\ Before(fs, n).carry.cells # <<>> => Len(Buffer(fs, n)) > HeaderSize
  <2>1. Readable(fs, rs, n, w, Parse(w))
    BY <1>3, <1>5 DEF Readable
  <2> QED  BY <1>1, <1>5, <2>1, ExtendsRead
<1>7. /\ SoundAt(gs, rs, n) /\ All(gs).ids = All(fs).ids \o <<>> /\ Buffer(gs, n) = Buffer(fs, n) \o w
      /\ Before(gs, n) = Before(fs, n) /\ gs[n] = fs[n] \o w
  <2>1. rs \in Seq(Record) /\ SoundAt(fs, rs, n) /\ Extends(fs, rs, n, w, <<>>)
    BY <1>1, <1>6
  <2>2. Extended(fs, Written(fs, n, w), rs, n, Buffer(fs, n) \o w, w, <<>>)
    BY <2>1, WriteSound
  <2> QED  BY <2>2 DEF Extended
<1>8. gs[n] # <<>>
  <2>1. Len(fs[n] \o w) = Len(fs[n]) + Len(w)
    <3>1. fs[n] \in Seq(Cell) /\ w \in Seq(Cell)
      BY <1>2, <1>3, Zenon
    <3> QED  BY <3>1, ConcatProperties
  <2>2. Len(gs[n]) # 0
    BY <1>2, <1>3, <1>7, <2>1
  <2> QED  BY <2>2
<1> HIDE DEF gs
<1>9. HeaderLeft(gs, n, w)
  BY <1>6, <1>7, <1>8 DEF HeaderLeft, Exact
<1> QED  BY <1>7, <1>9 DEF Follows, gs, w

(* Nothing is written by an empty padding.                                   *)
LEMMA EmptyWrite ==
    ASSUME NEW fs, Directory(fs), NEW n \in DOMAIN fs
    PROVE  Written(fs, n, Padding(0)) = fs
<1>1. Padding(0) = <<>>
  BY DEF Padding
<1>2. fs[n] \o Padding(0) = fs[n]
  <2>1. fs[n] \in Seq(Cell)
    BY DEF Directory
  <2> QED  BY <1>1, <2>1, EmptyCat
<1>3. With(fs, n, fs[n]) = fs
  BY DEF With, Directory
<1> QED  BY <1>2, <1>3 DEF Written

(* A header and padding that is shorter than its body.                       *)
LEMMA HeaderPadded ==
    ASSUME NEW id \in 1 .. MaxRecords, NEW size \in Sizes, NEW k \in Nat, HeaderSize + k < size
    PROVE  LET w == Header(id, size) \o Padding(k) IN
           /\ w \in Seq(Cell) /\ Len(w) = HeaderSize + k
           /\ Parse(w) = [ids |-> <<>>, end |-> "partial", at |-> 0]
           /\ \A i \in 1 .. HeaderSize : w[i] = Header(id, size)[i]
<1> DEFINE h == Header(id, size)
           d == Padding(k)
           w == h \o d
<1>1. /\ h \in Seq(Cell) /\ Len(h) = HeaderSize /\ HeaderSize \in Nat /\ HeaderSize > 0 /\ size \in Nat
      /\ h[1] = [id |-> id, size |-> size, pos |-> 1]
  BY PartsWritten
<1>2. d \in Seq(Cell) /\ Len(d) = k
  BY PaddingWritten
<1> HIDE DEF h, d
<1>3. w \in Seq(Cell) /\ Len(w) = HeaderSize + k /\ \A i \in 1 .. HeaderSize : w[i] = h[i]
  BY <1>1, <1>2
<1>4. HeaderSize <= Len(w) /\ w[1].pos = 1 /\ w[1].size > Len(w)
  <2>1. w[1] = h[1] /\ h[1].pos = 1 /\ h[1].size = size
    BY <1>1, <1>3
  <2> HIDE DEF w
  <2> QED  BY <1>1, <1>3, <2>1
<1> HIDE DEF w
<1>5. Parse(w) = [ids |-> <<>>, end |-> "partial", at |-> 0]
  BY <1>3, <1>4, ParseHeader
<1> QED  BY <1>3, <1>5 DEF w, h, d

(* What a header at the end of a log is for recovery, padded or not.          *)
LEMMA HeaderRead ==
    ASSUME NEW cut \in Seq(Cell), Parse(cut).end = "clean", Parse(cut).at = Len(cut),
           NEW id \in 1 .. MaxRecords, NEW size \in Sizes, NEW k \in Nat, HeaderSize + k < size
    PROVE  LET h == Header(id, size)
               b == (cut \o h) \o Padding(k)
           IN  /\ b \in Seq(Cell)
               /\ Parse(b) = [ids |-> Parse(cut).ids, end |-> "partial", at |-> Len(cut)]
               /\ SubSeq(b, Len(cut) + 1, Len(cut) + HeaderSize) = h
<1> DEFINE h == Header(id, size)
           d == Padding(k)
           w == h \o d
           b == (cut \o h) \o d
           s == SubSeq(b, Len(cut) + 1, Len(cut) + HeaderSize)
<1>1. h \in Seq(Cell) /\ Len(h) = HeaderSize /\ HeaderSize \in Nat
  BY PartsWritten
<1>2. d \in Seq(Cell) /\ Len(d) = k
  BY PaddingWritten
<1>3. /\ w \in Seq(Cell) /\ Len(w) = HeaderSize + k
      /\ Parse(w) = [ids |-> <<>>, end |-> "partial", at |-> 0]
      /\ \A i \in 1 .. HeaderSize : w[i] = h[i]
  BY HeaderPadded
<1> HIDE DEF h, d
<1>4. b = cut \o w
  BY <1>1, <1>2, SMTT(20)
<1> HIDE DEF w, b
<1>5. b \in Seq(Cell) /\ Len(b) = Len(cut) + (HeaderSize + k) /\ Len(cut) \in Nat
      /\ \A i \in 1 .. HeaderSize : b[Len(cut) + i] = w[i]
  <2>1. Len(cut) \in Nat /\ Len(w) \in Nat /\ cut \o w \in Seq(Cell)
        /\ Len(cut \o w) = Len(cut) + Len(w)
    BY <1>3
  <2>2. ASSUME NEW i \in 1 .. HeaderSize PROVE (cut \o w)[Len(cut) + i] = w[i]
    <3>1. i \in 1 .. Len(w) /\ Len(cut) + i \in 1 .. Len(cut) + Len(w) /\ ~(Len(cut) + i <= Len(cut))
          /\ (Len(cut) + i) - Len(cut) = i
      BY <1>1, <1>3, <2>1
    <3> QED  BY <1>3, <2>1, <3>1
  <2> QED  BY <1>3, <1>4, <2>1, <2>2
<1>6. Parse(b) = Behind(Parse(cut).ids, Len(cut), Parse(w))
  BY <1>3, <1>4, ParseCat
<1>7. Parse(cut).ids \in Seq(1 .. MaxRecords)
  BY ParseEnds DEF ReadsFrom, Reading
<1>8. Parse(b) = [ids |-> Parse(cut).ids, end |-> "partial", at |-> Len(cut)]
  <2>1. Parse(cut).ids \o <<>> = Parse(cut).ids /\ Len(cut) + 0 = Len(cut)
    BY <1>5, <1>7, EmptyCat
  <2> QED  BY <1>3, <1>6, <2>1 DEF Behind
<1>9. s = h
  <2>1. /\ s \in Seq(Cell) /\ Len(s) = HeaderSize
        /\ \A i \in 1 .. HeaderSize : s[i] = b[Len(cut) + i]
    BY <1>1, <1>5
  <2> HIDE DEF s
  <2>2. \A i \in 1 .. HeaderSize : s[i] = h[i]
    BY <1>3, <1>5, <2>1
  <2> QED  BY <1>1, <2>1, <2>2, SeqEqual
<1> QED  BY <1>5, <1>8, <1>9 DEF b, h, d, s

(* Padding behind a header that has been left at the end of the segment.     *)
LEMMA PaddingBehindHeader ==
    ASSUME NEW fs, NEW rs, NEW n, NEW id, NEW size, Writing(fs, rs, n, id, size),
           NEW k \in Nat, HeaderLeft(fs, n, Header(id, size)), HeaderSize + k < size,
           Len(fs[n]) + k <= SegSize
    PROVE  LET gs == Written(fs, n, Padding(k)) IN
           Follows(fs, gs, rs, n, <<>>) /\ All(gs).carry.cells = Header(id, size)
<1> DEFINE h == Header(id, size)
           d == Padding(k)
           gs == Written(fs, n, d)
           B == Before(fs, n)
           c == B.carry.cells
           b == Buffer(fs, n)
           p == Parse(b)
           q == Parse(b \o d)
<1>1. /\ rs \in Seq(Record) /\ SoundAt(fs, rs, n) /\ size \in Sizes /\ id \in 1 .. MaxRecords
  BY DEF Writing
<1>2. /\ n * SegSize \in Nat /\ Len(fs[n]) \in Nat /\ fs[n] \in Seq(Cell) /\ n \in DOMAIN fs
      /\ size \in Nat /\ HeaderSize \in Nat /\ HeaderSize > 0 /\ Directory(fs)
  BY WritingTyped
<1>3. d \in Seq(Cell) /\ Len(d) = k
  BY PaddingWritten
<1>4. PICK cut \in Seq(Cell) : /\ b = cut \o h /\ Parse(cut).end = "clean" /\ Parse(cut).at = Len(cut)
                               /\ c # <<>> => Len(cut) > HeaderSize
  BY DEF HeaderLeft
<1>5. fs[n] # <<>>
  BY DEF HeaderLeft
<1>6. LastKnown(fs, rs, n, B, b, p)
  BY <1>1, AllOfLast
<1> HIDE DEF B, b, p
<1>7. /\ GoodAcc(rs, B, n * SegSize) /\ b \in Seq(Cell) /\ All(fs) = Scanned(B.ids, n, Len(c), b, p)
      /\ All(fs).ids = B.ids \o p.ids
  BY <1>5, <1>6 DEF LastKnown
<1>8. \A j \in {0, k} :
         /\ b \o Padding(j) \in Seq(Cell)
         /\ Parse(b \o Padding(j)) = [ids |-> Parse(cut).ids, end |-> "partial", at |-> Len(cut)]
         /\ SubSeq(b \o Padding(j), Len(cut) + 1, Len(cut) + HeaderSize) = h
  <2>1. ASSUME NEW j \in {0, k}
        PROVE  /\ b \o Padding(j) \in Seq(Cell)
               /\ Parse(b \o Padding(j)) = [ids |-> Parse(cut).ids, end |-> "partial", at |-> Len(cut)]
               /\ SubSeq(b \o Padding(j), Len(cut) + 1, Len(cut) + HeaderSize) = h
    <3>1. j \in Nat /\ HeaderSize + j < size
      BY <1>2
    <3> HIDE DEF d, gs, q
    <3> QED  BY <1>1, <1>4, <3>1, HeaderRead
  <2> QED  BY <2>1
<1>9. p = [ids |-> Parse(cut).ids, end |-> "partial", at |-> Len(cut)]
      /\ SubSeq(b, Len(cut) + 1, Len(cut) + HeaderSize) = h
  <2>1. b \o Padding(0) = b
    <3>1. Padding(0) = <<>>
      BY DEF Padding
    <3> QED  BY <1>7, <3>1, EmptyCat
  <2> QED  BY <1>8, <2>1 DEF p
<1>10. CASE k = 0
  <2>1. gs = fs
    BY <1>2, <1>10, EmptyWrite
  <2>2. Scanned(B.ids, n, Len(c), b, p).carry.cells = h
    BY <1>9 DEF Scanned
  <2>3. All(fs).ids \o <<>> = All(fs).ids
    <3>1. All(fs).ids \in Seq(1 .. Len(rs))
      BY <1>1 DEF SoundAt, GoodAcc
    <3> QED  BY <3>1, EmptyCat
  <2> QED  BY <1>1, <1>7, <2>1, <2>2, <2>3 DEF Follows
<1>11. CASE k # 0
  <2>1. q = [ids |-> Parse(cut).ids, end |-> "partial", at |-> Len(cut)]
        /\ SubSeq(b \o d, Len(cut) + 1, Len(cut) + HeaderSize) = h
    BY <1>8
  <2>2. q.end = "partial" /\ q.at = p.at /\ q.ids = p.ids /\ p.at = Len(cut) /\ p.at \in Nat
    BY <1>9, <2>1
  <2>3. p.ids \in Seq(1 .. MaxRecords)
    BY <1>7, ParseEnds DEF ReadsFrom, Reading, p
  <2>4. p.ids \o <<>> = p.ids
    BY <2>3, EmptyCat
  <2>5. d # <<>>
    BY <1>3, <1>11
  <2> HIDE DEF d, q
  <2>6. /\ q.end # "corrupted" /\ (c # <<>> => q.at > HeaderSize) /\ q.end # "clean"
        /\ q.ids = p.ids \o <<>> /\ q.at >= p.at /\ Len(fs[n]) + Len(d) <= SegSize
    BY <1>3, <1>4, <2>2, <2>4
  <2>7. Extends(fs, rs, n, d, <<>>)
    BY <1>3, <2>5, <2>6 DEF Extends, b, p, q, B
  <2>8. Extended(fs, gs, rs, n, b \o d, d, <<>>)
    BY <1>1, <2>7, WriteSound DEF b
  <2>9. /\ SoundAt(gs, rs, n) /\ All(gs).ids = All(fs).ids \o <<>>
        /\ All(gs) = Scanned(B.ids, n, Len(c), b \o d, q)
    BY <2>8 DEF Extended, q, B
  <2>10. Scanned(B.ids, n, Len(c), b \o d, q).carry.cells = h
    BY <2>1, <2>2 DEF Scanned
  <2> QED  BY <2>9, <2>10 DEF Follows, d
<1> QED  BY <1>10, <1>11

(* Padding behind a log that has been read to its end.                       *)
LEMMA PaddingWhole ==
    ASSUME NEW fs, NEW rs \in Seq(Record), NEW n, SoundAt(fs, rs, n), ~Broken(fs),
           NEW k \in Nat, Len(fs[n]) + k = SegSize, k < HeaderSize
    PROVE  LET gs == Written(fs, n, Padding(k)) IN
           Follows(fs, gs, rs, n, <<>>) /\ ~Broken(gs)
<1> DEFINE d == Padding(k)
           gs == Written(fs, n, d)
<1>1. n \in DOMAIN fs /\ Directory(fs) /\ All(fs).ids \in Seq(1 .. Len(rs))
  BY DEF SoundAt, SoundFiles, GoodAcc
<1>2. d \in Seq(Cell) /\ Len(d) = k
  BY PaddingWritten
<1>3. CASE k = 0
  <2>1. gs = fs
    BY <1>1, <1>3, EmptyWrite
  <2>2. All(fs).ids \o <<>> = All(fs).ids
    BY <1>1, EmptyCat
  <2> QED  BY <2>1, <2>2 DEF Follows
<1>4. CASE k # 0
  <2>1. Parse(d) = [ids |-> <<>>, end |-> "clean", at |-> 0]
    BY <1>2, ParseShort
  <2>2. d # <<>>
    BY <1>2, <1>4
  <2> HIDE DEF d
  <2>3. /\ Parse(d).ids = <<>> /\ Parse(d).end = "clean" /\ Len(Parse(d).ids) = 0
        /\ Parse(d).ids \in Seq(1 .. Len(rs))
    BY <2>1
  <2>4. Readable(fs, rs, n, d, Parse(d))
    <3>1. Len(fs[n]) + Len(d) = SegSize /\ Len(fs[n]) + Len(d) <= SegSize
      BY <1>2, WalAssumption
    <3> QED  BY <1>2, <2>2, <2>3, <3>1 DEF Readable
  <2>5. /\ Extends(fs, rs, n, d, <<>>) /\ Buffer(fs, n) \in Seq(Cell)
        /\ Parse(Buffer(fs, n) \o d) = Behind(Parse(Buffer(fs, n)).ids, Len(Buffer(fs, n)), Parse(d))
    BY <2>3, <2>4, ExtendsRead
  <2>6. Extended(fs, gs, rs, n, Buffer(fs, n) \o d, d, <<>>)
    <3>1. Extends(fs, rs, n, d, <<>>)
      BY <2>5
    <3> QED  BY <3>1, WriteSound
  <2> HIDE DEF gs
  <2> DEFINE B == Before(fs, n)
             b == Buffer(fs, n) \o d
  <2>7. /\ SoundAt(gs, rs, n) /\ All(gs).ids = All(fs).ids \o <<>>
        /\ All(gs) = Scanned(B.ids, n, Len(B.carry.cells), b, Parse(b))
    BY <2>6 DEF Extended
  <2>8. Parse(b).end = "clean"
    BY <2>3, <2>5 DEF Behind
  <2> HIDE DEF B, b
  <2>9. Scanned(B.ids, n, Len(B.carry.cells), b, Parse(b)).carry.cells = <<>>
    BY <2>8 DEF Scanned
  <2> QED  BY <2>7, <2>9 DEF Follows, Broken, gs, d
<1> QED  BY <1>3, <1>4

(* The body behind a header that ended the segment before.                   *)
LEMMA BodyWritten ==
    ASSUME NEW fs, NEW rs, NEW n, NEW id, NEW size, Writing(fs, rs, n, id, size),
           fs[n] = <<>>, All(fs).carry.cells = Header(id, size), size - HeaderSize <= SegSize
    PROVE  LET gs == Written(fs, n, Body(id, size)) IN
           Follows(fs, gs, rs, n, <<id>>) /\ ~Broken(gs)
<1> DEFINE w == Body(id, size)
           h == Header(id, size)
           gs == Written(fs, n, w)
           B == Before(fs, n)
           b == Buffer(fs, n)
           p == Parse(b)
           q == Parse(b \o w)
<1>1. /\ rs \in Seq(Record) /\ SoundAt(fs, rs, n) /\ size \in Sizes /\ id \in 1 .. MaxRecords
      /\ id \in 1 .. Len(rs) /\ rs[id].lsn <= n * SegSize + Len(fs[n])
  BY DEF Writing
<1>2. /\ n * SegSize \in Nat /\ Len(fs[n]) = 0 /\ rs[id].lsn \in Nat /\ SegSize \in Nat
      /\ size \in Nat /\ size > HeaderSize /\ HeaderSize \in Nat /\ HeaderSize > 0
  BY WritingTyped
<1>3. LastKnown(fs, rs, n, B, b, p)
  BY <1>1, AllOfLast
<1>4. /\ w \in Seq(Cell) /\ Len(w) = size - HeaderSize /\ h \in Seq(Cell) /\ Len(h) = HeaderSize
  BY <1>1, PartsWritten
<1>5. h \o w = Whole(id, size)
  <2>1. Whole(id, size) \in Seq(Cell) /\ Len(Whole(id, size)) = size
    BY <1>1, PartsWritten
  <2>2. h \o w \in Seq(Cell) /\ Len(h \o w) = size
    BY <1>2, <1>4
  <2>3. ASSUME NEW i \in 1 .. size PROVE (h \o w)[i] = Whole(id, size)[i]
    <3>1. Whole(id, size)[i] = [id |-> id, size |-> size, pos |-> i]
      BY <1>1, PartsWritten
    <3>2. CASE i <= HeaderSize
      <4>1. i \in 1 .. HeaderSize
        BY <1>2, <3>2
      <4>2. h[i] = [id |-> id, size |-> size, pos |-> i]
        BY <1>1, <4>1, PartsWritten
      <4> HIDE DEF h, w
      <4>3. (h \o w)[i] = h[i]
        BY <1>2, <1>4, <4>1
      <4> QED  BY <3>1, <4>2, <4>3
    <3>3. CASE ~(i <= HeaderSize)
      <4>1. i - HeaderSize \in 1 .. size - HeaderSize /\ HeaderSize + (i - HeaderSize) = i
        BY <1>2, <3>3
      <4>2. w[i - HeaderSize] = [id |-> id, size |-> size, pos |-> HeaderSize + (i - HeaderSize)]
        BY <1>1, <4>1, PartsWritten
      <4> HIDE DEF h, w
      <4>3. (h \o w)[i] = w[i - HeaderSize]
        BY <1>2, <1>4, <3>3, <4>1
      <4> QED  BY <3>1, <4>1, <4>2, <4>3
    <3> QED  BY <3>2, <3>3
  <2> HIDE DEF h, w
  <2> QED  BY <2>1, <2>2, <2>3, SeqEqual
<1> HIDE DEF B, b, p
<1>6. /\ b = B.carry.cells \o fs[n] /\ All(fs) = B /\ p.at = 0 /\ p.ids = <<>>
  BY <1>3 DEF LastKnown
<1> HIDE DEF w, h
<1>7. B.carry.cells = h /\ b = h
  <2>1. B.carry.cells = h
    BY <1>6 DEF h
  <2>2. h \o fs[n] = h
    BY <1>4, EmptyCat
  <2> QED  BY <1>6, <2>1, <2>2
<1>8. Parse(Whole(id, size)) = [ids |-> <<id>>, end |-> "clean", at |-> size]
  BY <1>1, ParseWhole DEF Whole
<1>9. q.ids = <<id>> /\ q.end = "clean" /\ q.at = size
  <2>1. q = Parse(Whole(id, size))
    BY <1>5, <1>7
  <2> HIDE DEF q
  <2> QED  BY <1>8, <2>1
<1> HIDE DEF q
<1>10. Extends(fs, rs, n, w, <<id>>)
  <2>1. w # <<>> /\ Len(fs[n]) + Len(w) <= SegSize /\ Len(b \o w) = size
    BY <1>2, <1>4, <1>7
  <2>2. q.ids = p.ids \o <<id>>
    <3>1. <<id>> \in Seq(1 .. Len(rs))
      BY <1>1
    <3> QED  BY <1>6, <1>9, <3>1, EmptyCat
  <2>3. q.at >= p.at /\ q.at > HeaderSize /\ q.end # "corrupted" /\ q.at = Len(b \o w)
    BY <1>2, <1>6, <1>9, <2>1
  <2>4. \A i \in 1 .. Len(<<id>>) : rs[<<id>>[i]].lsn < n * SegSize + (q.at - Len(B.carry.cells))
    <3>1. rs[id].lsn < n * SegSize + (size - HeaderSize)
      BY <1>1, <1>2
    <3>2. \A i \in 1 .. Len(<<id>>) : <<id>>[i] = id
      OBVIOUS
    <3> QED  BY <1>4, <1>7, <1>9, <3>1, <3>2
  <2>5. <<id>> \in Seq(1 .. Len(rs))
    BY <1>1
  <2> QED  BY <1>4, <2>1, <2>2, <2>3, <2>4, <2>5 DEF Extends, b, p, q, B
<1>11. Extended(fs, gs, rs, n, b \o w, w, <<id>>)
  BY <1>1, <1>10, WriteSound DEF b
<1>12. /\ SoundAt(gs, rs, n) /\ All(gs).ids = All(fs).ids \o <<id>>
       /\ All(gs) = Scanned(B.ids, n, Len(B.carry.cells), b \o w, q)
  BY <1>11 DEF Extended, q, B
<1>13. Scanned(B.ids, n, Len(B.carry.cells), b \o w, q).carry.cells = <<>>
  BY <1>9 DEF Scanned
<1> QED  BY <1>12, <1>13 DEF Follows, Broken, w

(* The first of the calls that are left, and the others.                     *)
LEMMA PlanParts ==
    /\ \A a : Head(<<a>>) = a /\ Tail(<<a>>) = <<>> /\ Len(<<a>>) = 1
    /\ \A a, b : Head(<<a, b>>) = a /\ Tail(<<a, b>>) = <<b>> /\ Len(<<a, b>>) = 2
    /\ \A a, b, c : Head(<<a, b, c>>) = a /\ Tail(<<a, b, c>>) = <<b, c>> /\ Len(<<a, b, c>>) = 3
    /\ \A a, b, c, d : /\ Head(<<a, b, c, d>>) = a /\ Tail(<<a, b, c, d>>) = <<b, c, d>>
                       /\ Len(<<a, b, c, d>>) = 4
OBVIOUS

(* A write of the append takes the log to the next stage; the last one       *)
(* completes the record.                                                     *)
LEMMA StageWrite ==
    ASSUME NEW fs, NEW rs, NEW n, NEW id, NEW size, Writing(fs, rs, n, id, size),
           NEW p, AtStage(p, fs, n, id, size), Head(p).call = "write",
           Len(fs[n]) + Len(Head(p).cells) <= SegSize
    PROVE  LET gs == Written(fs, n, Head(p).cells) IN
           \/ Len(p) = 1 /\ Tail(p) = <<>> /\ Follows(fs, gs, rs, n, <<id>>) /\ ~Broken(gs)
           \/ Len(p) # 1 /\ Follows(fs, gs, rs, n, <<>>) /\ AtStage(Tail(p), gs, n, id, size)
<1> DEFINE c == Head(p).cells
           gs == Written(fs, n, c)
<1>1. /\ rs \in Seq(Record) /\ SoundAt(fs, rs, n) /\ size \in Sizes /\ id \in 1 .. MaxRecords
  BY DEF Writing
<1>2. /\ Len(fs[n]) \in Nat /\ size \in Nat /\ size > HeaderSize /\ HeaderSize \in Nat /\ SegSize \in Nat
  BY WritingTyped
<1>3. /\ Whole(id, size) \in Seq(Cell) /\ Len(Whole(id, size)) = size
      /\ Header(id, size) \in Seq(Cell) /\ Len(Header(id, size)) = HeaderSize
      /\ Body(id, size) \in Seq(Cell) /\ Len(Body(id, size)) = size - HeaderSize
  BY <1>1, PartsWritten
<1>4. CASE WholeLeft(p, fs, id, size)
  <2>1. Head(p) = WriteCall(Whole(id, size)) /\ Len(p) = 1 /\ Tail(p) = <<>> /\ ~Broken(fs)
    BY <1>4, PlanParts DEF WholeLeft, InOne
  <2>2. c = Whole(id, size)
    BY <1>3, <2>1, Calls
  <2>3. Follows(fs, gs, rs, n, <<id>>) /\ ~Broken(gs)
    BY <1>3, <2>1, <2>2, WholeWritten
  <2> QED  BY <2>1, <2>3
<1>5. CASE BodyLeft(p, fs, n, id, size)
  <2>1. /\ Head(p) = WriteCall(Body(id, size)) /\ Len(p) = 1 /\ Tail(p) = <<>>
        /\ fs[n] = <<>> /\ All(fs).carry.cells = Header(id, size)
    BY <1>5, PlanParts DEF BodyLeft
  <2>2. c = Body(id, size)
    BY <1>3, <2>1, Calls
  <2>3. Len(fs[n]) = 0 /\ size - HeaderSize <= SegSize
    BY <1>2, <1>3, <2>1, <2>2
  <2>4. Follows(fs, gs, rs, n, <<id>>) /\ ~Broken(gs)
    BY <2>1, <2>2, <2>3, BodyWritten
  <2> QED  BY <2>1, <2>4
<1>6. ASSUME NEW k \in Nat, NEW t \in Nat, t > n, PartsLeft(p, fs, n, id, size, k, t)
      PROVE  Len(p) # 1 /\ Follows(fs, gs, rs, n, <<>>) /\ AtStage(Tail(p), gs, n, id, size)
  <2>1. /\ Head(p) = WriteCall(Header(id, size)) /\ Len(p) = 4 /\ ~Broken(fs) /\ HeaderSize + k < size
        /\ Tail(p) = <<WriteCall(Padding(k)), RotateCall(t), WriteCall(Body(id, size))>>
    BY <1>6, PlanParts DEF PartsLeft, InTwo
  <2>2. c = Header(id, size)
    BY <1>3, <2>1, Calls
  <2>3. Len(fs[n]) + HeaderSize <= SegSize
    BY <1>3, <2>2
  <2>4. Follows(fs, gs, rs, n, <<>>) /\ HeaderLeft(gs, n, Header(id, size))
    BY <2>1, <2>2, <2>3, HeaderWritten
  <2> HIDE DEF gs
  <2>5. PadThenBody(Tail(p), gs, n, id, size, k, t)
    BY <2>1, <2>4 DEF PadThenBody
  <2>6. AtStage(Tail(p), gs, n, id, size)
    BY <1>6, <2>5 DEF AtStage
  <2> QED  BY <2>1, <2>4, <2>6
<1>7. ASSUME NEW k \in Nat, NEW t \in Nat, t > n, PadThenBody(p, fs, n, id, size, k, t)
      PROVE  Len(p) # 1 /\ Follows(fs, gs, rs, n, <<>>) /\ AtStage(Tail(p), gs, n, id, size)
  <2>1. /\ Head(p) = WriteCall(Padding(k)) /\ Len(p) = 3 /\ HeaderSize + k < size
        /\ HeaderLeft(fs, n, Header(id, size))
        /\ Tail(p) = <<RotateCall(t), WriteCall(Body(id, size))>>
    BY <1>7, PlanParts DEF PadThenBody
  <2>2. c = Padding(k) /\ Len(c) = k
    BY <2>1, Calls, PaddingWritten
  <2>3. Len(fs[n]) + k <= SegSize
    BY <2>2
  <2>4. Follows(fs, gs, rs, n, <<>>) /\ All(gs).carry.cells = Header(id, size)
    BY <2>1, <2>2, <2>3, PaddingBehindHeader
  <2> HIDE DEF gs
  <2>5. TurnThenBody(Tail(p), gs, id, size, t)
    BY <2>1, <2>4 DEF TurnThenBody
  <2>6. AtStage(Tail(p), gs, n, id, size)
    BY <1>7, <2>5 DEF AtStage
  <2> QED  BY <2>1, <2>4, <2>6
<1>8. ASSUME NEW k \in Nat, NEW t \in Nat, t > n, PadThenWhole(p, fs, n, id, size, k, t)
      PROVE  Len(p) # 1 /\ Follows(fs, gs, rs, n, <<>>) /\ AtStage(Tail(p), gs, n, id, size)
  <2>1. /\ Head(p) = WriteCall(Padding(k)) /\ Len(p) = 3 /\ ~Broken(fs)
        /\ Len(fs[n]) + k = SegSize /\ k < HeaderSize
        /\ Tail(p) = <<RotateCall(t), WriteCall(Whole(id, size))>>
    BY <1>8, PlanParts DEF PadThenWhole, InNext
  <2>2. c = Padding(k)
    BY <2>1, Calls, PaddingWritten
  <2>3. Follows(fs, gs, rs, n, <<>>) /\ ~Broken(gs)
    BY <1>1, <2>1, <2>2, PaddingWhole
  <2> HIDE DEF gs
  <2>4. TurnThenWhole(Tail(p), gs, id, size, t)
    BY <2>1, <2>3 DEF TurnThenWhole
  <2>5. AtStage(Tail(p), gs, n, id, size)
    BY <1>8, <2>4 DEF AtStage
  <2> QED  BY <2>1, <2>3, <2>5
<1>9. ASSUME NEW t \in Nat, TurnThenBody(p, fs, id, size, t) \/ TurnThenWhole(p, fs, id, size, t)
      PROVE  FALSE
  <2>1. Head(p) = RotateCall(t)
    BY <1>9, PlanParts DEF TurnThenBody, TurnThenWhole
  <2> QED  BY <2>1, Calls
<1> HIDE DEF gs
<1> QED  BY <1>4, <1>5, <1>6, <1>7, <1>8, <1>9 DEF AtStage, gs

(* So does the rotation.                                                     *)
LEMMA StageTurn ==
    ASSUME NEW fs, NEW rs, NEW n, SoundAt(fs, rs, n), NEW id, NEW size,
           NEW p, AtStage(p, fs, n, id, size), Head(p).call = "rotate",
           id \in 1 .. MaxRecords, size \in Sizes
    PROVE  LET t == Head(p).segment
               gs == Created(fs, t)
           IN  /\ t \in Nat /\ t > n /\ Len(p) # 1 /\ SoundAt(gs, rs, t) /\ All(gs) = All(fs)
               /\ gs[t] = <<>> /\ AtStage(Tail(p), gs, t, id, size) /\ Tail(p) # <<>>
<1>1. /\ Whole(id, size) \in Seq(Cell) /\ Header(id, size) \in Seq(Cell) /\ Body(id, size) \in Seq(Cell)
  BY PartsWritten
<1>2. PICK t \in Nat : t > n /\ (TurnThenBody(p, fs, id, size, t) \/ TurnThenWhole(p, fs, id, size, t))
  <2>1. \A a \in Seq(Cell) : Head(p) # WriteCall(a)
    BY Calls
  <2>2. ~WholeLeft(p, fs, id, size) /\ ~BodyLeft(p, fs, n, id, size)
    BY <1>1, <2>1, PlanParts DEF WholeLeft, InOne, BodyLeft
  <2>3. ASSUME NEW k \in Nat, NEW t \in Nat
        PROVE  /\ ~PartsLeft(p, fs, n, id, size, k, t) /\ ~PadThenBody(p, fs, n, id, size, k, t)
               /\ ~PadThenWhole(p, fs, n, id, size, k, t)
    <3>1. Padding(k) \in Seq(Cell)
      BY PaddingWritten
    <3> QED  BY <1>1, <2>1, <3>1, PlanParts DEF PartsLeft, InTwo, PadThenBody, PadThenWhole, InNext
  <2> QED  BY <2>2, <2>3 DEF AtStage
<1>3. Head(p) = RotateCall(t) /\ Len(p) = 2
  BY <1>2, PlanParts DEF TurnThenBody, TurnThenWhole
<1>4. Head(p).segment = t
  BY <1>3, Calls
<1> DEFINE gs == Created(fs, t)
<1>5. SoundAt(gs, rs, t) /\ gs[t] = <<>> /\ All(gs) = All(fs)
  BY <1>2, CreateSound
<1> HIDE DEF gs
<1>6. AtStage(Tail(p), gs, t, id, size) /\ Tail(p) # <<>>
  <2>1. CASE TurnThenBody(p, fs, id, size, t)
    <3>1. Tail(p) = <<WriteCall(Body(id, size))>> /\ All(fs).carry.cells = Header(id, size)
      BY <2>1, PlanParts DEF TurnThenBody
    <3>2. BodyLeft(Tail(p), gs, t, id, size) /\ Tail(p) # <<>>
      BY <1>5, <3>1, SMTT(20) DEF BodyLeft
    <3> QED  BY <3>2 DEF AtStage
  <2>2. CASE TurnThenWhole(p, fs, id, size, t)
    <3>1. Tail(p) = <<WriteCall(Whole(id, size))>> /\ ~Broken(fs)
      BY <2>2, PlanParts DEF TurnThenWhole
    <3>2. WholeLeft(Tail(p), gs, id, size) /\ Tail(p) # <<>>
      BY <1>5, <3>1 DEF WholeLeft, InOne, Broken
    <3> QED  BY <3>2 DEF AtStage
  <2> QED  BY <1>2, <2>1, <2>2
<1> QED  BY <1>2, <1>3, <1>4, <1>5, <1>6 DEF gs

-----------------------------------------------------------------------------
(* The steps of a sound log                                                  *)

(* Damage is never forgotten.                                                *)
LEMMA DamageLasts ==
    ASSUME Lasting, [Next]_vars, Undamaged'
    PROVE  Undamaged
<1> SUFFICES ASSUME NEW i \in Faulty PROVE FALSE
  BY DEF Undamaged
<1>1. /\ recs \in Seq(Record) /\ Len(recs) \in Nat /\ i \in 1 .. Len(recs)
      /\ recs[i].fate \in {"error", "torn"} /\ Faulty' = {}
      /\ plan # <<>> => Len(recs) > 0 /\ recs[Len(recs)].fate = "pending"
  BY DEF Faulty, Lasting, RecordsTyped, Undamaged
<1>2. CASE recs' = recs
  BY <1>1, <1>2 DEF Faulty
<1>3. CASE \E size \in Sizes : AppendEntry(size)
  <2>1. PICK r : recs' = Append(recs, r)
    BY <1>3 DEF AppendEntry
  <2>2. i \in DOMAIN recs' /\ recs'[i] = recs[i]
    BY <1>1, <2>1
  <2> QED  BY <1>1, <2>2 DEF Faulty
<1>4. CASE \E fate \in Fates : Settle(fate) /\ plan # <<>>
  <2>1. PICK fate \in Fates : Settle(fate) /\ plan # <<>>
    BY <1>4
  <2>2. i # Len(recs)
    BY <1>1, <2>1
  <2>3. recs' \in Seq(Record) /\ Len(recs') = Len(recs) /\ recs'[i] = recs[i]
    BY <1>1, <2>1, <2>2, SettleRecords
  <2>4. i \in DOMAIN recs'
    BY <1>1, <2>3
  <2> QED  BY <1>1, <2>3, <2>4 DEF Faulty
<1>5. CASE Restart
  <2>1. recs' \in Seq(Record) /\ Len(recs') = Len(recs) /\ recs'[i] = recs[i]
    BY <1>1, <1>5, RestartRecords
  <2>2. i \in DOMAIN recs'
    BY <1>1, <2>1
  <2> QED  BY <1>1, <2>1, <2>2 DEF Faulty
<1>6. CASE Write
  BY <1>2, <1>4, <1>6 DEF Write, Fates
<1>7. CASE WritePanic \/ Error
  BY <1>4, <1>7 DEF WritePanic, Error, Fates
<1>8. CASE Crash
  <2>1. CASE files' = files
    BY <1>2, <1>8, <2>1 DEF Crash
  <2>2. CASE files' # files
    <3>1. files' \in Torn /\ Settle("torn") /\ "torn" \in Fates
      BY <1>8, <2>2 DEF Crash, Fates
    <3>2. plan # <<>>
      BY <2>2, <3>1 DEF Torn
    <3> QED  BY <1>4, <3>1, <3>2
  <2> QED  BY <2>1, <2>2
<1>9. CASE Rotate \/ UNCHANGED vars
  BY <1>2, <1>9 DEF Rotate, vars
<1> QED  BY <1>3, <1>5, <1>6, <1>7, <1>8, <1>9 DEF Next

(* Numbers keep their order when records are settled.                        *)
LEMMA NumbersKept ==
    ASSUME SequenceNumbersIncrease, recs \in Seq(Record), recs' \in Seq(Record), Len(recs') = Len(recs),
           \A i \in 1 .. Len(recs) :
              /\ recs'[i].lsn = recs[i].lsn
              /\ recs'[i].fate \in {"acked", "pending"} => recs[i].fate \in {"acked", "pending"}
              /\ i < Len(recs) /\ recs'[i].fate = "acked" => recs[i].fate = "acked"
    PROVE  SequenceNumbersIncrease'
<1>1. DOMAIN recs = 1 .. Len(recs) /\ DOMAIN recs' = 1 .. Len(recs) /\ Len(recs) \in Nat
  OBVIOUS
<1>2. ASSUME NEW i \in 1 .. Len(recs), NEW j \in 1 .. Len(recs), i < j, recs'[i].fate = "acked",
             recs'[j].fate \in {"acked", "pending"}
      PROVE  recs'[i].lsn < recs'[j].lsn
  <2>1. i < Len(recs)
    BY <1>1, <1>2
  <2>2. recs[i].fate = "acked" /\ recs[j].fate \in {"acked", "pending"}
    BY <1>2, <2>1
  <2>3. recs[i].lsn < recs[j].lsn
    BY <1>1, <1>2, <2>2 DEF SequenceNumbersIncrease
  <2> QED  BY <2>3
<1> QED  BY <1>1, <1>2 DEF SequenceNumbersIncrease

LEMMA AckedTyped ==
    ASSUME NEW rs \in Seq(Record)
    PROVE  Acked(rs) \in SUBSET Nat /\ IsFiniteSet(Acked(rs)) /\ Acked(rs) \subseteq 1 .. Len(rs)
<1>1. Acked(rs) \subseteq 1 .. Len(rs) /\ Len(rs) \in Nat
  BY DEF Acked
<1>2. IsFiniteSet(1 .. Len(rs))
  BY <1>1, FS_Interval
<1> QED  BY <1>1, <1>2, FS_Subset

(* In a sound log the next sequence number is behind that of every           *)
(* acknowledged record.                                                      *)
LEMMA NumbersBehind ==
    ASSUME Lasting, SoundLog, NEW i \in Acked(recs)
    PROVE  recs[i].lsn \in Nat /\ next_lsn \in Nat /\ recs[i].lsn < next_lsn
<1>1. /\ recs \in Seq(Record) /\ active \in Nat /\ file_size \in 0 .. SegSize /\ SegSize \in Nat
  BY WalAssumption DEF Lasting, FilesTyped, RecordsTyped
<1>2. /\ All(files).ids = InOrder(Acked(recs)) /\ file_size = Len(files[active])
      /\ GoodAcc(recs, All(files), active * SegSize + Len(files[active]))
  BY DEF SoundLog, SoundAt
<1>3. Acked(recs) \in SUBSET Nat /\ IsFiniteSet(Acked(recs)) /\ i \in 1 .. Len(recs)
  BY <1>1, AckedTyped
<1>4. PICK x \in 1 .. Len(All(files).ids) : All(files).ids[x] = i
  BY <1>2, <1>3, InOrderEnumerates
<1>5. recs[i].lsn < Place(All(files)) /\ Place(All(files)) \in Nat
      /\ Place(All(files)) <= active * SegSize + file_size
  <2>1. GoodAcc(recs, All(files), active * SegSize + file_size)
    BY <1>2
  <2> QED  BY <1>4, <2>1 DEF GoodAcc
<1>6. active * SegSize \in Nat
  BY <1>1
<1>7. recs[i].lsn \in Nat
  <2>1. recs[i] \in Record
    BY <1>1, <1>3
  <2> QED  BY <2>1 DEF Record
<1> QED  BY <1>1, <1>5, <1>6, <1>7 DEF next_lsn, base_lsn

LEMMA AppendSound ==
    ASSUME Lasting, SoundLog, NEW size \in Sizes, AppendEntry(size)
    PROVE  SoundLog'
<1> DEFINE last == Len(recs) + 1
           r == [size |-> size, lsn |-> next_lsn, fate |-> "pending"]
<1>1. /\ mode = "run" /\ plan = <<>> /\ Len(recs) < MaxRecords /\ recs' = Append(recs, r)
      /\ plan' = AppendPlan(last, size) /\ files' = files /\ active' = active
      /\ file_size' = file_size /\ mode' = mode
  BY DEF AppendEntry
<1>2. /\ recs \in Seq(Record) /\ active \in Nat /\ file_size \in 0 .. SegSize /\ SegSize \in Nat
      /\ MaxRecords \in Nat
  BY WalAssumption DEF Lasting, FilesTyped, RecordsTyped
<1>3. /\ SoundAt(files, recs, active) /\ file_size = Len(files[active]) /\ mode # "failed"
      /\ All(files).ids = InOrder(Acked(recs)) /\ SequenceNumbersIncrease /\ ~Broken(files)
  BY <1>1 DEF SoundLog
<1>4. active * SegSize \in Nat /\ next_lsn \in Nat
  BY <1>2 DEF next_lsn, base_lsn
<1>5. r.fate = "pending" /\ r.size = size /\ r.lsn = next_lsn
  OBVIOUS
<1> HIDE DEF r
<1>6. /\ Len(recs') = last /\ recs'[last] = r /\ last \in Nat /\ DOMAIN recs' = 1 .. last
      /\ \A i \in 1 .. Len(recs) : recs'[i] = recs[i] /\ i \in 1 .. last
      /\ \A i \in 1 .. last : i = last \/ i \in 1 .. Len(recs)
      /\ DOMAIN recs = 1 .. Len(recs) /\ Len(recs) \in Nat /\ Len(recs) <= Len(recs')
  BY <1>1, <1>2
<1>7. SoundAt(files, recs', active)
  BY <1>3, <1>6, SoundFrame
<1>8. Acked(recs') = Acked(recs)
  <2>1. \A i : i \in Acked(recs') <=> i \in 1 .. last /\ recs'[i].fate = "acked"
    BY <1>6 DEF Acked
  <2>2. \A i : i \in Acked(recs) <=> i \in 1 .. Len(recs) /\ recs[i].fate = "acked"
    BY <1>6 DEF Acked
  <2>3. \A i : i \in Acked(recs') <=> i \in Acked(recs)
    BY <1>5, <1>6, <2>1, <2>2
  <2> QED  BY <2>3
<1>9. SequenceNumbersIncrease'
  <2>1. ASSUME NEW i \in 1 .. last, NEW j \in 1 .. last, i < j, recs'[i].fate = "acked",
               recs'[j].fate \in {"acked", "pending"}
        PROVE  recs'[i].lsn < recs'[j].lsn
    <3>1. i \in 1 .. Len(recs) /\ recs'[i] = recs[i]
      <4>1. i # last
        BY <1>6, <2>1
      <4> QED  BY <1>6, <4>1
    <3>2. CASE j = last
      <4>1. i \in Acked(recs)
        BY <1>6, <2>1, <3>1 DEF Acked
      <4>2. recs[i].lsn < next_lsn
        BY <4>1, NumbersBehind
      <4> QED  BY <1>5, <1>6, <3>1, <3>2, <4>2
    <3>3. CASE j # last
      <4>1. j \in 1 .. Len(recs) /\ recs'[j] = recs[j]
        BY <1>6, <3>3
      <4> QED  BY <1>3, <1>6, <2>1, <3>1, <4>1 DEF SequenceNumbersIncrease
    <3> QED  BY <3>2, <3>3
  <2> QED  BY <1>6, <2>1 DEF SequenceNumbersIncrease
<1>10. last \in 1 .. MaxRecords
  BY <1>1, <1>2, <1>6
<1>11. plan' # <<>>
  <2>1. plan' = AppendPlan(last, size)
    BY <1>1
  <2> HIDE DEF last
  <2> QED  BY <1>2, <1>10, <2>1, AppendEnds
<1>12. AtStage(plan', files, active, last, size)
  <2> DEFINE p == AppendPlan(last, size)
             free == SegSize - file_size
  <2>1. \/ size <= free /\ InOne(p, last, size)
        \/ /\ size > free /\ HeaderSize <= free
           /\ \E t \in Nat : t > active /\ InTwo(p, last, size, free - HeaderSize, t)
        \/ /\ size > free /\ HeaderSize > free
           /\ \E t \in Nat : t > active /\ InNext(p, last, size, free, t)
    BY <1>2, PlanShape
  <2> HIDE DEF p, last
  <2>2. free \in Nat /\ size \in Nat /\ HeaderSize \in Nat /\ Len(files[active]) + free = SegSize
    BY <1>2, <1>3, WalAssumption
  <2>3. ASSUME InOne(p, last, size) PROVE AtStage(p, files, active, last, size)
    <3>1. WholeLeft(p, files, last, size)
      BY <1>3, <2>3 DEF WholeLeft
    <3> QED  BY <3>1 DEF AtStage
  <2>4. ASSUME size > free, HeaderSize <= free, NEW t \in Nat, t > active,
               InTwo(p, last, size, free - HeaderSize, t)
        PROVE  AtStage(p, files, active, last, size)
    <3>1. /\ free - HeaderSize \in Nat /\ HeaderSize + (free - HeaderSize) < size
          /\ Len(files[active]) + HeaderSize + (free - HeaderSize) = SegSize
      <4>1. Len(files[active]) \in Nat
        BY <1>2, <1>3
      <4> HIDE DEF free
      <4> QED  BY <2>2, <2>4, <4>1
    <3>2. PartsLeft(p, files, active, last, size, free - HeaderSize, t)
      BY <1>3, <2>4, <3>1 DEF PartsLeft
    <3> HIDE DEF free
    <3> QED  BY <2>4, <3>1, <3>2 DEF AtStage
  <2>5. ASSUME HeaderSize > free, NEW t \in Nat, t > active, InNext(p, last, size, free, t)
        PROVE  AtStage(p, files, active, last, size)
    <3>1. free < HeaderSize
      BY <2>2, <2>5
    <3> HIDE DEF free
    <3>2. PadThenWhole(p, files, active, last, size, free, t)
      BY <1>3, <2>2, <2>5, <3>1 DEF PadThenWhole
    <3> QED  BY <2>2, <2>5, <3>2 DEF AtStage
  <2> HIDE DEF free
  <2>6. AtStage(p, files, active, last, size)
    <3>1. CASE /\ size > free /\ HeaderSize <= free
               /\ \E t \in Nat : t > active /\ InTwo(p, last, size, free - HeaderSize, t)
      BY <2>4, <3>1
    <3>2. CASE /\ size > free /\ HeaderSize > free
               /\ \E t \in Nat : t > active /\ InNext(p, last, size, free, t)
      BY <2>5, <3>2
    <3> QED  BY <2>1, <2>3, <3>1, <3>2
  <2> QED  BY <1>1, <2>6 DEF p
<1>13. next_lsn' = next_lsn
  BY <1>1 DEF next_lsn, base_lsn
<1>14. recs'[Len(recs')].lsn <= next_lsn' /\ recs'[Len(recs')].size = size
  BY <1>4, <1>5, <1>6, <1>13
<1> HIDE DEF last
<1> QED  BY <1>1, <1>3, <1>6, <1>7, <1>8, <1>9, <1>11, <1>12, <1>14 DEF SoundLog

(* The record in progress.                                                   *)
LEMMA InProgress ==
    ASSUME Lasting, SoundLog, plan # <<>>
    PROVE  LET last == Len(recs) IN
           /\ Writing(files, recs, active, last, recs[last].size) /\ last \in 1 .. MaxRecords
           /\ AtStage(plan, files, active, last, recs[last].size) /\ recs[last].size \in Sizes
           /\ recs[last].lsn \in Nat /\ recs[last].lsn <= active * SegSize + Len(files[active])
           /\ recs[last].fate = "pending" /\ mode = "run" /\ active * SegSize \in Nat
<1> DEFINE last == Len(recs)
<1>1. /\ recs \in Seq(Record) /\ last \in Nat /\ last <= MaxRecords /\ last > 0 /\ MaxRecords \in Nat
      /\ recs[last].fate = "pending" /\ mode = "run" /\ active \in Nat /\ SegSize \in Nat
  BY WalAssumption DEF Lasting, RecordsTyped, FilesTyped
<1>2. /\ SoundAt(files, recs, active) /\ file_size = Len(files[active])
      /\ recs[last].lsn <= next_lsn /\ AtStage(plan, files, active, last, recs[last].size)
  BY DEF SoundLog
<1>3. last \in 1 .. MaxRecords /\ last \in 1 .. Len(recs)
  BY <1>1
<1>4. recs[last] \in Record
  BY <1>1, <1>3
<1>5. recs[last].size \in Sizes /\ recs[last].lsn \in Nat
  BY <1>4 DEF Record
<1>6. recs[last].lsn <= active * SegSize + Len(files[active]) /\ active * SegSize \in Nat
  <2>1. next_lsn = active * SegSize + Len(files[active])
    BY <1>2 DEF next_lsn, base_lsn
  <2>2. active * SegSize \in Nat
    BY <1>1
  <2> QED  BY <1>2, <2>1, <2>2
<1> HIDE DEF last
<1>7. Writing(files, recs, active, last, recs[last].size)
  BY <1>1, <1>2, <1>3, <1>5, <1>6 DEF Writing
<1> QED  BY <1>1, <1>2, <1>3, <1>5, <1>6, <1>7 DEF last

LEMMA WriteStepSound ==
    ASSUME Lasting, SoundLog, Write, Lasting'
    PROVE  SoundLog'
<1> DEFINE last == Len(recs)
           size == recs[last].size
           c == Head(plan).cells
<1>1. /\ plan # <<>> /\ Head(plan).call = "write" /\ file_size + Len(c) <= SegSize
      /\ files' = Written(files, active, c) /\ file_size' = file_size + Len(c) /\ plan' = Tail(plan)
      /\ IF Len(plan) = 1 THEN Settle("acked") ELSE recs' = recs
      /\ active' = active /\ mode' = mode
  BY DEF Write, Fits, Written, With
<1>2. /\ Writing(files, recs, active, last, size) /\ last \in 1 .. MaxRecords
      /\ AtStage(plan, files, active, last, size)
      /\ recs[last].lsn \in Nat /\ recs[last].lsn <= active * SegSize + Len(files[active])
      /\ recs[last].fate = "pending" /\ mode = "run" /\ active * SegSize \in Nat
  BY <1>1, InProgress
<1>3. /\ SoundAt(files, recs, active) /\ file_size = Len(files[active])
      /\ All(files).ids = InOrder(Acked(recs)) /\ SequenceNumbersIncrease
      /\ recs \in Seq(Record) /\ plan \in Seq(Call) /\ Len(files[active]) \in Nat
      /\ files[active] \in Seq(Cell) /\ active \in DOMAIN files /\ Directory(files)
  BY <1>2, WritingTyped DEF SoundLog, Lasting, RecordsTyped, PlanTyped
<1>4. c \in Seq(Cell) /\ Len(c) \in Nat
  <2>1. Head(plan) \in Call
    BY <1>1, <1>3
  <2> QED  BY <2>1 DEF Call
<1> HIDE DEF c, last, size
<1>5. \/ /\ Len(plan) = 1 /\ Tail(plan) = <<>> /\ Follows(files, files', recs, active, <<last>>)
         /\ ~Broken(files')
      \/ /\ Len(plan) # 1 /\ Follows(files, files', recs, active, <<>>)
         /\ AtStage(Tail(plan), files', active, last, size)
  <2>1. Len(files[active]) + Len(Head(plan).cells) <= SegSize /\ files' = Written(files, active, Head(plan).cells)
    BY <1>1, <1>3 DEF c
  <2> QED  BY <1>1, <1>2, <2>1, StageWrite
<1>6. file_size' = Len(files'[active])
  <2>1. files[active] \o c \in Seq(Cell) /\ Len(files[active] \o c) = Len(files[active]) + Len(c)
    BY <1>3, <1>4
  <2>2. Replaced(files, files', active, files[active] \o c)
    BY <1>1, <1>3, <2>1, WithReplaces DEF Written
  <2> QED  BY <1>1, <1>3, <2>1, <2>2 DEF Replaced
<1>7. CASE Len(plan) = 1
  <2>1. /\ SoundAt(files', recs, active) /\ All(files').ids = All(files).ids \o <<last>>
        /\ ~Broken(files') /\ plan' = <<>>
    BY <1>1, <1>5, <1>7 DEF Follows
  <2>2. /\ recs' \in Seq(Record) /\ Len(recs') = Len(recs) /\ recs'[last].fate = "acked"
        /\ \A i \in 1 .. Len(recs) : recs'[i].lsn = recs[i].lsn /\ (i # last => recs'[i] = recs[i])
        /\ last \in 1 .. Len(recs)
    <3>1. Len(recs) > 0 /\ Settle("acked") /\ "acked" \in Fates /\ last \in 1 .. Len(recs)
      BY <1>1, <1>2, <1>3, <1>7 DEF last, Fates
    <3> QED  BY <1>3, <3>1, SettleRecords DEF last
  <2>3. SoundAt(files', recs', active')
    <3>1. Len(recs) \in Nat /\ Len(recs') \in Nat /\ Len(recs) <= Len(recs')
      BY <1>3, <2>2
    <3>2. SoundAt(files', recs', active)
      BY <2>1, <2>2, <3>1, SoundFrame
    <3> QED  BY <1>1, <3>2
  <2>4. All(files').ids = InOrder(Acked(recs'))
    <3>1. Acked(recs') = Acked(recs) \cup {last}
      <4>1. \A i : i \in Acked(recs') <=> i \in 1 .. Len(recs) /\ recs'[i].fate = "acked"
        BY <2>2 DEF Acked
      <4>2. \A i : i \in Acked(recs) <=> i \in 1 .. Len(recs) /\ recs[i].fate = "acked"
        BY <1>3 DEF Acked
      <4>3. \A i : i \in Acked(recs') <=> i \in Acked(recs) \cup {last}
        BY <2>2, <4>1, <4>2
      <4> QED  BY <4>3
    <3>2. /\ Acked(recs) \in SUBSET Nat /\ IsFiniteSet(Acked(recs)) /\ last \in Nat
          /\ \A i \in Acked(recs) : i < last
      <4>1. Acked(recs) \in SUBSET Nat /\ IsFiniteSet(Acked(recs)) /\ Acked(recs) \subseteq 1 .. Len(recs)
        BY <1>3, AckedTyped
      <4>2. last \notin Acked(recs)
        BY <1>2 DEF Acked
      <4>3. last \in Nat /\ \A i \in 1 .. Len(recs) : i # last => i < last
        BY <1>2 DEF last
      <4> QED  BY <4>1, <4>2, <4>3
    <3>3. InOrder(Acked(recs) \cup {last}) = Append(InOrder(Acked(recs)), last)
      BY <3>2, InOrderAppend
    <3>4. InOrder(Acked(recs)) \o <<last>> = Append(InOrder(Acked(recs)), last)
      <4>1. InOrder(Acked(recs)) \in Seq(Nat)
        <5>1. InOrder(Acked(recs)) \in Seq(Acked(recs))
          BY <3>2, InOrderEnumerates
        <5> QED  BY <3>2, <5>1
      <4> QED  BY <3>2, <4>1
    <3> QED  BY <1>3, <2>1, <3>1, <3>3, <3>4
  <2>5. SequenceNumbersIncrease'
    <3>1. \A i \in 1 .. Len(recs) :
             /\ recs'[i].fate \in {"acked", "pending"} => recs[i].fate \in {"acked", "pending"}
             /\ i < Len(recs) /\ recs'[i].fate = "acked" => recs[i].fate = "acked"
      BY <1>2, <2>2 DEF last
    <3> QED  BY <1>3, <2>2, <3>1, NumbersKept
  <2> QED  BY <1>1, <1>2, <1>6, <2>1, <2>3, <2>4, <2>5 DEF SoundLog
<1>8. CASE Len(plan) # 1
  <2>1. /\ SoundAt(files', recs, active) /\ All(files').ids = All(files).ids \o <<>>
        /\ AtStage(plan', files', active, last, size) /\ recs' = recs
    BY <1>1, <1>5, <1>8 DEF Follows
  <2>2. All(files).ids \o <<>> = All(files).ids
    <3>1. All(files).ids \in Seq(1 .. Len(recs))
      BY <1>3 DEF SoundAt, GoodAcc
    <3> QED  BY <3>1, EmptyCat
  <2>3. recs[last].lsn <= next_lsn'
    <3>1. next_lsn' = active * SegSize + (Len(files[active]) + Len(c))
      BY <1>1, <1>3 DEF next_lsn, base_lsn
    <3> QED  BY <1>2, <1>3, <1>4, <3>1
  <2>4. plan' # <<>>
    <3>1. Len(plan) \in Nat /\ Len(plan) > 0 /\ Tail(plan) \in Seq(Call) /\ Len(Tail(plan)) = Len(plan) - 1
      BY <1>1, <1>3
    <3>2. Len(Tail(plan)) # 0
      BY <1>8, <3>1
    <3>3. Tail(plan) # <<>>
      <4>1. \A s : s = <<>> => Len(s) = 0
        OBVIOUS
      <4> QED  BY ONLY <3>2, <4>1, Zenon
    <3> QED  BY <1>1, <3>3
  <2>5. SequenceNumbersIncrease'
    BY <1>3, <2>1 DEF SequenceNumbersIncrease
  <2> QED  BY <1>1, <1>2, <1>3, <1>6, <2>1, <2>2, <2>3, <2>4, <2>5 DEF SoundLog, last, size
<1> QED  BY <1>7, <1>8

LEMMA RotateStepSound ==
    ASSUME Lasting, SoundLog, Rotate
    PROVE  SoundLog'
<1> DEFINE last == Len(recs)
           size == recs[last].size
           t == Head(plan).segment
<1>1. /\ plan # <<>> /\ Head(plan).call = "rotate" /\ files' = Created(files, t) /\ active' = t
      /\ file_size' = 0 /\ plan' = Tail(plan) /\ recs' = recs /\ mode' = mode
  BY DEF Rotate, Created
<1>2. /\ Writing(files, recs, active, last, size) /\ last \in 1 .. MaxRecords /\ size \in Sizes
      /\ AtStage(plan, files, active, last, size) /\ recs[last].lsn \in Nat
      /\ recs[last].lsn <= active * SegSize + Len(files[active]) /\ mode = "run"
      /\ active * SegSize \in Nat
  BY <1>1, InProgress
<1>3. /\ SoundAt(files, recs, active) /\ All(files).ids = InOrder(Acked(recs)) /\ SequenceNumbersIncrease
  BY DEF SoundLog
<1>4. /\ Len(files[active]) \in Nat /\ Len(files[active]) <= SegSize /\ active \in Nat /\ SegSize \in Nat
  BY <1>2, <1>3, WritingTyped DEF SoundAt, SoundFiles
<1>5. /\ t \in Nat /\ t > active /\ SoundAt(files', recs, t) /\ All(files') = All(files)
      /\ files'[t] = <<>> /\ AtStage(plan', files', t, last, size) /\ plan' # <<>>
  <2> HIDE DEF last, size
  <2> QED  BY <1>1, <1>2, <1>3, StageTurn
<1> HIDE DEF last, size, t
<1>6. recs[last].lsn <= next_lsn'
  <2>1. next_lsn' = t * SegSize + 0
    BY <1>1 DEF next_lsn, base_lsn
  <2>2. t * SegSize \in Nat /\ active * SegSize + SegSize <= t * SegSize
    BY <1>4, <1>5, TimesStep
  <2>3. \A x, y, z, s, w \in Nat : x <= y + z /\ z <= s /\ y + s <= w => x <= w + 0
    OBVIOUS
  <2> DEFINE y == active * SegSize
             w == t * SegSize
             x == recs[last].lsn
             z == Len(files[active])
  <2>4. y \in Nat /\ w \in Nat /\ x \in Nat /\ z \in Nat /\ SegSize \in Nat
        /\ x <= y + z /\ z <= SegSize /\ y + SegSize <= w /\ next_lsn' = w + 0
    BY <1>2, <1>4, <2>1, <2>2
  <2> HIDE DEF x, y, z, w
  <2>5. x <= next_lsn'
    BY <2>3, <2>4
  <2> QED  BY <2>5 DEF x
<1>7. file_size' = Len(files'[t])
  BY <1>1, <1>5
<1>8. SequenceNumbersIncrease'
  BY <1>1, <1>3 DEF SequenceNumbersIncrease
<1> QED  BY <1>1, <1>2, <1>3, <1>5, <1>6, <1>7, <1>8 DEF SoundLog, last, size

LEMMA ProductGrows ==
    ASSUME NEW x \in Nat, NEW s \in Nat, x <= s, NEW y \in Nat, NEW z \in Nat, y <= z
    PROVE  x * y \in Nat /\ x * y <= z * s
<1>1. PICK d \in Nat : s = x + d
  <2>1. s - x \in Nat /\ s = x + (s - x)
    OBVIOUS
  <2> QED  BY <2>1
<1>2. PICK e \in Nat : z = y + e
  <2>1. z - y \in Nat /\ z = y + (z - y)
    OBVIOUS
  <2> QED  BY <2>1
<1>3. (y + e) * (x + d) = x * y + (y * d + e * (x + d))
  OBVIOUS
<1>4. x * y \in Nat /\ y * d \in Nat /\ e * (x + d) \in Nat
  OBVIOUS
<1>5. y * d + e * (x + d) \in Nat
  BY <1>4
<1> QED  BY <1>1, <1>2, <1>3, <1>4, <1>5

(* In a sound log recovery reads every file to its end or to a header, and   *)
(* exactly the acknowledged records.                                         *)
LEMMA SoundRecovery ==
    ASSUME Lasting, SoundLog
    PROVE  /\ Directory(files) /\ Recover(0).ids = InOrder(Acked(recs))
           /\ Recover(0).carry = All(files).carry
           /\ Recover(0).stop = IF Broken(files) THEN "corrupted" ELSE "no"
           /\ SegmentFiles(files, 0) = InOrder(NonEmpty(files))
           /\ Range(SegmentFiles(files, 0)) = NonEmpty(files)
           /\ ~TooLarge(SegmentFiles(files, 0))
           /\ Range(Recover(0).ids) = Acked(recs)
<1>1. /\ Directory(files) /\ \A n \in DOMAIN files : Len(files[n]) <= SegSize
      /\ All(files).stop = "no" /\ All(files).ids = InOrder(Acked(recs)) /\ recs \in Seq(Record)
  BY DEF SoundLog, SoundAt, SoundFiles, GoodAcc, Lasting, RecordsTyped
<1>2. /\ Recover(0).ids = All(files).ids /\ Recover(0).carry = All(files).carry
      /\ Recover(0).stop = IF All(files).stop = "no" /\ All(files).carry.cells # <<>>
                           THEN "corrupted" ELSE All(files).stop
  BY <1>1, RecoveryReports
<1>3. SegmentFiles(files, 0) = InOrder(NonEmpty(files))
  BY <1>1, FilesFromStart
<1>4. NonEmpty(files) \in SUBSET DOMAIN files
  BY DEF NonEmpty
<1>5. Range(SegmentFiles(files, 0)) = NonEmpty(files)
  <2>1. NonEmpty(files) \in SUBSET Nat /\ IsFiniteSet(NonEmpty(files))
    BY <1>1, <1>4, Ordered
  <2> QED  BY <1>3, <2>1, InOrderRange
<1>6. ~TooLarge(SegmentFiles(files, 0))
  <2>1. \A n \in NonEmpty(files) : Len(files[n]) <= SegSize /\ Len(files[n]) \in Nat
    BY <1>1, <1>4 DEF Directory
  <2>2. \A n \in NonEmpty(files) : ~(Len(files[n]) > SegSize)
    BY <2>1, WalAssumption
  <2> QED  BY <1>5, <2>2 DEF TooLarge
<1>7. Range(InOrder(Acked(recs))) = Acked(recs)
  BY <1>1, AckedTyped, InOrderRange
<1> QED  BY <1>1, <1>2, <1>3, <1>5, <1>6, <1>7 DEF Broken

(* A log without cells is sound.                                             *)
LEMMA EmptySound ==
    ASSUME NEW fs, Directory(fs), NEW n \in DOMAIN fs, NonEmpty(fs) = {}, NEW rs
    PROVE  SoundAt(fs, rs, n) /\ ~Broken(fs) /\ All(fs).ids = <<>> /\ Len(fs[n]) = 0
<1>1. \A m \in DOMAIN fs : fs[m] = <<>> /\ Len(fs[m]) = 0
  BY DEF NonEmpty
<1>2. All(fs) = Start
  BY AllEmpty
<1>3. /\ Start.ids = <<>> /\ Start.stop = "no" /\ Start.carry.cells = <<>>
      /\ Start.carry.segment = 0 /\ Start.carry.at = 0
  BY DEF Start, Nowhere
<1>4. n \in Nat /\ SegSize \in Nat /\ n * SegSize \in Nat
  BY WalAssumption DEF Directory
<1>5. Place(Start) = 0
  <2>1. 0 * SegSize = 0
    BY <1>4
  <2> QED  BY <1>3, <2>1 DEF Place
<1>6. n * SegSize + Len(fs[n]) \in Nat
  BY <1>1, <1>4
<1>7. GoodAcc(rs, All(fs), n * SegSize + Len(fs[n]))
  BY <1>2, <1>3, <1>5, <1>6 DEF GoodAcc
<1>8. SoundFiles(fs, rs)
  BY <1>1, WalAssumption DEF SoundFiles
<1> QED  BY <1>1, <1>2, <1>3, <1>7, <1>8 DEF SoundAt, Broken

(* Truncation of a sound log removes no file.                                *)
LEMMA NothingBehind ==
    ASSUME NEW rs, NEW l, SoundAt(files, rs, l), IsLast(files, l), Broken(files)
    PROVE  Truncated(All(files).carry) = Cut(files, l)
<1> DEFINE at == All(files).carry.at
           v == CutAt(files, l)
           cut == Cut(files, l)
           seq == l * SegSize + at
           T == {n \in DOMAIN cut : final_entry_after(n, Len(cut[n]), seq)}
<1>1. /\ Directory(files) /\ l \in DOMAIN files /\ l \in Nat /\ SegSize \in Nat
      /\ \A m \in DOMAIN files : m \in Nat /\ Len(files[m]) \in Nat /\ Len(files[m]) <= SegSize
      /\ \A m \in DOMAIN files : m > l => Len(files[m]) = 0
  BY WalAssumption DEF SoundAt, SoundFiles, Directory
<1>2. /\ All(files).carry.segment = l /\ at \in Nat /\ v \in Seq(Cell) /\ Len(v) = at
      /\ at <= Len(files[l])
  <2> DEFINE p == Parse(Buffer(files, l))
             k == Len(Before(files, l).carry.cells)
  <2>1. /\ All(files).carry.segment = l /\ at = p.at - k /\ p.at >= k /\ p.at \in Nat /\ k \in Nat
        /\ p.at <= k + Len(files[l]) /\ v \in Seq(Cell) /\ Len(v) = p.at - k
    BY BrokenPlace
  <2> HIDE DEF p, k, v, at
  <2> QED  BY <1>1, <2>1
<1>3. cut = [files EXCEPT ![l] = SubSeq(@, 1, at)]
  BY DEF Cut, With, CutAt
<1> HIDE DEF v, at
<1>4. Replaced(files, cut, l, v)
  BY <1>1, <1>2, WithReplaces DEF Cut, v
<1> HIDE DEF cut
<1>5. /\ Directory(cut) /\ DOMAIN cut = DOMAIN files /\ cut[l] = v
      /\ \A m \in DOMAIN files : m # l => cut[m] = files[m]
  BY <1>4 DEF Replaced
<1>6. seq \in Nat /\ l * SegSize \in Nat
  BY <1>1, <1>2
<1>7. T = {}
  <2>1. ASSUME NEW n \in DOMAIN files PROVE ~(seq < Len(cut[n]) * (n + 1))
    <3>1. CASE n > l
      <4>1. Len(cut[n]) = 0 /\ n + 1 \in Nat
        BY <1>1, <1>5, <3>1
      <4>2. Len(cut[n]) * (n + 1) = 0
        BY <4>1
      <4> QED  BY <1>6, <4>2
    <3>2. CASE n < l
      <4> DEFINE x == Len(files[n])
      <4>1. x = Len(cut[n]) /\ x \in Nat /\ x <= SegSize /\ n \in Nat /\ n + 1 \in Nat /\ n + 1 <= l
        BY <1>1, <1>5, <3>2
      <4>2. x * (n + 1) \in Nat /\ x * (n + 1) <= l * SegSize
        <5> HIDE DEF x
        <5> QED  BY <1>1, <4>1, ProductGrows
      <4>3. ~(seq < x * (n + 1))
        <5> HIDE DEF x
        <5> QED  BY <1>2, <1>6, <4>2
      <4> QED  BY <4>1, <4>3
    <3>3. CASE n = l
      <4>1. Len(cut[n]) = at /\ at <= SegSize
        BY <1>1, <1>2, <1>5, <3>3
      <4>2. at * l \in Nat /\ at * l <= l * SegSize /\ at * (l + 1) = at * l + at
        <5>1. at * l \in Nat /\ at * l <= l * SegSize
          BY <1>1, <1>2, <4>1, ProductGrows
        <5>2. \A x, y \in Nat : x * (y + 1) = x * y + x
          OBVIOUS
        <5> QED  BY <1>1, <1>2, <5>1, <5>2
      <4>3. ~(seq < at * (l + 1))
        BY <1>2, <1>6, <4>2
      <4> QED  BY <3>3, <4>1, <4>3
    <3>4. n > l \/ n < l \/ n = l
      BY <1>1
    <3> QED  BY <3>1, <3>2, <3>3, <3>4
  <2> QED  BY <1>5, <2>1 DEF final_entry_after
<1>8. Range(SegmentFiles(cut, seq)) = T
  <2>1. T \in SUBSET Nat /\ IsFiniteSet(T)
    BY <1>7, FS_EmptySet
  <2> HIDE DEF T
  <2>2. Range(InOrder(T)) = T
    BY <2>1, InOrderRange
  <2> QED  BY <2>2 DEF SegmentFiles, T
<1> HIDE DEF T
<1>9. Truncated(All(files).carry) = [n \in DOMAIN cut \ T |-> cut[n]]
  BY <1>2, <1>3, <1>8 DEF Truncated, at
<1>10. [n \in DOMAIN cut \ T |-> cut[n]] = cut
  BY <1>5, <1>7 DEF Directory
<1> QED  BY <1>9, <1>10 DEF cut

LEMMA RestartSound ==
    ASSUME Lasting, SoundLog, Restart
    PROVE  SoundLog'
<1> DEFINE segments == SegmentFiles(files, 0)
           r == Recover(0)
<1>1. /\ mode = "down" /\ plan' = plan /\ plan = <<>> /\ recs \in Seq(Record) /\ Len(recs) \in Nat
  BY DEF Restart, Lasting, RecordsTyped
<1>2. /\ SoundAt(files, recs, active) /\ All(files).ids = InOrder(Acked(recs)) /\ SequenceNumbersIncrease
  BY DEF SoundLog
<1>3. /\ Directory(files) /\ r.carry = All(files).carry
      /\ r.stop = (IF Broken(files) THEN "corrupted" ELSE "no")
      /\ segments = InOrder(NonEmpty(files)) /\ ~TooLarge(segments) /\ Range(r.ids) = Acked(recs)
      /\ Range(segments) = NonEmpty(files)
  BY SoundRecovery
<1>4. /\ recs' \in Seq(Record) /\ Len(recs') = Len(recs)
      /\ \A i \in 1 .. Len(recs) :
            /\ recs'[i].lsn = recs[i].lsn
            /\ recs[i].fate # "pending" => recs'[i] = recs[i]
            /\ recs[i].fate = "pending" => recs'[i].fate = "failed"
  <2>1. /\ recs' \in Seq(Record) /\ Len(recs') = Len(recs)
        /\ \A i \in 1 .. Len(recs) :
              /\ recs'[i].lsn = recs[i].lsn
              /\ recs[i].fate # "pending" => recs'[i] = recs[i]
              /\ recs[i].fate = "pending" =>
                    recs'[i].fate = IF i \in Range(r.ids) THEN "acked" ELSE "failed"
    BY RestartRecords
  <2>2. \A i \in 1 .. Len(recs) : recs[i].fate = "pending" => i \notin Range(r.ids)
    BY <1>3 DEF Acked
  <2> HIDE DEF r
  <2> QED  BY <2>1, <2>2
<1> HIDE DEF segments, r
<1>5. Acked(recs') = Acked(recs)
  <2>1. \A i : i \in Acked(recs') <=> i \in 1 .. Len(recs) /\ recs'[i].fate = "acked"
    BY <1>4 DEF Acked
  <2>2. \A i : i \in Acked(recs) <=> i \in 1 .. Len(recs) /\ recs[i].fate = "acked"
    BY <1>1 DEF Acked
  <2>3. \A i : i \in Acked(recs') <=> i \in Acked(recs)
    BY <1>4, <2>1, <2>2
  <2> QED  BY <2>3
<1>6. SequenceNumbersIncrease'
  <2>1. \A i \in 1 .. Len(recs) :
           /\ recs'[i].fate \in {"acked", "pending"} => recs[i].fate \in {"acked", "pending"}
           /\ i < Len(recs) /\ recs'[i].fate = "acked" => recs[i].fate = "acked"
    BY <1>4
  <2> QED  BY <1>1, <1>2, <1>4, <2>1, NumbersKept
<1>7. \A fs, n : SoundAt(fs, recs, n) => SoundAt(fs, recs', n)
  <2>1. Len(recs) \in Nat /\ Len(recs') \in Nat /\ Len(recs) <= Len(recs')
    BY <1>1, <1>4
  <2> QED  BY <1>4, <2>1, SoundFrame
<1>8. /\ SoundAt(files', recs', active') /\ file_size' = Len(files'[active']) /\ ~Broken(files')
      /\ All(files').ids = All(files).ids /\ mode' = "run"
  <2>1. CASE segments = <<>> /\ files' = Created(files, 0) /\ active' = 0 /\ file_size' = 0 /\ mode' = "run"
    <3>1. NonEmpty(files) = {}
      BY <1>3, <2>1 DEF Range
    <3>2. /\ Directory(files') /\ 0 \in DOMAIN files' /\ NonEmpty(files') = {}
      <4>1. /\ Directory(files') /\ DOMAIN files' = DOMAIN files \cup {0} /\ files'[0] = <<>>
            /\ \A m \in DOMAIN files' : m # 0 => m \in DOMAIN files /\ files'[m] = files[m]
        BY <1>3, <2>1, CreatedFiles
      <4> QED  BY <3>1, <4>1 DEF NonEmpty
    <3>3. SoundAt(files', recs', 0) /\ ~Broken(files') /\ All(files').ids = <<>> /\ Len(files'[0]) = 0
      BY <3>2, EmptySound
    <3>4. All(files).ids = <<>>
      BY <3>1, AllEmpty DEF Start
    <3> QED  BY <2>1, <3>3, <3>4
  <2>2. ASSUME segments # <<>>
        PROVE  IsLast(files, Last(segments)) /\ SoundAt(files, recs, Last(segments))
    <3>1. NonEmpty(files) # {}
      BY <1>3, <2>2, InOrderEmpty
    <3>2. IsLast(files, Last(segments))
      BY <1>3, <3>1, LastExists
    <3> QED  BY <1>2, <3>2, SoundAtLast
  <2>3. CASE /\ segments # <<>> /\ r.stop = "no" /\ active' = Last(segments)
             /\ file_size' = Len(files[Last(segments)]) /\ mode' = "run" /\ files' = files
    <3>1. ~Broken(files)
      BY <1>3, <2>3
    <3> QED  BY <1>7, <2>2, <2>3, <3>1
  <2>4. CASE /\ segments # <<>> /\ r.stop = "corrupted" /\ files' = Truncated(r.carry)
             /\ active' = r.carry.segment /\ file_size' = r.carry.at /\ mode' = "run"
    <3> DEFINE l == Last(segments)
    <3>1. IsLast(files, l) /\ SoundAt(files, recs, l) /\ Broken(files)
      BY <1>3, <2>2, <2>4
    <3> HIDE DEF l
    <3>2. files' = Cut(files, l)
      BY <1>3, <2>4, <3>1, NothingBehind
    <3>3. All(files).carry.segment = l /\ Len(CutAt(files, l)) = All(files).carry.at
      BY <3>1, BrokenPlace
    <3>4. /\ SoundAt(files', recs, l) /\ Exact(files', l) /\ files'[l] = CutAt(files, l)
          /\ All(files').ids = All(files).ids
      BY <1>1, <3>1, <3>2, TruncateSound
    <3>5. ~Broken(files')
      BY <3>4, ExactReady
    <3> QED  BY <1>3, <1>7, <2>4, <3>3, <3>4, <3>5
  <2>5. ~(r.stop = "underflow" \/ TooLarge(segments))
    BY <1>3
  <2> QED  BY <2>1, <2>3, <2>4, <2>5 DEF Restart, Created, segments, r
<1> QED  BY <1>1, <1>2, <1>5, <1>6, <1>8 DEF SoundLog

LEMMA CrashSound ==
    ASSUME Lasting, SoundLog, Crash, Undamaged'
    PROVE  SoundLog'
<1>1. /\ files' \in Torn /\ plan' = <<>> /\ active' = active /\ file_size' = file_size /\ mode' = "down"
      /\ IF files' = files THEN recs' = recs ELSE Settle("torn")
  BY DEF Crash
<1>2. files' = files /\ recs' = recs
  <2>1. SUFFICES ASSUME files' # files PROVE FALSE
    BY <1>1
  <2>2. Settle("torn") /\ plan # <<>> /\ "torn" \in Fates
    BY <1>1, <2>1 DEF Torn, Fates
  <2>3. recs \in Seq(Record) /\ Len(recs) > 0
    BY <2>2 DEF Lasting, RecordsTyped
  <2>4. recs' \in Seq(Record) /\ Len(recs') = Len(recs) /\ recs'[Len(recs)].fate = "torn"
    BY <2>2, <2>3, SettleRecords
  <2>5. Len(recs) \in DOMAIN recs'
    BY <2>3, <2>4
  <2> QED  BY <2>4, <2>5 DEF Undamaged, Faulty
<1>3. SequenceNumbersIncrease'
  BY <1>2 DEF SoundLog, SequenceNumbersIncrease
<1> QED  BY <1>1, <1>2, <1>3 DEF SoundLog

LEMMA PanicSound ==
    ASSUME Lasting, SoundLog, WritePanic
    PROVE  SoundLog'
<1> DEFINE last == Len(recs)
<1>1. /\ plan # <<>> /\ plan' = <<>> /\ mode' = "dead" /\ Settle("failed") /\ files' = files
      /\ active' = active /\ file_size' = file_size
  BY DEF WritePanic
<1>2. /\ recs \in Seq(Record) /\ last \in Nat /\ last > 0 /\ recs[last].fate = "pending" /\ "failed" \in Fates
  BY <1>1 DEF Lasting, RecordsTyped, Fates
<1>3. /\ recs' \in Seq(Record) /\ Len(recs') = Len(recs) /\ recs'[last].fate = "failed"
      /\ \A i \in 1 .. Len(recs) : recs'[i].lsn = recs[i].lsn /\ (i # last => recs'[i] = recs[i])
  BY <1>1, <1>2, SettleRecords
<1>4. Acked(recs') = Acked(recs)
  <2>1. \A i : i \in Acked(recs') <=> i \in 1 .. Len(recs) /\ recs'[i].fate = "acked"
    BY <1>3 DEF Acked
  <2>2. \A i : i \in Acked(recs) <=> i \in 1 .. Len(recs) /\ recs[i].fate = "acked"
    BY <1>2 DEF Acked
  <2>3. \A i : i \in Acked(recs') <=> i \in Acked(recs)
    BY <1>2, <1>3, <2>1, <2>2
  <2> QED  BY <2>3
<1>5. SequenceNumbersIncrease'
  <2>1. \A i \in 1 .. Len(recs) :
           /\ recs'[i].fate \in {"acked", "pending"} => recs[i].fate \in {"acked", "pending"}
           /\ i < Len(recs) /\ recs'[i].fate = "acked" => recs[i].fate = "acked"
    BY <1>2, <1>3
  <2>2. SequenceNumbersIncrease
    BY DEF SoundLog
  <2> QED  BY <1>2, <1>3, <2>1, <2>2, NumbersKept
<1>6. SoundAt(files, recs', active)
  <2>1. Len(recs) \in Nat /\ Len(recs') \in Nat /\ Len(recs) <= Len(recs') /\ SoundAt(files, recs, active)
    BY <1>2, <1>3 DEF SoundLog
  <2> QED  BY <1>3, <2>1, SoundFrame
<1> QED  BY <1>1, <1>4, <1>5, <1>6 DEF SoundLog

LEMMA ErrorDamages ==
    ASSUME Lasting, Error
    PROVE  ~Undamaged'
<1>1. recs \in Seq(Record) /\ Len(recs) > 0 /\ Settle("error") /\ "error" \in Fates
  BY DEF Error, Lasting, RecordsTyped, Fates
<1>2. recs' \in Seq(Record) /\ Len(recs') = Len(recs) /\ recs'[Len(recs)].fate = "error"
  BY <1>1, SettleRecords
<1>3. Len(recs) \in DOMAIN recs'
  BY <1>1, <1>2
<1> QED  BY <1>2, <1>3 DEF Undamaged, Faulty

(* The inductive invariant of the log: what lasts under any damage, and more *)
(* as long as there is none.                                                 *)
LogInvariant == Lasting /\ (Undamaged => SoundLog)

LEMMA InitLog == Init => LogInvariant
<1> SUFFICES ASSUME Init PROVE LogInvariant
  OBVIOUS
<1>1. Lasting
  BY InitLasting
<1>2. /\ files = [n \in {0} |-> <<>>] /\ active = 0 /\ file_size = 0 /\ plan = <<>> /\ recs = <<>>
      /\ mode = "run"
  BY DEF Init
<1>3. Directory(files) /\ 0 \in DOMAIN files /\ NonEmpty(files) = {}
  BY <1>1, <1>2 DEF Lasting, FilesTyped, NonEmpty
<1>4. SoundAt(files, recs, 0) /\ ~Broken(files) /\ All(files).ids = <<>> /\ Len(files[0]) = 0
  BY <1>3, EmptySound
<1>5. InOrder(Acked(recs)) = <<>>
  <2>1. Acked(recs) = {}
    BY <1>2 DEF Acked
  <2> QED  BY <2>1, InOrderEmpty
<1>6. SequenceNumbersIncrease
  BY <1>2 DEF SequenceNumbersIncrease
<1> QED  BY <1>1, <1>2, <1>4, <1>5, <1>6 DEF LogInvariant, SoundLog

LEMMA StepLog ==
    ASSUME LogInvariant, [Next]_vars
    PROVE  LogInvariant'
<1>1. Lasting /\ Lasting'
  BY StepLasting DEF LogInvariant
<1>2. SUFFICES ASSUME Undamaged' PROVE SoundLog'
  BY <1>1 DEF LogInvariant
<1>3. SoundLog
  BY <1>1, <1>2, DamageLasts DEF LogInvariant
<1>4. CASE \E size \in Sizes : AppendEntry(size)
  BY <1>1, <1>3, <1>4, AppendSound
<1>5. CASE Write
  BY <1>1, <1>3, <1>5, WriteStepSound
<1>6. CASE WritePanic
  BY <1>1, <1>3, <1>6, PanicSound
<1>7. CASE Rotate
  BY <1>1, <1>3, <1>7, RotateStepSound
<1>8. CASE Error
  BY <1>1, <1>2, <1>8, ErrorDamages
<1>9. CASE Crash
  BY <1>1, <1>2, <1>3, <1>9, CrashSound
<1>10. CASE Restart
  BY <1>1, <1>3, <1>10, RestartSound
<1>11. CASE UNCHANGED vars
  <2>1. /\ files' = files /\ active' = active /\ file_size' = file_size /\ plan' = plan /\ recs' = recs
        /\ mode' = mode
    BY <1>11 DEF vars
  <2>2. SequenceNumbersIncrease' /\ next_lsn' = next_lsn
    BY <1>3, <2>1 DEF SoundLog, SequenceNumbersIncrease, next_lsn, base_lsn
  <2> QED  BY <1>3, <2>1, <2>2 DEF SoundLog
<1> QED  BY <1>4, <1>5, <1>6, <1>7, <1>8, <1>9, <1>10, <1>11 DEF Next

LEMMA AlwaysLog == Spec => []LogInvariant
<1>1. LogInvariant /\ [Next]_vars => LogInvariant'
  BY StepLog
<1> QED  BY <1>1, InitLog, PTL DEF Spec

(* A log whose appends were at worst interrupted between two system calls is *)
(* replayed exactly: MemTable::recover finds every acknowledged record, in   *)
(* the order they were written, and no other, for records and segments of    *)
(* every size, however records are padded and split, and after any number of *)
(* crashes, recoveries and truncations.                                      *)
THEOREM SoundLogReplayed == Spec => []SoundLogRecovers
<1>1. ASSUME LogInvariant, Undamaged PROVE LogRecovers
  <2>1. Lasting /\ SoundLog
    BY <1>1 DEF LogInvariant
  <2>2. Recover(0).ids = InOrder(Acked(recs))
    BY <2>1, SoundRecovery
  <2> QED  BY <2>2 DEF LogRecovers, Ids, Acked
<1>2. LogInvariant => SoundLogRecovers
  BY <1>1 DEF SoundLogRecovers
<1> QED  BY <1>2, AlwaysLog, PTL

(* MemTable::start opens every such log: no segment file is too large, and   *)
(* the offset of a split record does not underflow.                          *)
THEOREM SoundLogOpened == Spec => []SoundLogOpens
<1>1. ASSUME LogInvariant, Undamaged PROVE RecoveryNeverFails
  <2>1. Lasting /\ SoundLog
    BY <1>1 DEF LogInvariant
  <2>2. /\ Recover(0).stop = IF Broken(files) THEN "corrupted" ELSE "no"
        /\ ~TooLarge(SegmentFiles(files, 0))
    BY <2>1, SoundRecovery
  <2> QED  BY <2>2 DEF RecoveryNeverFails
<1>2. LogInvariant => SoundLogOpens
  BY <1>1 DEF SoundLogOpens
<1> QED  BY <1>2, AlwaysLog, PTL

(* In every such log a later acknowledged record has a higher sequence       *)
(* number (Segment::next_lsn), across crashes, recoveries and truncations:   *)
(* what is cut off held no acknowledged record.                              *)
THEOREM SoundNumbersGrow == Spec => []SoundSequenceNumbersIncrease
<1>1. LogInvariant => SoundSequenceNumbersIncrease
  BY DEF LogInvariant, SoundSequenceNumbersIncrease, SoundLog
<1> QED  BY <1>1, AlwaysLog, PTL
=============================================================================
