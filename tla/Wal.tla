-------------------------------- MODULE Wal --------------------------------
(***************************************************************************)
(* The write-ahead log as files of cells: memtable/wal.rs, memtable/wal/     *)
(* segment.rs and the recovery in MemTable::start (memtable.rs).             *)
(*                                                                         *)
(* A record of n cells is a header of HeaderSize cells (13 bytes in the      *)
(* code: length, checksum, operation, key length) and a body.  The first     *)
(* cell tells the length; the checksum holds when all cells of the record    *)
(* follow one another.  An append is a plan of system calls, and the process *)
(* may end between any two of them.                                          *)
(*                                                                         *)
(* Segment n covers the sequence numbers from n * SegSize on: SegSize        *)
(* divides the 2^32 bytes of a logical log, and the two parts of a file name *)
(* make one number.                                                          *)
(***************************************************************************)
EXTENDS Ordering, SequencesExt

CONSTANTS
    SegSize,        \* segment_size, in cells
    HeaderSize,     \* HEADER_SIZE, in cells
    Sizes,          \* the sizes of the records written
    TornWrites,     \* a write may be cut short by a crash or an error
    WriteErrors,    \* a write or the creation of a file may fail
    MaxRecords,     \* bound: records written
    MaxFaults,      \* bound: appends that fail or are torn
    MaxCrashes      \* bound: process crashes

ASSUME WalAssumption ==
    /\ HeaderSize \in Nat \ {0}
    /\ SegSize \in Nat /\ SegSize > HeaderSize
    /\ Sizes \subseteq Nat /\ \A n \in Sizes : n > HeaderSize
    /\ TornWrites \in BOOLEAN /\ WriteErrors \in BOOLEAN
    /\ MaxRecords \in Nat /\ MaxFaults \in Nat /\ MaxCrashes \in Nat

VARIABLES
    files,          \* the segment files of the directory, by segment number
    active,         \* Wal::active_segment: its number
    file_size,      \* Segment::file_size, which the code keeps in memory
    plan,           \* the system calls left of the append in progress
    recs,           \* every record so far: its size, sequence number and fate
    mode,           \* "run", "dead" (the write worker panicked), "down" or
                    \* "failed" (MemTable::start cannot start)
    crashes

vars == <<files, active, file_size, plan, recs, mode, crashes>>

-----------------------------------------------------------------------------
(* Cells                                                                    *)

Zero == [id |-> 0, size |-> 0, pos |-> 0]

(* Cells a to b of record id.                                               *)
Cells(id, size, a, b) ==
    [i \in 1 .. b - a + 1 |-> [id |-> id, size |-> size, pos |-> a + i - 1]]

Padding(n) == [i \in 1 .. n |-> Zero]

(* Seeded fault: the offset within the segment.                             *)
next_lsn_in_segment == file_size

(* Segment::new and from read it off the file name.                         *)
base_lsn == active * SegSize

(* Segment::next_lsn                                                        *)
next_lsn == base_lsn + file_size

remaining_space == SegSize - file_size

-----------------------------------------------------------------------------
(* Wal::append                                                              *)

WriteCall(cells) == [call |-> "write", cells |-> cells, segment |-> 0]

RotateCall(n) == [call |-> "rotate", cells |-> <<>>, segment |-> n]

(* Seeded fault: the segment of the record's first cell.                     *)
AppendPlanSameSegment(id, size) ==
    LET free == remaining_space
        next == RotateCall(next_lsn \div SegSize)
    IN  IF size <= free
        THEN <<WriteCall(Cells(id, size, 1, size))>>
        ELSE <<WriteCall(Padding(free)), next, WriteCall(Cells(id, size, 1, size))>>

(* The three ways to lay out a record: it fits; its header fits, and the     *)
(* body starts the next segment; or the whole record does.                   *)
AppendPlan(id, size) ==
    LET free == remaining_space
        next == RotateCall((next_lsn + size) \div SegSize)
    IN  IF size <= free
        THEN <<WriteCall(Cells(id, size, 1, size))>>
        ELSE IF HeaderSize <= free
        THEN <<WriteCall(Cells(id, size, 1, HeaderSize)), WriteCall(Padding(free - HeaderSize)),
               next, WriteCall(Cells(id, size, HeaderSize + 1, size))>>
        ELSE <<WriteCall(Padding(free)), next, WriteCall(Cells(id, size, 1, size))>>

AppendEntry(size) ==
    /\ mode = "run" /\ plan = <<>> /\ Len(recs) < MaxRecords
    /\ recs' = Append(recs, [size |-> size, lsn |-> next_lsn, fate |-> "pending"])
    /\ plan' = AppendPlan(Len(recs) + 1, size)
    /\ UNCHANGED <<files, active, file_size, mode, crashes>>

(* The fate of the record being written.                                     *)
Settle(fate) == recs' = [recs EXCEPT ![Len(recs)].fate = fate]

(* Seeded fault: no assertion.                                              *)
FitsUnchecked == TRUE

(* Segment::append: an assertion, write_all, and the new size in memory.     *)
Fits == file_size + Len(Head(plan).cells) <= SegSize

Write ==
    /\ plan # <<>> /\ Head(plan).call = "write" /\ Fits
    /\ files' = [files EXCEPT ![active] = @ \o Head(plan).cells]
    /\ file_size' = file_size + Len(Head(plan).cells)
    /\ plan' = Tail(plan)
    /\ IF Len(plan) = 1 THEN Settle("acked") ELSE UNCHANGED recs
    /\ UNCHANGED <<active, mode, crashes>>

WritePanic ==
    /\ plan # <<>> /\ Head(plan).call = "write" /\ ~Fits
    /\ plan' = <<>>
    /\ mode' = "dead"
    /\ Settle("failed")
    /\ UNCHANGED <<files, active, file_size, crashes>>

(* Seeded fault: the new segment inherits the size of the old one.           *)
RotateKeepsSize ==
    /\ plan # <<>> /\ Head(plan).call = "rotate"
    /\ LET n == Head(plan).segment IN
       /\ files' = [m \in DOMAIN files \cup {n} |-> IF m = n THEN <<>> ELSE files[m]]
       /\ active' = n
    /\ plan' = Tail(plan)
    /\ UNCHANGED <<file_size, recs, mode, crashes>>

(* Wal::rotate: File::create empties the file if there is one.               *)
Rotate ==
    /\ plan # <<>> /\ Head(plan).call = "rotate"
    /\ LET n == Head(plan).segment IN
       /\ files' = [m \in DOMAIN files \cup {n} |-> IF m = n THEN <<>> ELSE files[m]]
       /\ active' = n
    /\ file_size' = 0
    /\ plan' = Tail(plan)
    /\ UNCHANGED <<recs, mode, crashes>>

(* Appends that left something behind which recovery has to cope with: an    *)
(* error after some of the system calls, or a write torn by the crash.        *)
Faulty == {i \in DOMAIN recs : recs[i].fate \in {"error", "torn"}}

MayFail == Cardinality(Faulty) < MaxFaults

(* What a write that is cut short may have put into the file.                *)
Torn ==
    IF TornWrites /\ MayFail /\ plan # <<>> /\ Head(plan).call = "write"
    THEN {files} \cup {[files EXCEPT ![active] = @ \o SubSeq(Head(plan).cells, 1, n)] :
                          n \in 1 .. Len(Head(plan).cells) - 1}
    ELSE {files}

(* The ? operators of append: the error goes to the caller and the log is    *)
(* left as it is, file_size included.                                        *)
Error ==
    /\ WriteErrors /\ MayFail /\ plan # <<>>
    /\ files' \in Torn
    /\ plan' = <<>>
    /\ Settle("error")
    /\ UNCHANGED <<active, file_size, mode, crashes>>

-----------------------------------------------------------------------------
(* Recovery: MemTable::start                                                 *)

(* Seeded fault: the checksum is not compared.                               *)
WholeRecordUnchecked(b, o) == TRUE

(* WalEntry::from_bytes: the length and the checksum in the header hold for   *)
(* the cells after offset o.                                                 *)
WholeRecord(b, o) ==
    LET c == b[o + 1] IN SubSeq(b, o + 1, o + c.size) = Cells(c.id, c.size, 1, c.size)

(* parse_validate_wal_entries over the cells b: the records read, and how    *)
(* and where reading ended.  A tail shorter than a header counts as padding. *)
Parse(b) ==
    LET parse[o \in 0 .. Len(b)] ==
          IF o + HeaderSize > Len(b) THEN [ids |-> <<>>, end |-> "clean", at |-> o]
          ELSE LET c == b[o + 1] IN
               IF c.pos # 1 THEN [ids |-> <<>>, end |-> "corrupted", at |-> o]
               ELSE IF o + c.size > Len(b) THEN [ids |-> <<>>, end |-> "partial", at |-> o]
               ELSE IF ~WholeRecord(b, o) THEN [ids |-> <<>>, end |-> "corrupted", at |-> o]
               ELSE [parse[o + c.size] EXCEPT !.ids = <<c.id>> \o @]
    IN  parse[0]

(* Whether segment n ends behind a sequence number, as the code reckons: with *)
(* the size of the file for the size of a segment.                           *)
final_entry_after(n, size, seq) == seq < size * (n + 1)

(* MemTable::list_segment_files                                              *)
SegmentFiles(fs, seq) ==
    InOrder({n \in DOMAIN fs : final_entry_after(n, Len(fs[n]), seq)})

Nowhere == [segment |-> 0, at |-> 0, cells |-> <<>>]

(* One segment of the loop in MemTable::recover.  carry is the header that   *)
(* ended the segment before; stop is set once recovery is over: at a         *)
(* corrupted place, or by the underflow of part_entry.offset.                *)
RecoverSegment(fs, acc, n, offset) ==
    IF acc.stop # "no" THEN acc
    ELSE IF acc.carry.cells = <<>>
    THEN LET b == SubSeq(fs[n], offset + 1, Len(fs[n]))
             p == Parse(b)
             place == [segment |-> n, at |-> p.at + offset, cells |-> <<>>]
         IN  [ids |-> acc.ids \o p.ids,
              stop |-> IF p.end = "corrupted" THEN "corrupted" ELSE "no",
              carry |-> IF p.end = "partial"
                        THEN [place EXCEPT !.cells = SubSeq(b, p.at + 1, p.at + HeaderSize)]
                        ELSE place]
    ELSE LET b == acc.carry.cells \o fs[n]
             p == Parse(b)
             place == [segment |-> n, cells |-> <<>>,
                       at |-> IF p.at > HeaderSize THEN p.at - HeaderSize ELSE p.at]
         IN  [ids |-> acc.ids \o p.ids,
              stop |-> IF p.end = "corrupted" THEN "corrupted"
                       ELSE IF p.end = "partial" /\ p.at < HeaderSize THEN "underflow"
                       ELSE "no",
              carry |-> IF p.end = "corrupted" /\ p.ids = <<>>
                        THEN [acc.carry EXCEPT !.cells = <<>>]
                        ELSE IF p.end = "partial"
                        THEN [place EXCEPT !.at = p.at - HeaderSize,
                                           !.cells = SubSeq(b, p.at + 1, p.at + HeaderSize)]
                        ELSE place]

(* MemTable::recover from a sequence number: the records replayed, in order, *)
(* and the place where the log is corrupted, if it is.  A header left over   *)
(* at the end of the last segment is corruption too.                         *)
RecoverSegments(fs, segments, offset) ==
    FoldLeft(LAMBDA acc, n : RecoverSegment(fs, acc, n, IF n = segments[1] THEN offset ELSE 0),
             [ids |-> <<>>, stop |-> "no", carry |-> Nowhere], segments)

Recover(seq) ==
    LET acc == RecoverSegments(files, SegmentFiles(files, seq), seq % SegSize)
    IN  [acc EXCEPT !.stop = IF @ = "no" /\ acc.carry.cells # <<>> THEN "corrupted" ELSE @]

(* The files left after truncate_and_open_segment_file and the removal of    *)
(* the segments behind it.                                                   *)
Truncated(place) ==
    LET cut == [files EXCEPT ![place.segment] = SubSeq(@, 1, place.at)]
        behind == Range(SegmentFiles(cut, place.segment * SegSize + place.at))
    IN  [n \in DOMAIN cut \ behind |-> cut[n]]

(* find_and_open_segments refuses a file larger than a segment.              *)
TooLarge(segments) == \E n \in Range(segments) : Len(files[n]) > SegSize

Restart ==
    /\ mode = "down"
    /\ LET segments == SegmentFiles(files, 0)
           r == Recover(0)
       IN
       /\ recs' = [i \in DOMAIN recs |->
             IF recs[i].fate # "pending" THEN recs[i]
             ELSE [recs[i] EXCEPT !.fate = IF i \in Range(r.ids) THEN "acked" ELSE "failed"]]
       /\ \/ /\ segments = <<>>
             /\ files' = [n \in DOMAIN files \cup {0} |-> IF n = 0 THEN <<>> ELSE files[n]]
             /\ active' = 0 /\ file_size' = 0 /\ mode' = "run"
          \/ /\ segments # <<>> /\ ~TooLarge(segments) /\ r.stop = "no"
             /\ active' = Last(segments)
             /\ file_size' = Len(files[Last(segments)])
             /\ mode' = "run"
             /\ UNCHANGED files
          \/ /\ segments # <<>> /\ ~TooLarge(segments) /\ r.stop = "corrupted"
             /\ files' = Truncated(r.carry)
             /\ active' = r.carry.segment
             /\ file_size' = r.carry.at
             /\ mode' = "run"
          \/ /\ r.stop = "underflow" \/ TooLarge(segments)
             /\ mode' = "failed"
             /\ UNCHANGED <<files, active, file_size>>
    /\ UNCHANGED <<plan, crashes>>

Crash ==
    /\ mode \in {"run", "dead"} /\ crashes < MaxCrashes
    /\ crashes' = crashes + 1
    /\ files' \in Torn
    /\ mode' = "down"
    /\ plan' = <<>>
    /\ IF files' = files THEN UNCHANGED recs ELSE Settle("torn")
    /\ UNCHANGED <<active, file_size>>

-----------------------------------------------------------------------------
(* Wal::create_new                                                           *)
Init ==
    /\ files = [n \in {0} |-> <<>>]
    /\ active = 0 /\ file_size = 0
    /\ plan = <<>> /\ recs = <<>>
    /\ mode = "run" /\ crashes = 0

Next ==
    \/ \E size \in Sizes : AppendEntry(size)
    \/ Write \/ WritePanic \/ Rotate \/ Error \/ Crash \/ Restart

Spec == Init /\ [][Next]_vars

-----------------------------------------------------------------------------
(* Properties                                                               *)

Cell ==
    {Zero} \cup {c \in [id : 1 .. MaxRecords, size : Sizes, pos : Nat] : c.pos \in 1 .. c.size}

(* Every variable keeps its type.                                            *)
TypeOK ==
    /\ DOMAIN files \subseteq Nat
    /\ \A n \in DOMAIN files : files[n] \in Seq(Cell)
    /\ mode = "run" => active \in DOMAIN files /\ Len(files[active]) >= file_size
    /\ recs \in Seq([size : Sizes, lsn : Nat,
                      fate : {"pending", "acked", "failed", "error", "torn"}])
    /\ mode \in {"run", "dead", "down", "failed"}
    /\ crashes \in 0 .. MaxCrashes

Ids(fate) == InOrder({i \in DOMAIN recs : recs[i].fate = fate})

(* Whenever the process ends, a restart replays exactly the acknowledged     *)
(* records, in the order they were written, and at most the record in        *)
(* progress after them: no padding, split record, rotation, half-done append *)
(* or earlier recovery makes MemTable::recover drop, repeat, reorder or       *)
(* revive one.                                                               *)
LogRecovers == Recover(0).ids \in {Ids("acked"), Ids("acked") \o Ids("pending")}

(* Whatever an append in progress has left behind, MemTable::start finds     *)
(* either a sound log or a place to truncate it at: no file outgrows its     *)
(* segment, and the offset arithmetic of read_parse_validate_from_partial_   *)
(* record does not underflow.                                                *)
RecoveryNeverFails == Recover(0).stop # "underflow" /\ ~TooLarge(SegmentFiles(files, 0))

(* Whatever errors and torn writes have done to the log, a restart revives   *)
(* no record whose append has failed and replays none twice: recovery may    *)
(* stop early, the checksum keeps it from making up data.                     *)
NothingRevived ==
    LET ids == Recover(0).ids IN
    /\ \A i \in DOMAIN ids : recs[ids[i]].fate \in {"acked", "pending"}
    /\ \A i, j \in DOMAIN ids : i # j => ids[i] # ids[j]

(* A later acknowledged record has a higher sequence number, across segment  *)
(* boundaries, failed appends, truncation and restarts: OverlappingLevel::   *)
(* get and the merge pick the newest entry by it.                             *)
SequenceNumbersIncrease ==
    \A i, j \in DOMAIN recs :
        i < j /\ recs[i].fate = "acked" /\ recs[j].fate \in {"acked", "pending"}
            => recs[i].lsn < recs[j].lsn

Undamaged == Faulty = {}

(* LogRecovers for every log whose appends were at worst interrupted between *)
(* two system calls; a torn write or a write error breaks it (memtable/wal.   *)
(* rs:56 leaves partial writes open).                                        *)
SoundLogRecovers == Undamaged => LogRecovers

(* MemTable::start opens every such log.                                     *)
SoundLogOpens == Undamaged => RecoveryNeverFails

(* Sequence numbers grow in every such log; after a truncation at a damaged   *)
(* record they start again from the place of the damage.                     *)
SoundSequenceNumbersIncrease == Undamaged => SequenceNumbersIncrease

(* Until the process first ends sequence numbers grow whatever errors the    *)
(* appends meet: an append that fails after some of its system calls leaves  *)
(* file_size and the active segment where the next one may start.            *)
FirstLifeNumbersIncrease == crashes = 0 => SequenceNumbersIncrease

(* Until then the log only grows, too: the file that Wal::rotate creates was *)
(* not there, so that File::create empties none, and nothing is written but  *)
(* behind what a file has.                                                   *)
LogAppendOnly ==
    [][ crashes' = 0 =>
          \A n \in DOMAIN files : n \in DOMAIN files' /\ IsPrefix(files[n], files'[n]) ]_vars
=============================================================================
