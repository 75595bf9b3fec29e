----------------------------- MODULE Compaction -----------------------------
(***************************************************************************)
(* The SSTable with its background compaction: SsTable (sstable.rs), the     *)
(* LevelContainer with from_dir (level.rs) and CompactionBt (compaction.rs), *)
(* with the flusher and readers that use them, crashes and restarts.         *)
(*                                                                         *)
(* A segment in memory is an open file.  It stays readable when its name is  *)
(* removed, and is spoilt when the file is opened again under its name and   *)
(* written over, which neither the flusher nor the segment writer guards     *)
(* against: both open without truncating.  Flushes go to the directory that  *)
(* from_dir searches, as in the tests of sstable.rs.                         *)
(***************************************************************************)
EXTENDS Level, Functions

CONSTANTS
    Keys,
    Flushes,          \* the memtables flushed: functions from keys to sizes
    Readers,
    L0Target,         \* level_zero_target_size
    LevelSizeFactor,  \* level_size_factor
    IndexFactor,      \* index_sparsity_factor
    SpuriousWakeups,  \* the condition variable may wake without a notification
    IoErrors,         \* writing a segment file may fail
    MaxFlushes,       \* bound: flushes
    MaxCompactions,   \* bound: compactions
    MaxLives          \* bound: lives of the process

ASSUME CompactionAssumption ==
    /\ Keys \subseteq Nat \ {0}
    /\ \A f \in Flushes : DOMAIN f \subseteq Keys /\ DOMAIN f # {}
    /\ {L0Target, LevelSizeFactor, IndexFactor, MaxFlushes, MaxCompactions, MaxLives} \subseteq Nat \ {0}
    /\ SpuriousWakeups \in BOOLEAN /\ IoErrors \in BOOLEAN

VARIABLES
    mode,           \* "up", "dropping" (Drop for SsTable), "down" or "failed"
                    \* (SsTable::start returned an error, panicked or hangs)
    level_zero, levels,     \* the LevelContainer: segments and partitioned levels
    files,          \* the directory: from <<level, number>> to what is in the file
    spoilt,         \* segments whose open file has been written over
    flusher,        \* Flusher::flush: program counter and the segment written
    bt,             \* CompactionBt::run: program counter and local variables
    to_delete,      \* CompactionBt::segments_to_delete
    snapshots,      \* the levels each reader holds
    flushes, compactions, lives

disk == <<files, spoilt>>
container == <<level_zero, levels>>
vars == <<mode, level_zero, levels, files, spoilt, flusher, bt, to_delete, snapshots,
          flushes, compactions, lives>>

Name(s) == <<s.level, s.number>>
Whole(s) == [state |-> "whole", seg |-> s]

(* A file with a length of its own that has no footer yet: too short for one *)
(* (nothing of the BufWriter has been written), or cut off in the data.      *)
Partial(s) == {[state |-> "short", seg |-> s], [state |-> "torn", seg |-> s]}

LevelZero == [new_level(0, L0Target, IndexFactor) EXCEPT !.segments = level_zero]

SegmentsIn(ls) == UNION {ToSet(ls[i].segments) : i \in DOMAIN ls}
EntriesIn(segments) == UNION {ToSet(s.entries) : s \in segments}

(* A reader that holds no levels; a snapshot of empty levels is none.        *)
NoSnapshot == [level_zero |-> <<>>, levels |-> <<>>]

(* Segments something other than the list of deletions refers to.            *)
Referenced ==
    ToSet(level_zero) \cup SegmentsIn(levels)
        \cup UNION {ToSet(snapshots[r].level_zero) : r \in Readers}
        \cup UNION {SegmentsIn(snapshots[r].levels) : r \in Readers}

Occupied(fs, n) == n \in DOMAIN fs /\ fs[n].state \in {"whole", "mixed"}

WithoutFiles(fs, names) == [n \in DOMAIN fs \ names |-> fs[n]]

(* notify_one reaches the background thread only while it waits.             *)
Notified == [bt EXCEPT !.woken = @ \/ bt.pc = "wait"]

-----------------------------------------------------------------------------
(* Flusher::flush                                                           *)

FlushEntries(table) ==
    LET keys == SetToSortSeq(DOMAIN table, <)
    IN  [i \in DOMAIN keys |-> [key |-> keys[i], seq |-> flushes + 1, size |-> table[keys[i]]]]

(* The number is the highest of level zero plus one.  Opening creates the    *)
(* file if there is none, and changes nothing else.                          *)
FlushOpen(table) ==
    LET s == flushed_segment(highest_segment_number(LevelZero) + 1, FlushEntries(table), IndexFactor)
    IN
    /\ mode = "up" /\ flusher.pc = "idle" /\ flushes < MaxFlushes
    /\ flushes' = flushes + 1
    /\ flusher' = [pc |-> "opened", seg |-> s]
    /\ files' = IF Name(s) \in DOMAIN files THEN files
                ELSE Name(s) :> [state |-> "short", seg |-> s] @@ files
    /\ UNCHANGED <<mode, level_zero, levels, spoilt, bt, to_delete, snapshots, compactions, lives>>

(* A longer file that was there keeps its end, and with it its footer.  If   *)
(* the name has been removed meanwhile, the data goes to a file without one. *)
FlushWrite ==
    LET s == flusher.seg
        n == Name(s)
        mixed == Occupied(files, n) /\ files[n].seg.size > s.size
    IN
    /\ mode = "up" /\ flusher.pc = "opened"
    /\ flusher' = [flusher EXCEPT !.pc = "written"]
    /\ files' = IF n \notin DOMAIN files THEN files
                ELSE IF mixed THEN [files EXCEPT ![n].state = "mixed"]
                ELSE [files EXCEPT ![n] = Whole(s)]
    /\ spoilt' = spoilt \cup (IF Occupied(files, n) THEN {files[n].seg} ELSE {})
                       \cup (IF mixed THEN {s} ELSE {})
    /\ UNCHANGED <<mode, level_zero, levels, bt, to_delete, snapshots, flushes, compactions, lives>>

(* The write worker panics when a flush fails.                               *)
FlushError ==
    /\ mode = "up" /\ flusher.pc = "opened" /\ IoErrors
    /\ flusher' = [flusher EXCEPT !.pc = "dead"]
    /\ files' \in {files} \cup
          {[files EXCEPT ![Name(flusher.seg)] = f] :
              f \in IF Name(flusher.seg) \notin DOMAIN files THEN {}
                    ELSE IF Occupied(files, Name(flusher.seg))
                    THEN {[files[Name(flusher.seg)] EXCEPT !.state = "mixed"]}
                    ELSE Partial(flusher.seg)}
    /\ spoilt' = IF files' = files THEN spoilt ELSE spoilt \cup {files[Name(flusher.seg)].seg}
    /\ UNCHANGED <<mode, level_zero, levels, bt, to_delete, snapshots, flushes, compactions, lives>>

(* SsTable::find_and_add_segment, under the container's write lock.  A file  *)
(* that is gone is an error; one that mixes two segments may be one.         *)
FlushAdd ==
    /\ mode = "up" /\ flusher.pc = "written"
    /\ \/ /\ Name(flusher.seg) \in DOMAIN files
          /\ level_zero' = Append(level_zero, flusher.seg)
          /\ flusher' = [flusher EXCEPT !.pc = "idle"]
          /\ bt' = IF exceeds_target_size([LevelZero EXCEPT !.segments = level_zero'])
                   THEN Notified ELSE bt
       \/ /\ Name(flusher.seg) \notin DOMAIN files \/ flusher.seg \in spoilt
          /\ flusher' = [flusher EXCEPT !.pc = "dead"]
          /\ UNCHANGED <<level_zero, bt>>
    /\ UNCHANGED <<mode, levels, files, spoilt, to_delete, snapshots, flushes, compactions, lives>>

-----------------------------------------------------------------------------
(* SsTable::get                                                             *)

(* A reader clones the container's lists under the lock ...                  *)
ReadSnapshot(r) ==
    /\ mode = "up" /\ snapshots[r] = NoSnapshot
    /\ snapshots' = [snapshots EXCEPT ![r] = [level_zero |-> level_zero, levels |-> levels]]
    /\ UNCHANGED <<mode, level_zero, levels, files, spoilt, flusher, bt, to_delete, flushes, compactions, lives>>

(* ... searches them, and lets go of them.                                   *)
ReadReturn(r) ==
    /\ mode = "up" /\ snapshots[r] # NoSnapshot
    /\ snapshots' = [snapshots EXCEPT ![r] = NoSnapshot]
    /\ UNCHANGED <<mode, level_zero, levels, files, spoilt, flusher, bt, to_delete, flushes, compactions, lives>>

(* What the search returns.                                                 *)
SstGet(snapshot, key) ==
    LET zero == OverlappingGet([LevelZero EXCEPT !.segments = snapshot.level_zero], key)
        found == {i \in DOMAIN snapshot.levels : PartitionedGet(snapshot.levels[i], key) # NoEntry}
    IN  IF zero # NoEntry THEN zero
        ELSE IF found = {} THEN NoEntry
        ELSE PartitionedGet(snapshot.levels[Min(found)], key)
-----------------------------------------------------------------------------
(* CompactionBt::run                                                        *)

others == <<mode, flusher, snapshots, flushes, lives>>

Idle == [pc |-> "wait", woken |-> FALSE, from |-> "zero", incoming |-> <<>>,
         kept |-> <<>>, made |-> <<>>, todo |-> <<>>, target |-> 0, number |-> 0]

(* The thread has gone, or is caught in a loop.                              *)
Gone(result) == [Idle EXCEPT !.pc = IF result = "spins" THEN "spins" ELSE "dead"]

TooLarge == {i \in DOMAIN levels : exceeds_target_size(levels[i])}

(* Seeded fault: stop is not looked at after the wait.                       *)
WakeIgnoresStop(pc) ==
    /\ bt.pc = "wait" /\ mode \in {"up", "dropping"} /\ compactions < MaxCompactions
    /\ bt' = [Idle EXCEPT !.pc = pc]
    /\ UNCHANGED <<others, compactions, container, disk, to_delete>>

(* wait_timeout returns: stop is looked at first.  Whatever is not a timeout *)
(* counts as a request to compact level zero.  A wake-up that leads to a     *)
(* compaction counts towards the bound.                                      *)
Wake(pc) ==
    LET compacts == mode = "up" /\ (pc = "zero" \/ TooLarge # {})
    IN
    /\ bt.pc = "wait" /\ mode \in {"up", "dropping"}
    /\ compacts => compactions < MaxCompactions
    /\ compactions' = compactions + IF compacts THEN 1 ELSE 0
    /\ bt' = [Idle EXCEPT !.pc = IF mode = "dropping" THEN "ended" ELSE pc]
    /\ UNCHANGED <<others, container, disk, to_delete>>

WakeNotified == bt.woken /\ Wake("zero")
WakeSpuriously == SpuriousWakeups /\ Wake("zero")
WakeTimeout == Wake("higher")

(* The next merge, with what segments_to_merge has chosen; it may not have   *)
(* returned.                                                                *)
Chosen(r, next) == IF r.result = "ok" THEN [next EXCEPT !.incoming = r.segments] ELSE Gone(r.result)

(* compact_from_level_zero: the snapshot.                                    *)
CompactZero ==
    /\ bt.pc = "zero"
    /\ bt' = Chosen(segments_to_merge(LevelZero),
                    [Idle EXCEPT !.pc = "merge", !.todo = levels,
                                 !.target = L0Target, !.number = 1])
    /\ UNCHANGED <<others, compactions, container, disk, to_delete>>

(* find_partitioned_levels_to_compact and the start of                       *)
(* compact_from_partitioned_level: the first level that is too large is      *)
(* taken out of the list.  If there is none the same levels are swapped in.  *)
CompactHigher ==
    /\ bt.pc = "find"
    /\ \/ /\ TooLarge = {}
          /\ bt' = Idle
       \/ \E i \in {j \in TooLarge : \A k \in TooLarge : j <= k} :
             bt' = Chosen(segments_to_merge(levels[i]),
                          [Idle EXCEPT !.pc = "merge", !.from = "higher",
                                       !.kept = SubSeq(levels, 1, i - 1),
                                       !.todo = SubSeq(levels, i + 1, Len(levels)),
                                       !.target = levels[i].target,
                                       !.number = levels[i].number + 1])
    /\ UNCHANGED <<others, compactions, container, disk, to_delete>>

(* The level merged into: the next one, or a new one with factor 1.          *)
MergeBase ==
    IF bt.todo # <<>> THEN Head(bt.todo)
    ELSE new_level(bt.number, bt.target * LevelSizeFactor, 1)

(* The file a merge that never ends has begun.                               *)
Unfinished == from_file(MergeBase.number, FirstNewNumber(MergeBase), <<>>, <<>>)

(* The files written whose names are taken already.                          *)
Clash(m) == {s \in ToSet(m.written) : Occupied(files, Name(s))}

(* Where the loop goes: on to the next level, or out of it.  New levels all  *)
(* get the same target size: one segment that exceeds it is merged into new  *)
(* levels for ever.                                                         *)
AfterMerge(m, next) ==
    IF m.result # "ok" THEN Gone(m.result)
    ELSE IF ~exceeds_target_size(m.level) THEN next
    ELSE IF bt.todo = <<>> /\ Len(m.level.segments) = 1 THEN Gone("spins")
    ELSE Chosen(segments_to_merge(m.level), [next EXCEPT !.pc = "merge"])

FilesOf(segments) ==
    [n \in {Name(s) : s \in segments} |-> Whole(CHOOSE s \in segments : Name(s) = n)]

(* One turn of the loop.  The new files are seen by others only in the       *)
(* directory after a crash.  create_new_segment starts to count at the       *)
(* length of a file that is there already: reading it back fails, or yields  *)
(* something else.                                                          *)
MergeLevel ==
    /\ bt.pc = "merge"
    /\ \E m \in {merge(MergeBase, bt.incoming)} :
          /\ bt' \in {AfterMerge(m, [bt EXCEPT
                           !.pc = "swap", !.made = Append(@, m.level), !.incoming = <<>>,
                           !.todo = IF @ = <<>> THEN @ ELSE Tail(@),
                           !.target = IF bt.todo = <<>> THEN @ ELSE MergeBase.target,
                           !.number = @ + 1])}
                     \cup (IF Clash(m) # {} THEN {Gone("panic")} ELSE {})
          /\ to_delete' = to_delete \o m.segments_to_delete
          /\ files' = [n \in {Name(s) : s \in Clash(m)} |-> [files[n] EXCEPT !.state = "mixed"]]
                         @@ FilesOf(ToSet(m.written) \ Clash(m))
                         @@ (IF m.result = "ok" THEN files
                             ELSE files @@ Name(Unfinished) :> [state |-> "short", seg |-> Unfinished])
          /\ spoilt' = spoilt \cup Clash(m) \cup {files[Name(s)].seg : s \in Clash(m)}
    /\ UNCHANGED <<others, compactions, container>>

(* What a merge that ends early leaves: the first files, and part of one.    *)
MergeLeft(m) ==
    UNION {{(Name(m.written[k]) :> f) @@ FilesOf({m.written[j] : j \in 1 .. k - 1}) @@ files :
               f \in Partial(m.written[k])} :
           k \in {j \in DOMAIN m.written : Clash(m) = {}}}

(* An error ends the thread (by break or by unwrap).                         *)
MergeError ==
    /\ bt.pc = "merge" /\ IoErrors
    /\ bt' = Gone("error")
    /\ files' \in {files} \cup MergeLeft(merge(MergeBase, bt.incoming))
    /\ UNCHANGED <<others, compactions, container, spoilt, to_delete>>

(* Seeded fault: the compaction of level zero leaves level zero alone.       *)
SwapKeepsZero ==
    /\ bt.pc = "swap"
    /\ levels' = bt.kept \o bt.made \o bt.todo
    /\ bt' = IF bt.from = "zero" THEN [Idle EXCEPT !.pc = "remove"] ELSE Idle
    /\ UNCHANGED <<others, compactions, level_zero, disk, to_delete>>

(* Seeded fault: everything level zero held is scheduled for deletion, also   *)
(* what has not been merged.                                                 *)
SwapDeletesZero ==
    /\ bt.pc = "swap"
    /\ levels' = bt.kept \o bt.made \o bt.todo
    /\ level_zero' = IF bt.from = "zero" THEN <<>> ELSE level_zero
    /\ to_delete' = to_delete \o (IF bt.from = "zero" THEN level_zero ELSE <<>>)
    /\ bt' = IF bt.from = "zero" THEN [Idle EXCEPT !.pc = "remove"] ELSE Idle
    /\ UNCHANGED <<others, compactions, disk>>

(* swap_all_levels installs an empty level zero, swap_partitioned_levels      *)
(* leaves it alone.                                                         *)
Swap ==
    /\ bt.pc = "swap"
    /\ levels' = bt.kept \o bt.made \o bt.todo
    /\ level_zero' = IF bt.from = "zero" THEN <<>> ELSE level_zero
    /\ bt' = IF bt.from = "zero" THEN [Idle EXCEPT !.pc = "remove"] ELSE Idle
    /\ UNCHANGED <<others, compactions, disk, to_delete>>

(* Seeded fault: a segment that is referred to once more counts as free.     *)
FreeEarly(i) ==
    Cardinality({r \in Readers : to_delete[i] \in ToSet(snapshots[r].level_zero)
                                      \cup SegmentsIn(snapshots[r].levels)}) <= 1

(* Arc::strong_count is 1: the entry of the list is the only reference.      *)
Free(i) ==
    /\ to_delete[i] \notin Referenced
    /\ \A j \in DOMAIN to_delete : to_delete[j] = to_delete[i] => j = i

(* remove_segment_files                                                     *)
RemoveFiles ==
    LET free == {i \in DOMAIN to_delete : Free(i)}
        stay == SelectSeq([i \in DOMAIN to_delete |-> i], LAMBDA i : i \notin free)
    IN
    /\ bt.pc \in {"remove", "higher"}
    /\ to_delete' = [j \in DOMAIN stay |-> to_delete[stay[j]]]
    /\ files' = WithoutFiles(files, {Name(to_delete[i]) : i \in free})
    /\ bt' = IF bt.pc = "remove" THEN Idle ELSE [Idle EXCEPT !.pc = "find"]
    /\ UNCHANGED <<others, compactions, container, spoilt>>
-----------------------------------------------------------------------------
(* Drop for SsTable, the end of the process, and SsTable::start              *)

(* The last user of the SsTable is done: no flush, no reader.  stop is set,  *)
(* the thread is notified and joined.                                        *)
DropSsTable ==
    /\ mode = "up" /\ flusher.pc \in {"idle", "dead"}
    /\ \A r \in Readers : snapshots[r] = NoSnapshot
    /\ mode' = "dropping"
    /\ bt' = Notified
    /\ UNCHANGED <<container, disk, flusher, to_delete, snapshots, flushes, compactions, lives>>

Down ==
    /\ mode' = "down"
    /\ level_zero' = <<>> /\ levels' = <<>>
    /\ spoilt' = {} /\ to_delete' = <<>>
    /\ flusher' = [pc |-> "dead", seg |-> <<>>]
    /\ bt' = Gone("error")
    /\ snapshots' = [r \in Readers |-> NoSnapshot]
    /\ UNCHANGED <<flushes, compactions, lives>>

Dropped ==
    /\ mode = "dropping" /\ bt.pc \in {"ended", "dead"}
    /\ UNCHANGED files
    /\ Down

Crash ==
    /\ mode \in {"up", "dropping"} /\ lives < MaxLives
    /\ files' \in {files}
          \cup (IF bt.pc = "merge" THEN MergeLeft(merge(MergeBase, bt.incoming)) ELSE {})
          \cup (IF flusher.pc = "opened" /\ Name(flusher.seg) \in DOMAIN files
                THEN {[files EXCEPT ![Name(flusher.seg)].state =
                          IF Occupied(files, Name(flusher.seg)) THEN "mixed" ELSE "torn"]}
                ELSE {})
    /\ Down

(* from_dir: the levels it builds from the files.                            *)
Found(level) ==
    SortSeq(SetToSeq({files[n].seg : n \in {m \in DOMAIN files :
                                               m[1] = level /\ Occupied(files, m)}}),
            LAMBDA s, t : s.number < t.number)

FoundLevels(numbers) ==
    [i \in DOMAIN numbers |->
        [new_level(numbers[i], L0Target * numbers[i] * LevelSizeFactor, IndexFactor)
            EXCEPT !.segments = Found(numbers[i])]]

LevelsOnDisk ==
    FoundLevels(SetToSortSeq({n[1] : n \in {m \in DOMAIN files : Occupied(files, m)}} \ {0}, <))

(* Seeded fault: the merged files are removed before the new one is written. *)
RecoveryMergeUnwritten(acc, base, m) ==
    [acc EXCEPT
        !.levels = Append(@, IF acc.incoming = <<>> THEN base ELSE m.level),
        !.todo = IF @ = <<>> THEN @ ELSE Tail(@),
        !.files = IF acc.incoming = <<>> THEN @
                  ELSE WithoutFiles(@, {Name(s) : s \in ToSet(m.segments_to_delete)})]

(* One merge of from_dir, m, into the level base.  The merged files are       *)
(* removed at once.                                                         *)
RecoveryMerge(acc, base, m) ==
    [acc EXCEPT
        !.levels = Append(@, IF acc.incoming = <<>> THEN base ELSE m.level),
        !.todo = IF @ = <<>> THEN @ ELSE Tail(@),
        !.files = IF acc.incoming = <<>> THEN @
                  ELSE WithoutFiles(FilesOf(ToSet(m.written)) @@ @,
                                    {Name(s) : s \in ToSet(m.segments_to_delete)}),
        !.result = IF acc.incoming # <<>> /\ (m.result # "ok"
                          \/ \E s \in ToSet(m.written) : Occupied(acc.files, Name(s)))
                   THEN "failed" ELSE "ok"]

RecoveryChoice(acc, r) ==
    IF acc.result # "ok" THEN acc
    ELSE [acc EXCEPT !.incoming = r.segments, !.result = r.result]

(* Into the next level found, or into a new one while there is something to  *)
(* merge.                                                                   *)
RecoveryBase(acc, number) ==
    IF acc.todo # <<>> THEN Head(acc.todo)
    ELSE new_level(number, L0Target * number * LevelSizeFactor, 1)

RecoveryMerged(acc, base) == RecoveryMerge(acc, base, merge(base, acc.incoming))

RecoveryChosen(acc) == RecoveryChoice(acc, segments_to_merge(Last(acc.levels)))

RecoveryStep(acc) ==
    IF acc.result # "ok" \/ (acc.todo = <<>> /\ acc.incoming = <<>>) THEN acc
    ELSE RecoveryChosen(RecoveryMerged(acc, RecoveryBase(acc, Len(acc.levels) + 1)))

(* Every merge adds a level, and the target sizes grow with the level: there *)
(* are no more steps than the levels found and the bytes in the files.        *)
RecoverySteps(found) == 1 .. Len(found) + SumOf([i \in DOMAIN SetToSeq(DOMAIN files) |->
                            files[SetToSeq(DOMAIN files)[i]].seg.size])

Recovery(found, first) ==
    FoldLeft(LAMBDA acc, i : RecoveryStep(acc),
             [levels |-> <<>>, todo |-> found, incoming |-> first.segments,
              files |-> [n \in {m \in DOMAIN files : files[m].state # "torn"} |-> files[n]],
              result |-> first.result],
             [i \in RecoverySteps(found) |-> i])

(* from_dir returns an error for a file shorter than a footer, and calls     *)
(* check_merge_status, a todo!(), for a level that is too large and has a    *)
(* next one.                                                                *)
Refused(found) ==
    \/ \E n \in DOMAIN files : files[n].state = "short"
    \/ \E i \in 1 .. Len(found) - 1 : exceeds_target_size(found[i])

from_dir(found) ==
    IF Refused(found) THEN [result |-> "failed"]
    ELSE Recovery(found, segments_to_merge([LevelZero EXCEPT !.segments = Found(0)]))

(* Files that mix two segments have a footer: reading one may fail or yield  *)
(* a segment with other entries.                                            *)
MixedFiles == {files[n].seg : n \in {m \in DOMAIN files : files[m].state = "mixed"}}

StartFails ==
    /\ mode = "down" /\ lives < MaxLives
    /\ MixedFiles # {} \/ from_dir(LevelsOnDisk).result # "ok"
    /\ mode' = "failed"
    /\ lives' = lives + 1
    /\ UNCHANGED <<container, disk, flusher, bt, to_delete, snapshots, flushes, compactions>>

Start ==
    /\ mode = "down" /\ lives < MaxLives
    /\ \E recovered \in {from_dir(LevelsOnDisk)} :
          /\ recovered.result = "ok"
          /\ levels' = recovered.levels
          /\ files' = recovered.files
    /\ mode' = "up"
    /\ lives' = lives + 1
    /\ level_zero' = Found(0)
    /\ spoilt' = MixedFiles
    /\ flusher' = [pc |-> "idle", seg |-> <<>>]
    /\ bt' = Idle
    /\ UNCHANGED <<to_delete, snapshots, flushes, compactions>>

-----------------------------------------------------------------------------
Init ==
    /\ mode = "up" /\ lives = 1 /\ flushes = 0 /\ compactions = 0
    /\ level_zero = <<>> /\ levels = <<>>
    /\ files = <<>> /\ spoilt = {} /\ to_delete = <<>>
    /\ flusher = [pc |-> "idle", seg |-> <<>>]
    /\ bt = Idle
    /\ snapshots = [r \in Readers |-> NoSnapshot]

BtStep ==
    \/ WakeNotified \/ WakeTimeout \/ CompactZero \/ CompactHigher
    \/ MergeLevel \/ MergeError \/ Swap \/ RemoveFiles

Next ==
    \/ \E table \in Flushes : FlushOpen(table)
    \/ FlushWrite \/ FlushError \/ FlushAdd
    \/ \E r \in Readers : ReadSnapshot(r) \/ ReadReturn(r)
    \/ BtStep \/ WakeSpuriously
    \/ DropSsTable \/ Dropped \/ Crash \/ StartFails \/ Start

Spec == Init /\ [][Next]_vars

(* The background thread has a step to take: it is not waiting for ever,      *)
(* since its waiting times out.  (Where the bound stops it, it may wait.)    *)
BtReady ==
    \/ bt.pc \in {"zero", "merge", "swap", "remove", "higher", "find"}
    \/ bt.pc = "wait" /\ mode \in {"up", "dropping"}

(* Weak fairness of BtStep, with BtReady written out for ENABLED, and of the *)
(* end of the join.                                                          *)
FairSpec ==
    /\ Spec
    /\ []<>~BtReady \/ []<><<BtStep>>_vars
    /\ WF_vars(Dropped)

-----------------------------------------------------------------------------
(* Properties                                                               *)

NewestIn(segments, key) == Newest({e \in EntriesIn(segments) : e.key = key}).seq

AllSegments == ToSet(level_zero) \cup SegmentsIn(levels)

FirstLife == lives = 1

Ascending(entries) == \A i \in 1 .. Len(entries) - 1 : entries[i].key < entries[i + 1].key

(* The levels are what their design says: sorted, without overlaps, and no   *)
(* file written over.                                                       *)
WellFormed(snapshot) ==
    /\ \A i \in DOMAIN snapshot.levels :
          Ascending(FlattenSeq([j \in DOMAIN snapshot.levels[i].segments |->
                                   snapshot.levels[i].segments[j].entries]))
    /\ ToSet(snapshot.level_zero) \cap spoilt = {}
    /\ SegmentsIn(snapshot.levels) \cap spoilt = {}

Container == [level_zero |-> level_zero, levels |-> levels]

(* Every variable keeps its type; segments are filed under their own number. *)
TypeOK ==
    /\ mode \in {"up", "dropping", "down", "failed"}
    /\ \A s \in AllSegments : s.number > 0 /\ s.entries # <<>>
    /\ \A n \in DOMAIN files : Name(files[n].seg) = n
    /\ flusher.pc \in {"idle", "opened", "written", "dead"}
    /\ bt.pc \in {"wait", "zero", "merge", "swap", "remove", "higher", "find",
                  "ended", "dead", "spins"}
    /\ mode \in {"down", "failed"} => AllSegments = {} /\ to_delete = <<>>

(* Level zero is newer than the partitioned levels and each of them newer    *)
(* than the next: SsTable::get stops at the first level that has the key.    *)
LevelsOrdered ==
    FirstLife => \A key \in Keys :
        /\ \A e \in EntriesIn(ToSet(level_zero)) :
              e.key = key => e.seq > NewestIn(SegmentsIn(levels), key)
        /\ \A i, j \in DOMAIN levels :
              LET upper == NewestIn(ToSet(levels[i].segments), key) IN
              i < j /\ upper # 0 => upper >= NewestIn(ToSet(levels[j].segments), key)

(* A get returns the newest entry of its snapshot, whatever flushes, merges, *)
(* swaps and deletions have led to it, as long as its segments are sorted    *)
(* and their files have not been written over.                               *)
SnapshotsAnswer ==
    FirstLife => \A snapshot \in {Container} \cup Range(snapshots) :
        WellFormed(snapshot) => \A key \in Keys :
            SstGet(snapshot, key).seq =
                NewestIn(ToSet(snapshot.level_zero) \cup SegmentsIn(snapshot.levels), key)

(* No segment of a partitioned level is written over while the container or  *)
(* a reader has it, nor is its file removed while the container has it.      *)
PartitionedIntact ==
    FirstLife =>
        /\ \A s \in SegmentsIn(levels) : Name(s) \in DOMAIN files /\ files[Name(s)] = Whole(s)
        /\ \A r \in Readers : SegmentsIn(snapshots[r].levels) \cap spoilt = {}

(* A compaction of level zero loses nothing that the partitioned levels had. *)
MergesKeepNewest ==
    [][ bt.pc = "swap" /\ bt.from = "zero" /\ bt'.pc = "remove" =>
          \A key \in Keys :
              NewestIn(SegmentsIn(levels'), key) >= NewestIn(SegmentsIn(levels), key) ]_vars

(* remove_segment_files lets go of a segment only when everything in it is,  *)
(* as new or newer, in a partitioned level.                                  *)
DeletedIsMerged ==
    [][ FirstLife /\ bt.pc \in {"remove", "higher"} /\ mode' # "down" =>
          \A s \in ToSet(to_delete) \ ToSet(to_delete') : \A e \in ToSet(s.entries) :
              NewestIn(SegmentsIn(levels'), e.key) >= e.seq ]_vars

NewestOnDisk(fs, key) ==
    NewestIn({fs[n].seg : n \in {m \in DOMAIN fs : Occupied(fs, m)}}, key)

(* from_dir drops nothing: the newest entry of every key in the files is in  *)
(* the levels it returns, and still in a file after its merges and removals. *)
StartKeepsNewest ==
    [][ mode = "down" /\ mode' = "up" /\ MixedFiles = {} =>
          \A key \in Keys :
              /\ NewestIn(ToSet(level_zero') \cup SegmentsIn(levels'), key) = NewestOnDisk(files, key)
              /\ NewestOnDisk(files', key) = NewestOnDisk(files, key) ]_vars

(* The drop of the SsTable returns, wherever it finds the background thread, *)
(* unless that is caught in a merge that does not end: a notification that   *)
(* comes too early is made up for by the timeout.                             *)
DropReturns == mode = "dropping" ~> mode # "dropping" \/ bt.pc = "spins"

(* "L0 -> all segments" are merged (design.md:76), and the compaction         *)
(* "creates the new segments and a new list and then performs a swap"        *)
(* (design.md:94): as long as the process runs, what has been flushed stays  *)
(* in the levels, or something newer does.                                   *)
FlushedKept ==
    [][ mode = "up" /\ mode' = "up" =>
          \A key \in Keys :
              NewestIn(ToSet(level_zero') \cup SegmentsIn(levels'), key)
                  >= NewestIn(AllSegments, key) ]_vars
=============================================================================
