------------------------------- MODULE Level -------------------------------
(***************************************************************************)
(* The levels of the SSTable and the merge of segments into a partitioned    *)
(* level: storage_engine/sstable/level.rs.                                   *)
(*                                                                         *)
(* A level is [number, target, factor, segments]; level zero has number 0.   *)
(* What a call computes is an operator.  A call that does not return is      *)
(* reported in a field: "panic" where the thread panics, "spins" where it    *)
(* loops for ever.                                                          *)
(***************************************************************************)
EXTENDS Segment, Ordering

CONSTANTS
    MergeBufMax,    \* MERGE_BUF_MAX_TOTAL_SIZE
    OverflowChecks  \* a debug build: arithmetic that underflows panics

ASSUME LevelAssumption ==
    /\ MergeBufMax \in Nat
    /\ OverflowChecks \in BOOLEAN

new_level(number, target, factor) ==
    [number |-> number, target |-> target, factor |-> factor, segments |-> <<>>]

LevelSize(level) == SumOf([i \in DOMAIN level.segments |-> level.segments[i].size])

exceeds_target_size(level) == LevelSize(level) > level.target

highest_segment_number(level) ==
    Max({0} \cup {level.segments[i].number : i \in DOMAIN level.segments})

EntriesOf(segments) ==
    UNION {ToSet(segments[i].entries) : i \in DOMAIN segments}

-----------------------------------------------------------------------------
(* Lookups                                                                  *)

Newest(entries) ==
    IF entries = {} THEN NoEntry
    ELSE CHOOSE e \in entries : \A f \in entries : f.seq <= e.seq

(* Seeded fault: the segment that comes first wins.                         *)
OverlappingGetFirst(level, key) ==
    LET found == SelectSeq([i \in DOMAIN level.segments |-> get(level.segments[i], key)],
                           LAMBDA e : e # NoEntry)
    IN  IF found = <<>> THEN NoEntry ELSE Head(found)

(* OverlappingLevel::get                                                    *)
OverlappingGet(level, key) ==
    Newest({get(level.segments[i], key) : i \in DOMAIN level.segments} \ {NoEntry})

(* Seeded fault: a segment does not contain its last key.                    *)
PartitionedGetShort(level, key) ==
    LET holding == {i \in DOMAIN level.segments :
                       /\ first_key(level.segments[i]) <= key
                       /\ key < last_key(level.segments[i])}
    IN  IF holding = {} THEN NoEntry ELSE get(level.segments[Min(holding)], key)

(* PartitionedLevel::get with find_containing_segment: only the first        *)
(* segment whose range contains the key is searched.                         *)
PartitionedGet(level, key) ==
    LET holding == {i \in DOMAIN level.segments :
                       /\ first_key(level.segments[i]) <= key
                       /\ key <= last_key(level.segments[i])}
    IN  IF holding = {} THEN NoEntry ELSE get(level.segments[Min(holding)], key)

-----------------------------------------------------------------------------
(* segments_to_merge                                                        *)

(* The loop of segments_to_merge compares the segments, in their order and   *)
(* pass after pass, with a number that starts at the highest one and is      *)
(* decremented at every comparison.  After `passes` passes over n segments   *)
(* it has taken those whose number was the current one when their turn came. *)
TakenAfter(level, passes) ==
    LET n == Len(level.segments)
        h == highest_segment_number(level)
    IN  {i \in 1 .. n : \E p \in 0 .. passes - 1 :
            level.segments[i].number + p * n + i - 1 = h}

LeftAfter(level, passes) ==
    LevelSize(level) - SumOf([i \in DOMAIN level.segments |->
        IF i \in TakenAfter(level, passes) THEN level.segments[i].size ELSE 0])

(* The number underflows in the pass that begins with fewer than n below it: *)
(* a panic, or, without overflow checks, a last pass that can still find     *)
(* something, after which no number is ever met again.                       *)
Passes(level) ==
    0 .. (IF level.segments = <<>> THEN 0
          ELSE highest_segment_number(level) \div Len(level.segments)
                   + (IF OverflowChecks THEN 0 ELSE 1))

(* Between two passes the loop ends when what is left fits.                  *)
ChosenAfter(level, enough) ==
    IF enough = {}
    THEN [result |-> IF OverflowChecks THEN "panic" ELSE "spins", segments |-> <<>>]
    ELSE [result |-> "ok",
          segments |-> Picked(level.segments, TakenAfter(level, Min(enough)))]

segments_to_merge(level) ==
    ChosenAfter(level, {p \in Passes(level) : LeftAfter(level, p) <= level.target})

-----------------------------------------------------------------------------
(* merge_sort                                                               *)
(*                                                                         *)
(* bufs is the sequence of the read buffers' contents, none of them empty.   *)
(* Only keys up to the smallest last key are safe to write.  The buffers     *)
(* that begin with such a key are served in rounds, in the order of their    *)
(* first keys: a round serves the buffers with one first key, alone, up to   *)
(* the first key of the next round (curr_indices and next_indices), and they *)
(* are not looked at again.  acc is [out, bufs, result].                     *)

FrontKey(buf) == Head(buf).key

(* A round with one buffer.                                                 *)
TakeFromOne(acc, i, limit) ==
    LET taken == TakeWhile(acc.bufs[i], LAMBDA e : e.key <= limit)
        rest == SubSeq(acc.bufs[i], Len(taken) + 1, Len(acc.bufs[i]))
    IN  [acc EXCEPT !.out = @ \o taken, !.bufs[i] = rest]

(* Seeded fault: keys beyond the smallest last key count as ready.           *)
ReadyUnbounded(bufs, group, smallest_final_key) == {i \in group : bufs[i] # <<>>}

Ready(bufs, group, smallest_final_key) ==
    {i \in group : bufs[i] # <<>> /\ FrontKey(bufs[i]) <= smallest_final_key}

(* Seeded fault: of equal keys the first buffer's is written.                *)
FirstFront(bufs, equal) == Head(bufs[Min(equal)])

NewestFront(bufs, equal) == Newest({Head(bufs[i]) : i \in equal})

(* Seeded fault: an older entry with the same key stays in its buffer.       *)
PoppedOne(bufs, equal) == [bufs EXCEPT ![Min(equal)] = Tail(@)]

Popped(bufs, equal) == [i \in DOMAIN bufs |-> IF i \in equal THEN Tail(bufs[i]) ELSE bufs[i]]

(* One turn of the loop over several buffers: the smallest key in front is   *)
(* written once, as the newest entry has it.  A smallest key beyond the      *)
(* limit is neither written nor removed, and the loop does not end.          *)
TakeFromSeveral(acc, ready, limit) ==
    LET key == Min({FrontKey(acc.bufs[i]) : i \in ready})
        equal == {i \in ready : FrontKey(acc.bufs[i]) = key}
    IN  IF ready = {} \/ acc.result # "ok" THEN acc
        ELSE IF key > limit THEN [acc EXCEPT !.result = "spins"]
        ELSE [acc EXCEPT !.out = Append(@, NewestFront(acc.bufs, equal)),
                         !.bufs = Popped(@, equal)]

(* The numbers up to n: the turns of a loop.                                 *)
Turns(n) == [t \in 1 .. n |-> t]

(* One round, for the buffers of a group.  Every turn takes an entry.        *)
Serve(acc, group, limit, smallest_final_key) ==
    IF Cardinality(group) = 1
    THEN TakeFromOne(acc, CHOOSE i \in group : TRUE, limit)
    ELSE FoldLeft(LAMBDA a, t :
                     TakeFromSeveral(a, Ready(a.bufs, group, smallest_final_key), limit),
                  acc, Turns(TotalLength(acc.bufs)))

(* The round of the buffers that began with the r-th of the first keys.      *)
ServeRound(acc, bufs, rounds, r, smallest_final_key) ==
    Serve(acc, {i \in DOMAIN bufs : FrontKey(bufs[i]) = rounds[r]},
          IF r < Len(rounds) THEN rounds[r + 1] - 1 ELSE smallest_final_key,
          smallest_final_key)

ServeRounds(bufs, rounds, smallest_final_key) ==
    FoldLeft(LAMBDA acc, r : ServeRound(acc, bufs, rounds, r, smallest_final_key),
             [out |-> <<>>, bufs |-> bufs, result |-> "ok"], Turns(Len(rounds)))

SmallestFinalKey(bufs) == Min({Last(bufs[i]).key : i \in DOMAIN bufs})

merge_sort(bufs) ==
    IF Len(bufs) = 1 THEN [out |-> bufs[1], bufs |-> << <<>> >>, result |-> "ok"]
    ELSE ServeRounds(bufs,
                     InOrder({FrontKey(bufs[i]) : i \in DOMAIN bufs}
                                 \cap 0 .. SmallestFinalKey(bufs)),
                     SmallestFinalKey(bufs))

-----------------------------------------------------------------------------
(* merge_and_write and PartitionedLevel::merge                               *)

NotEmpty(readers) == Picked(readers, {i \in DOMAIN readers : readers[i].buf # <<>>})

Filled(readers, max_size) == NotEmpty([i \in DOMAIN readers |-> fill(readers[i], max_size)])

(* After one pass of merge_sort: the readers are filled again, and one that  *)
(* is empty then is dropped.                                                 *)
AfterPass(acc, m, max_size) ==
    [out |-> acc.out \o m.out,
     readers |-> Filled([i \in DOMAIN acc.readers |-> [acc.readers[i] EXCEPT !.buf = m.bufs[i]]],
                        max_size),
     result |-> m.result]

Pass(acc, max_size) ==
    IF acc.readers = <<>> \/ acc.result # "ok" THEN acc
    ELSE AfterPass(acc, merge_sort([i \in DOMAIN acc.readers |-> acc.readers[i].buf]), max_size)

(* When a pass of merge_sort takes nothing while readers are left, none ever *)
(* will: there are at most as many passes as entries.                        *)
Ended(acc) == IF acc.readers = <<>> THEN acc ELSE [acc EXCEPT !.result = "spins"]

(* The entries merge_and_write writes, in order.                             *)
MergedEntries(segments, max_size) ==
    Ended(FoldLeft(LAMBDA acc, e : Pass(acc, max_size),
                   [out |-> <<>>, result |-> "ok",
                    readers |-> Filled([i \in DOMAIN segments |-> new_read_buf(segments[i])],
                                       max_size)],
                   Turns(TotalLength([i \in DOMAIN segments |-> segments[i].entries]))))

(* Seeded fault: the size is looked at one entry late.                       *)
SplitLate(entries, factor) ==
    FoldLeft(LAMBDA files, e :
                IF Last(files) # <<>> /\ reached_target_size(Front(Last(files)), factor)
                THEN Append(files, <<e>>)
                ELSE Front(files) \o <<Append(Last(files), e)>>,
             << <<>> >>, entries)

(* The split into files: the size is looked at before each entry.  There is  *)
(* always one file, if only an empty one.                                    *)
Split(entries, factor) ==
    FoldLeft(LAMBDA files, e :
                IF reached_target_size(Last(files), factor)
                THEN Append(files, <<e>>)
                ELSE Front(files) \o <<Append(Last(files), e)>>,
             << <<>> >>, entries)

(* Seeded fault: the number of the newest file is taken again.               *)
FirstNewNumberReused(level) == highest_segment_number(level)

FirstNewNumber(level) == highest_segment_number(level) + 1

(* Segment::from_file(..).unwrap() panics on a file without entries.         *)
Reopened(level, files) ==
    IF \E j \in DOMAIN files : files[j] = <<>>
    THEN [result |-> "panic", segments |-> <<>>]
    ELSE [result |-> "ok",
          segments |-> [j \in DOMAIN files |->
              written_segment(level.number, FirstNewNumber(level) + j - 1, files[j], level.factor)]]

WriteMerged(level, merged) ==
    IF merged.result # "ok" THEN [result |-> merged.result, segments |-> <<>>]
    ELSE Reopened(level, Split(merged.out, level.factor))

merge_and_write(level, segments) ==
    IF segments = <<>> THEN [result |-> "ok", segments |-> <<>>]
    ELSE WriteMerged(level, MergedEntries(segments, MergeBufMax \div Len(segments) + 1))

(* The segments of the level that have to be merged with the incoming ones.  *)
OverlappingAt(level, incoming) ==
    {i \in DOMAIN level.segments : \E j \in DOMAIN incoming : overlaps(level.segments[i], incoming[j])}

Overlapping(level, incoming) == Picked(level.segments, OverlappingAt(level, incoming))

(* Seeded fault: the new level forgets what is not merged.                   *)
UntouchedNone(level, incoming) == <<>>

(* Seeded fault: the new level keeps what has been merged, too.              *)
UntouchedAll(level, incoming) == level.segments

Untouched(level, incoming) ==
    Picked(level.segments, DOMAIN level.segments \ OverlappingAt(level, incoming))

(* sort_unstable_by the first key, which sorts a short slice by insertion.   *)
InsertByFirstKey(sorted, s) ==
    InsertAt(sorted, Max({0} \cup {i \in DOMAIN sorted : first_key(sorted[i]) <= first_key(s)}) + 1, s)

SortByFirstKey(segments) ==
    FoldLeft(LAMBDA sorted, s : InsertByFirstKey(sorted, s), <<>>, segments)

(* The new level and the segments it replaces.                               *)
MergeResult(level, old, incoming, m) ==
    [result |-> m.result,
     written |-> m.segments,
     level |-> [level EXCEPT !.segments = SortByFirstKey(m.segments \o Untouched(level, incoming))],
     segments_to_delete |-> old \o incoming]

MergeWith(level, old, incoming) ==
    MergeResult(level, old, incoming, merge_and_write(level, old \o incoming))

(* PartitionedLevel::merge                                                  *)
merge(level, incoming) == MergeWith(level, Overlapping(level, incoming), incoming)
=============================================================================
