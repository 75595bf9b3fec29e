------------------------------- MODULE Merge -------------------------------
(***************************************************************************)
(* One merge into a partitioned level, for every small level and every small *)
(* choice of incoming segments: the operators of Level and Segment against   *)
(* what they are to compute.                                                 *)
(*                                                                         *)
(* Segments are numbered by age.  Those of the level come first: they were   *)
(* written before the incoming ones, are sorted, and do not overlap.  The    *)
(* incoming ones are flushed segments, each newer than the one before it.    *)
(***************************************************************************)
EXTENDS Level

CONSTANTS
    Keys, Sizes,    \* the keys, and the sizes an entry may have
    Factors,        \* values of index_sparsity_factor
    MaxOld,         \* bound: segments of the level
    MaxIncoming     \* bound: incoming segments

ASSUME MergeAssumption ==
    /\ Keys \subseteq Nat \ {0} /\ Sizes \subseteq Nat \ {0}
    /\ Factors \subseteq Nat \ {0}
    /\ MaxOld \in Nat /\ MaxIncoming \in Nat

VARIABLES
    level,          \* the level before the merge
    incoming,       \* the segments merged into it
    merged          \* what merge has returned, or result = "none"

vars == <<level, incoming, merged>>

None == [result |-> "none"]

Ascending(entries) == \A i \in 1 .. Len(entries) - 1 : entries[i].key < entries[i + 1].key

(* The contents of a sorted segment, without sequence numbers.               *)
Contents ==
    UNION {{e \in [1 .. n -> [key : Keys, size : Sizes]] : Ascending(e)} :
           n \in 1 .. Cardinality(Keys)}

(* Its entries: the age of the segment makes the sequence numbers.           *)
SortedEntries(content, age) ==
    [i \in DOMAIN content |->
        [key |-> content[i].key, seq |-> age * 100 + content[i].key, size |-> content[i].size]]

(* Level contents as a run of merges leaves them: ascending, no overlap.     *)
Partition(old) ==
    \A i \in 1 .. Len(old) - 1 : \A k \in DOMAIN old[i], m \in DOMAIN old[i + 1] :
        old[i][k].key < old[i + 1][m].key

Init ==
    /\ \E factor \in Factors, n \in 0 .. MaxOld, m \in 1 .. MaxIncoming :
       \E old \in {o \in [1 .. n -> Contents] : Partition(o)}, new \in [1 .. m -> Contents] :
          /\ level = [new_level(1, SegmentSize, factor) EXCEPT !.segments =
                [i \in 1 .. n |-> written_segment(1, i, SortedEntries(old[i], i), factor)]]
          /\ incoming =
                [i \in 1 .. m |-> flushed_segment(i, SortedEntries(new[i], n + i), factor)]
    /\ merged = None

DoMerge ==
    /\ merged = None
    /\ merged' = merge(level, incoming)
    /\ UNCHANGED <<level, incoming>>

Next == DoMerge

Spec == Init /\ [][Next]_vars

-----------------------------------------------------------------------------
(* What a merge is to compute                                               *)

Inputs == EntriesOf(level.segments) \cup EntriesOf(incoming)

NewestOf(entries, key) == Newest({e \in entries : e.key = key})

Done == merged.result = "ok"

Sources == merged.segments_to_delete

Written == FlattenSeq([j \in DOMAIN merged.written |-> merged.written[j].entries])

(* A read buffer has room for the largest entry.  One that has not makes the *)
(* reader look exhausted, and the rest of its segment is dropped.            *)
EntriesFit == \A e \in Inputs : e.size <= MergeBufMax \div Len(Sources) + 1

(* The segments merged can be written one after the other, or are two that   *)
(* begin with the same key and fit into their read buffers.                  *)
Aligned ==
    \/ \A i, j \in DOMAIN Sources : i # j => ~overlaps(Sources[i], Sources[j])
    \/ /\ Len(Sources) = 2 /\ first_key(Sources[1]) = first_key(Sources[2])
       /\ \A i \in 1 .. 2 : DataSize(Sources[i].entries) <= MergeBufMax \div 2 + 1

(* A segment that is not merged lies between two that are.                   *)
Straddled ==
    \E i, j \in DOMAIN Sources, s \in ToSet(level.segments) \ ToSet(Sources) :
        last_key(Sources[i]) < first_key(s) /\ last_key(s) < first_key(Sources[j])

-----------------------------------------------------------------------------
(* Properties                                                               *)

(* A merge ends in a level or is known not to end; the new files get numbers *)
(* of their own, above those of the level.                                   *)
TypeOK ==
    /\ merged.result \in {"none", "ok", "panic", "spins"}
    /\ Done => \A i, j \in DOMAIN merged.level.segments :
          LET s == merged.level.segments[i] IN
          /\ s.level = level.number /\ s.entries # <<>>
          /\ s.number = merged.level.segments[j].number => i = j
          /\ ~Contains(level.segments, s) => s.number > highest_segment_number(level)

(* Whatever segments meet in PartitionedLevel::merge, and however its read   *)
(* buffers run empty, merge_sort writes the newest entry of every key.       *)
NewestKept ==
    Done /\ EntriesFit =>
        \A e \in Inputs : NewestOf(Inputs, e.key) \in EntriesOf(merged.level.segments)

(* merge_sort writes no entry that is not in its input and none twice,        *)
(* although it drops entries from several buffers at once and starts again   *)
(* with what is left in them.                                                *)
EntriesOnce ==
    Done =>
        LET after == merged.level.segments IN
        /\ EntriesOf(after) \subseteq Inputs
        /\ \A i, j \in DOMAIN after :
              \A k \in DOMAIN after[i].entries, m \in DOMAIN after[j].entries :
                 after[i].entries[k] = after[j].entries[m] => i = j /\ k = m

(* Segments that do not overlap, and two with the same first key (each flush *)
(* of the same keys over the last), are merged as they should be: ascending, *)
(* the newest entry of each key and no other, at whatever entry the buffers  *)
(* of the former end.                                                       *)
AlignedMerged ==
    merged.result # "none" /\ Aligned /\ EntriesFit =>
        /\ Done
        /\ Ascending(Written)
        /\ ToSet(Written) = {NewestOf(EntriesOf(Sources), e.key) : e \in EntriesOf(Sources)}

(* A lookup in the level after such a merge finds the newest entry, through  *)
(* the choice of the segment, its sparse index and the search in the range:  *)
(* what is split over several files is still found.                          *)
AlignedFound ==
    merged.result # "none" /\ Aligned /\ ~Straddled /\ EntriesFit =>
        \A key \in Keys : PartitionedGet(merged.level, key) = NewestOf(Inputs, key)

(* A merge of two segments ends: the loop over several buffers cannot meet a *)
(* key beyond its limit, since there is no third buffer to set one.          *)
TwoMergesEnd == merged.result = "spins" => Len(Sources) > 2

(* The sparse index never hides a key, nor finds one that is not there: for   *)
(* both ways of indexing (flush and merge), every sparsity factor, and keys  *)
(* before, between and behind the indexed ones.  A get on a level then       *)
(* returns the newest entry of its files, whether find_containing_segment    *)
(* picks the one file of a partitioned level that may hold the key, or       *)
(* OverlappingLevel::get asks every file and compares sequence numbers.      *)
LookupExact ==
    \A key \in Keys :
        /\ \A s \in ToSet(level.segments) \cup ToSet(incoming) :
              get(s, key) = NewestOf(ToSet(s.entries), key)
        /\ PartitionedGet(level, key) = NewestOf(EntriesOf(level.segments), key)
        /\ OverlappingGet([level EXCEPT !.segments = incoming], key) =
              NewestOf(EntriesOf(incoming), key)

(* A file is closed at the first entry boundary at which it has reached its   *)
(* target size, neither earlier nor later.                                   *)
FilesCutInTime ==
    Done => \A j \in DOMAIN merged.written :
        LET entries == merged.written[j].entries IN
        /\ ~reached_target_size(Front(entries), level.factor) \/ Len(entries) = 1
        /\ j < Len(merged.written) => reached_target_size(entries, level.factor)

(* "Keys are sorted" and "Higher levels (PartitionedLevel) have               *)
(* non-overlapping segments" (design.md, SSTable/LSM-tree): the level is      *)
(* ascending from one end to the other.  find_containing_segment, the binary  *)
(* search of the index and the search in a range rely on it.                  *)
LevelPartitioned ==
    Done => Ascending(FlattenSeq([j \in DOMAIN merged.level.segments |->
                                     merged.level.segments[j].entries]))
=============================================================================
