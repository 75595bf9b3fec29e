------------------------------ MODULE Segment ------------------------------
(***************************************************************************)
(* Segment files of the SSTable: storage_engine/sstable/level/segment.rs.    *)
(*                                                                         *)
(* An entry is [key, seq, size]: seq stands for the sequence number and the  *)
(* value that came with it (a value or a tombstone, which nothing here tells *)
(* apart), size for the bytes it takes with its length prefix.  Keys are     *)
(* naturals in the order of the strings.  An offset into the data block is   *)
(* the position of the entry it points at, and the index is the ascending    *)
(* sequence of the positions it holds.  Index entries and footer count       *)
(* IndexLen and FooterLen.                                                   *)
(***************************************************************************)
EXTENDS Naturals, Sequences, SequencesExt, FiniteSets, FiniteSetsExt

CONSTANTS
    IndexLen,       \* bytes of one index entry
    FooterLen,      \* SEGMENT_FOOTER_LEN
    SegmentSize     \* SEGMENT_SIZE: where the writer begins a new file

ASSUME SegmentAssumption ==
    /\ IndexLen \in Nat
    /\ FooterLen \in Nat
    /\ SegmentSize \in Nat

SumOf(f) == FoldLeft(LAMBDA a, b : a + b, 0, f)

TotalLength(seqs) == SumOf([i \in DOMAIN seqs |-> Len(seqs[i])])

DataSize(entries) == SumOf([i \in DOMAIN entries |-> entries[i].size])

(* No entry: None of the lookups.                                           *)
NoEntry == [key |-> 0, seq |-> 0, size |-> 0]

(* The longest prefix of s whose elements all satisfy Test.                 *)
TakeWhile(s, Test(_)) ==
    SubSeq(s, 1, Max({n \in 0 .. Len(s) : \A i \in 1 .. n : Test(s[i])}))

-----------------------------------------------------------------------------
(* SegmentWriter                                                            *)

(* Of n entries every one whose count is a multiple of factor is indexed.    *)
(* segment_file_from_memtable counts before it writes an entry, from 0: the  *)
(* first is indexed.                                                         *)
FlushedIndex(n, factor) == [j \in 1 .. (n + factor - 1) \div factor |-> (j - 1) * factor + 1]

(* write_entry counts after it: the first indexed entry is number factor.    *)
WrittenIndex(n, factor) == [j \in 1 .. n \div factor |-> j * factor]

FileSize(entries, index) == DataSize(entries) + IndexLen * Len(index) + FooterLen

(* reached_target_size, for a file that was empty when it was opened.        *)
reached_target_size(entries, factor) ==
    FileSize(entries, WrittenIndex(Len(entries), factor)) >= SegmentSize

(* Segment::from_file for a file that was written to its end.                *)
from_file(level, number, entries, index) ==
    [level |-> level, number |-> number, entries |-> entries, index |-> index,
     size |-> FileSize(entries, index)]

flushed_segment(number, entries, factor) ==
    from_file(0, number, entries, FlushedIndex(Len(entries), factor))

written_segment(level, number, entries, factor) ==
    from_file(level, number, entries, WrittenIndex(Len(entries), factor))

first_key(s) == Head(s.entries).key
last_key(s) == Last(s.entries).key

overlaps(s, t) == first_key(t) <= last_key(s) /\ first_key(s) <= last_key(t)

-----------------------------------------------------------------------------
(* SegmentIndex                                                             *)

IndexKey(s, i) == s.entries[s.index[i]].key

(* Seeded fault: the middle is not rounded up past l, so that the search      *)
(* gives up on the upper half.                                               *)
binary_search_low(s, key) ==
    LET search[b \in (1 .. Len(s.index)) \X (1 .. Len(s.index))] ==
            LET m == (b[1] + b[2]) \div 2 IN
            IF b[1] >= b[2] THEN b[1]
            ELSE IF IndexKey(s, m) <= key THEN (IF m = b[1] THEN m ELSE search[<<m, b[2]>>])
            ELSE search[<<b[1], m - 1>>]
    IN  search[<<1, Len(s.index)>>]

(* The place in the index of the last key that is not larger, if the first   *)
(* is not; b is what the loop keeps as l and r.  Positions count from 1      *)
(* here, from 0 in the code.                                                 *)
binary_search(s, key) ==
    LET search[b \in (1 .. Len(s.index)) \X (1 .. Len(s.index))] ==
            LET m == (b[1] + b[2] - 2) \div 2 + 2 IN
            IF b[1] >= b[2] THEN b[1]
            ELSE IF IndexKey(s, m) <= key THEN search[<<m, b[2]>>]
            ELSE search[<<b[1], m - 1>>]
    IN  search[<<1, Len(s.index)>>]

(* SegmentIndex::find: the positions from first up to but not including end; *)
(* match tells that the entry at first is the one looked for.                *)
find(s, key) ==
    LET all == Len(s.entries) + 1
        hit == binary_search(s, key)
    IN  IF s.index = <<>>
        THEN [match |-> FALSE, first |-> 1, end |-> all]
        ELSE IF key < IndexKey(s, 1)
        THEN [match |-> FALSE, first |-> 1, end |-> s.index[1]]
        ELSE [match |-> IndexKey(s, hit) = key,
              first |-> s.index[hit],
              end |-> IF hit < Len(s.index) THEN s.index[hit + 1] ELSE all]

(* Segment::get: in the range found, the search ends at the first key that   *)
(* is not smaller.                                                          *)
get(s, key) ==
    LET r == find(s, key)
        stops == {i \in r.first .. r.end - 1 : s.entries[i].key >= key}
    IN  IF r.match THEN s.entries[r.first]
        ELSE IF stops # {} /\ s.entries[Min(stops)].key = key
        THEN s.entries[Min(stops)]
        ELSE NoEntry

-----------------------------------------------------------------------------
(* SegmentReadBuf: the entries not read yet, and those in the buffer         *)

new_read_buf(s) == [rest |-> s.entries, buf |-> <<>>]

(* fill, with read_at_most: as many whole entries as fit beside those that   *)
(* are still in the buffer.                                                 *)
fill(b, max_size) ==
    LET free == max_size - DataSize(b.buf)
        n == Max({i \in 0 .. Len(b.rest) : DataSize(SubSeq(b.rest, 1, i)) <= free})
    IN  [rest |-> SubSeq(b.rest, n + 1, Len(b.rest)),
         buf |-> b.buf \o SubSeq(b.rest, 1, n)]
=============================================================================
