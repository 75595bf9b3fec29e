# rkvs: a TLA+ development

rkvs is a key-value store in Rust: a TCP server in front of a storage engine
that is a log-structured merge tree. This directory models the server and the
engine in TLA+, checks the models with TLC on small instances, and proves with
TLAPS, for every instance, the main safety properties of the engine and of the
server, the linearizability of the engine, what recovery reads from the log after
any number of crashes, the exactness of lookups in the SSTable's files, and what
a merge of them keeps. Paths below are relative to the repository, which lies
under `src/`: `src/src/...` is its Rust code.

## 1. The system

| Part | State | Operations |
|---|---|---|
| Worker pool (`storage_engine.rs`) | a channel of `Job`s behind a mutex, six threads, the callers' oneshot channels | `get`, `put`, `delete`, `shutdown`, `new` |
| Memtable and write worker (`memtable.rs`) | the hash map behind an `RwLock`, a channel of `WriteJob`s, `current_size`, one thread | `get`; `put` and `delete` through the thread; flush when full; flush at the end; `start`, `recover` |
| Write-ahead log (`memtable/wal.rs`, `memtable/wal/segment.rs`) | segment files of fixed size; in memory the active one and its `file_size` | `append` (fit, split, or pad and rotate), `rotate`, parsing with checksums, truncation |
| Flusher (`memtable_flusher.rs`, `SegmentWriter::segment_file_from_memtable`) | one segment file per flush | write, read back, add to level zero |
| SSTable (`sstable.rs`, `level.rs`) | `LevelContainer` behind an `RwLock`: level zero, whose segments overlap, and partitioned levels | `get` over a snapshot, `find_and_add_segment`, `from_dir` |
| Merge (`level.rs`, `level/segment.rs`) | read buffers, segment writer, sparse index | `merge`, `merge_and_write`, `merge_sort`, `SegmentIndex::find` |
| Compaction task (`compaction.rs`) | a thread, a condition variable, the segments to delete | `run`, the two `compact_from_...`, `remove_segment_files` |
| TCP connection and protocol (`tcp/`) | a reader and a writer, a cancellation token | the request loop, parsing, responses |
| Server and connection manager (`lib.rs`, `connection_manager.rs`) | a map of task handles, a channel of signals | accept loop, start and completion signals, shutdown |

How they interact. The accept loop spawns a task per connection and sends its
handle to the connection manager. A connection calls the trait `Store`; the call
queues a `Job` and awaits a oneshot channel. One of six workers takes the job. A
get reads the memtable under its read lock and, if the key is not there, the
SSTable; nothing is held in between. A put or delete is sent on to the write
worker, the one thread that appends to the log and then inserts into the map.
Before a job it looks at `current_size`: at `max_size` it holds the map's write
lock, writes the map to a segment file, has level zero read the file back, and
clears the map. When level zero has become too large, adding the segment
notifies the compaction thread, which merges into the partitioned levels on a
snapshot of its own and then swaps the lists. Threads end by panicking (a
poisoned lock, an assertion, a `todo!()`) or when a channel closes; the last
worker drops the `MemTable`, whose `Drop` sends `WriteJob::Shutdown` and joins
the write worker.

What is hard: the two-step get against a concurrent flush; callers behind a
thread that panics; a crash between log and map, and between the system calls of
one append; recovery of a log with split, padded, torn or half-failed records;
file names that come round again; flushes and readers during a compaction, files
removed while someone may still use them, wake-ups that mean nothing; merges
whose read buffers run empty at different places; shutdown while jobs are
queued, clients are being accepted or requests are half read. The list is in
`PROJECT.json` under `hazards`, each entry at its line.

What makes each part correct:

- Worker pool: every call gets one answer, and the calls are linearizable.
- Memtable and flush: what has been logged is found, at every moment and after
  every restart; the newest record wins; a flush has something to write.
- Log: recovery replays what was acknowledged, in order, once; sequence numbers
  grow.
- Merge: the newest entry of every key, once, in order; an index that hides
  nothing.
- SSTable and compaction: a get returns the newest entry of its snapshot, upper
  levels are newer than lower ones, no file that holds the only copy of an entry
  is deleted or overwritten, the drop returns.
- TCP: responses in the order of the requests, each with the code of its own
  request; a request is executed once and only when it is complete; a request
  that has begun is answered in spite of a cancellation.
- Server: the shutdown ends and waits for the connections.

## 2. Modules

| Module | What it is |
|---|---|
| `Store` | requests and outcomes of the trait `Store` |
| `KVStore` | abstract specification: one map, calls that take effect atomically, failures, crashes |
| `StorageEngine` | callers, workers, write worker, flush, shutdown, crash, restart; its properties and inductive invariant |
| `StorageEngineRefinement` | refinement mapping from `StorageEngine` to `KVStore` |
| `StorageEngineProofs` | theorems about `StorageEngine` and their proofs |
| `StorageEngineRefinementProofs` | the proof that `StorageEngine` implements `KVStore` |
| `Wal` | the log's files cell by cell, appends as sequences of system calls, recovery |
| `WalProofs` | theorems about the log: before the first crash, and what recovery reads after any number |
| `Ordering`, `OrderingProofs` | operators: sorting in closed form, and what it computes |
| `Iteration` | what a fold over a sequence computes, for the step operator a module instantiates it with |
| `Segment` | operators: segment files, their sparse index and its search, read buffers |
| `Level` | operators: levels, lookups, `segments_to_merge`, `merge_sort`, `merge` (extends `Segment`) |
| `Merge` | one merge for every small input, against what it is to compute (extends `Level`) |
| `SegmentProofs` | theorems about lookups in segments and levels, and lemmas about `merge_sort` |
| `MergeProofs` | theorems about merges (extends `SegmentProofs`) |
| `Compaction` | container, flusher, readers, background task, drop, crash, `from_dir` (extends `Level`) |
| `Protocol` | operators: the request format, its parser, response codes |
| `Connection` | clients and connection tasks (extends `Protocol`) |
| `Server` | accept loop and connection manager, composed with the connections (extends `Connection`); the inductive invariant |
| `ServerProofs` | theorems about `Server` and their proofs |
| `MC...` | the instances for TLC (symmetry, scripts, memtables to flush) |

### StorageEngine

One variable per piece of state: `jobs` and `write_jobs` are the two channels,
`worker[w]` and `writer` hold a program counter and the job in hand, `table` and
`current_size` are the memtable, `level_zero` the segments the container knows,
`wal` and `files` what is on disk, `poisoned` the locks a thread panicked under.
`wal_size` is the sum `recover` computes from the log. `damage` marks where in
the log the remains of a failed or torn append lie, as the number of the next
record, and `exposed` is the last record that was in the log when a start read it
in that state.

| Code | Actions |
|---|---|
| `StorageEngine::get`, `put`, `delete` | `Invoke` |
| `Worker::run` | `WorkerRecv`, `Reply`, `WorkerExit`, `WorkerPanic` |
| `Worker::get` | `ReadTable`, then `ReadSst` |
| `MemTable::put`, `delete` | `Submit`, `AwaitDropped` |
| `WriteWorker::run` | `WriterRecv`, `FlushClear`, `FlushError`, `FinalFlush` |
| `Flusher::flush` | `FlushOpen`, `FlushWrite`, `FlushAdd` |
| `WriteWorker::put`, `delete` | `WalAppend`, `WalAppendError`, `WalAppendPanic`, `Insert` |
| `Drop for MemTable` | part of `WorkerGone` |
| `StorageEngine::shutdown`, `new` | `Shutdown`, `Stopped`, `Restart` |
| the end of the process | `Crash` |

A step is what no other thread can see the middle of. A flush is three steps and
a clear, because readers may use level zero meanwhile and the process may die in
between, though the map's lock is held throughout.

Abstractions, and why they are sound for the properties:

- The log is the sequence of its records, and a record's position is its
  sequence number. In the code the number is a byte offset; it grows in the same
  order (`SoundSequenceNumbersIncrease` of `Wal`). Positions start at 1, so that 0
  can mark a key without an entry.
- `Wal::append` returns from the middle (`?` in `wal.rs:45-54`) with a header,
  padding, an empty segment or a part of the record written, or nothing; a
  process that dies there leaves the same, and a torn record besides. From the
  record behind such remains on (`damage`), recovery may miss any record: a
  start then replays the records before and any of those behind, and may or may
  not cut the log, after which numbers may be given twice. `Wal` has the cells
  and says which of these happen; here all are allowed. The keys of records
  that lay behind when the engine was started (`ExposedKeys`) keep their place
  in the history `wal`, but nothing is claimed of them, and a get of such a key
  may answer from any segment that has it. The other keys are not affected.
- An entry with a value counts 2, a tombstone 1. Sizes matter in two places,
  when the memtable is full and whether a file is shorter than the one it
  overwrites, and two lengths show both cases.
- A flush into a file that was longer leaves the old tail with the old footer.
  Such a segment is marked as not intact; opening or reading it may return an
  error, panic, or yield any answer. `files` keeps the old table for it.
- The last worker's drop joins the write worker before the job channel closes.
  The model closes the channel in the same step; the callers in it get the same
  answer a little earlier.
- Level zero stays below its target size and the compaction task's condition
  variable does not wake spuriously, so no compaction runs here; `Compaction`
  has those cases. `max_size` is at least 1, the directory `SSTable` exists, and
  the locks of the job channel are never poisoned, since no thread panics while
  it holds one.
- A restart finds the disk as the process left it: what was handed to the
  operating system survives. The code never calls `sync`, so a power failure may
  lose more than the models show.

### Wal

A file is a sequence of cells. A record of n cells is a header and a body; a cell
knows its record and its position in it, so "length and checksum hold" is "these
are all the cells of one record, in order" (`WholeRecord`). `AppendPlan` is the
list of system calls of `Wal::append`, one action carries out the next call, and
the process may die or the call may fail in between, with part of a write done
if `TornWrites`; `MaxFaults` bounds torn and failed writes together. `Recover`
is `MemTable::recover` with the segment-wise parsing, the header carried from
one segment to the next, the place of the corruption and the arithmetic that can
underflow; `Restart` is `MemTable::start` with the
truncation and the removal of later segments. `recs` is a history of all
records and of their fate: pending, acknowledged, failed (it
panicked, or recovery did not find it), or damaged by a write error or a torn
write. The
properties named `Sound...` speak of logs without such damage. `NothingRevived`
speaks of all logs, but of failed records and of repetition only: an acknowledged
record that a damaged log lost at one start may come back at a later one. Bytes that do not
start a record are treated as a bad length; in the code they may also pass for a
record that is continued in the next segment, where the checksum then fails.

The segment size divides 2^32 (`design.md`, "WAL Segments"), so the two numbers
in a file name are one segment number.

### Segment, Level and Merge

An entry is a key, a sequence number that stands for the value as well, and a
size; nothing in this part of the code tells a tombstone from a value. An offset
is the position of the entry it points at. The operators keep the code's names:
`find` and `get` with the two ways of building the sparse index (a flush indexes
its first entry, the segment writer the one with number `factor`), `fill` for the
read buffers, `merge_sort` with its rounds, `merge_and_write` with the split
into files, `merge` with the choice of overlapping segments, and
`segments_to_merge` with its countdown. A call that does not return says so in
its result: "panic" or "spins". Loops are folds over as many turns as the code
can take before it repeats itself.

`Merge` starts from every level and every choice of incoming segments within its
bounds and merges once. Which inputs come out sorted is stated by `Aligned`:
segments that do not overlap, or two with the same first key that fit their
buffers. Outside it the code writes unsorted files (`merge_unsorted`), and
`NewestKept` and `EntriesOnce` say what still holds there.

### Compaction

| Code | Actions |
|---|---|
| `Flusher::flush`, `segment_file_from_memtable` | `FlushOpen`, `FlushWrite`, `FlushError` |
| `SsTable::find_and_add_segment` | `FlushAdd` |
| `SsTable::get` | `ReadSnapshot`, `ReadReturn`; what it returns is `SstGet` |
| `CompactionBt::run` | `WakeNotified`, `WakeSpuriously`, `WakeTimeout` |
| `compact_from_level_zero`, `compact_from_partitioned_level` | `CompactZero` or `CompactHigher`, then `MergeLevel` or `MergeError` for each level |
| `swap_all_levels`, `swap_partitioned_levels` | `Swap` |
| `remove_segment_files` | `RemoveFiles` |
| `Drop for SsTable` | `DropSsTable`, `Dropped` |
| `SsTable::start`, `LevelContainer::from_dir` | `Start`, `StartFails` |
| the end of the process | `Crash` |

- A segment in memory is an open file: it can be read after its name is gone,
  and is `spoilt` when the file is opened again under that name and written
  over. Neither writer truncates. A file is whole, mixed (the start of one
  segment and the end of another), torn, or shorter than a footer. Opening a
  mixed file may fail or succeed.
- Flushes go to the directory that `from_dir` searches, as in the tests of
  `sstable.rs`. `StorageEngine::new` uses two different ones, so that in the
  program as it is `from_dir` finds no segments; the module shows what happens
  once they are the same.
- Sequence numbers are the order of the flushes.
- The reference count of an `Arc` is the number of lists that hold the segment.
- The levels after a restart have other target sizes and may contain what a
  crash left behind; `LevelsOrdered`, `SnapshotsAnswer`, `PartitionedIntact` and
  `DeletedIsMerged` are stated for the first life of the process, and
  `StartKeepsNewest` for the restart.

### Protocol, Connection and Server

A request is a block of headers and a block of payload, each behind its length.
A block is its length and the fields the parser looks at; an index beyond the end
of a block panics. The client writes part after part, may stop after any of them
or leave. The correlation id is the place of the request in its client's
sequence. The engine answers with success, an error, or for a get with nothing.

| Code | Actions |
|---|---|
| the client (external) | `ClientConnects`, `ClientBegins`, `ClientContinues`, `ClientLeaves` |
| the select of `TcpConnection::start` | `RecvHeaderLen`, `TimesOut`, `Cancelled` |
| `recv_headers`, `recv_payload_len`, `recv_payload` and the parsers | `RecvHeaders`, `RecvPayloadLen`, `RecvPayload`, `ReadFails` |
| `call_storage_engine` | `CallStorageEngine` |
| `send_response`, `send_..._error_response`, `send_close_notification` | `SendAnswer`, `SendFails`; part of `TimesOut` and `Cancelled` |
| `Server::run` | `CheckCancelled`, `Accept`, `AcceptFails`, `SendStartSignal`, `RunReturns` |
| `ConnectionManager::run` | `ManagerReceives`, `ChannelCloses`, `ManagerEnds` |
| the owner of the server | `Cancel` |

`Drop for TcpConnection` creates the future of its completion signal and drops it
unpolled: no completion ever reaches the manager, and the model has none.

## 3. Runs

All runs switch the deadlock check off: a process that is down with no restarts
left, a pool without callers, a log at its bound, a finished merge and a server
that has returned may stop.

| Run | Result | Shows |
|---|---|---|
| `engine_safety` | pass | `TypeOK`, `OneHolder`, `NothingLost`, `FlushHasEntries`, `MemtableBounded`, `TableAccounted`, `Inductive` with failing flushes, failing and torn appends that leave something in the log, crash, shutdown and restart |
| `engine_liveness` | pass | `EveryCallReturns`, `ShutdownReturns` with all faults and an empty key |
| `engine_refines` | pass | `Linearizable`: the engine implements `KVStore`, with failing reads, appends and flushes and two restarts, as long as no start meets a mixed segment or records behind a failed or torn append |
| `wal_recovery` | pass | `SoundLogRecovers`, `SoundLogOpens`, `SoundSequenceNumbersIncrease` when the process may die between any two system calls; `NothingRevived` with torn and failed writes as well; `FirstLifeNumbersIncrease` and `LogAppendOnly` with failed writes, before the first crash |
| `merge` | pass | `NewestKept`, `EntriesOnce`, `AlignedMerged`, `AlignedFound`, `LookupExact`, `FilesCutInTime`, `TwoMergesEnd` over all small levels and inputs |
| `compaction` | pass | `LevelsOrdered`, `SnapshotsAnswer`, `PartitionedIntact`, `MergesKeepNewest`, `DeletedIsMerged`, `StartKeepsNewest`, `DropReturns` |
| `server` | pass | `AnswersMatch`, `AnswersInOrder`, `ExecutedOnce`, `RunWaits`, `StartedRequestsAnswered`, `LateAcceptShutsDown` |
| `engine_file_reused` | violation | `FlushedSegmentsReadable` |
| `wal_torn_tail` | violation | `LogRecovers` with torn writes |
| `merge_unsorted` | violation | `LevelPartitioned` |
| `compaction_drops` | violation | `FlushedKept` |
| `server_unawaited` | violation | `ShutdownWaitsForAll` |

Bounds.

- Engine. Two clients and two workers give every pair of concurrent calls and
  a last worker as well as one before the last; six workers differ only in how
  many panics it takes to lose them all. `MaxSize = 2` is one put, or a delete
  and one more write: five calls then reach a flush, a second segment, an
  overwrite of a flushed key and a panic of every worker with a caller still
  queued. The liveness run has three calls: each worker may panic, but not all
  with a caller behind them, which is left to `OneHolder`. `MaxSize = 3` lets
  a memtable hold two puts. One restart makes file names come round again; in
  `engine_safety` it also reads a log in which a write lies behind the remains
  of a failed append. `engine_refines` has two restarts, so that what one
  recovery leaves meets the next. In `engine_safety` a view leaves the
  outcomes of calls out of the comparison of states, since no guard reads
  them, and `DamageBound` bounds what follows damage to the log: up to three
  records, and no flush that fails with a lock held. `engine_refines` leaves
  out two kinds of states, in which the code is not linearizable. Behind a
  mixed segment (the constraint `FlushedSegmentsReadable`) a get may return
  anything; `engine_file_reused` shows the fault. A process that ends with
  records behind the remains of an append in its log (the constraint
  `LogReadable`) may forget writes it has acknowledged; `wal_torn_tail` shows
  one way. Within one life appends may fail at will, and a log whose remains
  have nothing behind them may be read.
- Log. Segments have six cells and headers two; records of 3 to 9 cells fit,
  split, fill the segment to the last cell, leave less than a header, and are
  larger than a segment. Four records, two crashes, two damaged writes.
- Merge. Four keys, up to two segments in the level and two incoming, index
  factors 1 to 3: 23,760 inputs. `MergeBufMax = 4` makes the buffers hold two or
  three entries of the up to four in a segment, so that they run empty in the
  middle; `SegmentSize = 4` splits the output into two files.
- Compaction. Two keys; memtables below the target of level zero, above it, and
  with an entry that exceeds the target of level one; three flushes, two
  compactions, two lives, one reader. A compaction then meets a flush at each of
  its steps, a reader across a swap and a removal, a second compaction into the
  levels of the first, and the restart meets what every one of these leaves.
- Server. One client that sends a good or damaged request (six kinds) and a good
  one after it, and one that only connects; `Capacity = 1`, so that the channel
  is full with one start signal. The damaged requests are one for each way the
  parser can end: panic, close, answer before the payload is read, answer after
  it, and a put with bytes behind its headers and behind its value. With two
  clients the second half of `RunWaits`, that no more than `Capacity + 1`
  connections are overlooked, cannot fail; the theorem `RunAlwaysWaits` has it
  for any number.

Fairness.

- `StorageEngine`: weak fairness of every worker's step, of the write worker's
  step and of the end of `shutdown`: the operating system runs threads that can
  run, and a call into the file system returns or fails. Nothing is assumed of
  callers, of shutdown being called, of crashes or of restarts. Workers compete
  for the mutex of the job channel; weak fairness of each is enough, because the
  channel is served by whichever has it.
- `Compaction`: weak fairness of the background thread, whose wait times out, and
  of the end of the join. Where a step of the thread is enabled is written out
  (`BtReady`), since a merge is costly to evaluate twice. Flushes, readers,
  drop, crash and spurious wake-ups are free.
- `Server`: weak fairness of the accept loop, the manager and each connection.
  A client need not connect or begin a request, but completes one it has begun,
  or leaves: the code has a timeout for the first length only. It also reads its
  responses, or leaves: `SendAnswer` is fair because `write_all` ends when the
  peer takes the bytes or the connection breaks, and the code has no timeout for
  it. A client that does neither holds its task, and the shutdown, for ever.

Seeded faults. Operators under a comment "Seeded fault" are wrong variants of
the operator that follows them (a swallowed answer, an off-by-one, a missing
reset, a skipped check). They take part in no specification. Put in place of the
right one, each makes TLC report the property `PROJECT.json` pairs it with under
`mutants`.

### What the violations mean

- `engine_file_reused`: segment numbers start at 1 again after a restart, and
  `segment_file_from_memtable` opens the file without truncating it. A shorter
  flush keeps the old footer.
- `wal_torn_tail`: fewer bytes than a header at the end of the last segment are
  taken for padding. Records appended behind them are lost at the next recovery.
- `merge_unsorted`: a round of `merge_sort` with one buffer stops at the first
  key of the next round and does not come back to the buffer. A level that holds
  2, merged with a newer segment 1, 2, 3, 4, is written as 1, old 2, new 2, 3, 4.
  Which 2 a lookup returns depends on the entry the sparse index leads to: the
  new one if every entry is indexed, the old one if every second is.
- `compaction_drops`: a flush that makes level zero too large wakes the
  compaction; a second segment is added while it merges; `swap_all_levels`
  installs an empty level zero, and the second segment is in no level any more.
  A segment that `segments_to_merge` did not choose is lost in the same way.
- `server_unawaited`: the server is cancelled while it waits in `accept`, a
  client connects, and the manager receives the start signal after the
  cancellation: it leaves its loop with the handle in hand. `run` returns while
  that connection still runs.

### Other observations

Met while modelling; the models contain them, the properties are stated around
them.

- `StorageEngine::new` searches `dir/SSTable` and the flusher writes to `dir`
  (`storage_engine.rs:115`, `:121`): no segment of an earlier process is found.
  Data survives because the log is never shortened and is replayed from its
  start.
- Log: a torn body behind a header that was split underflows in
  `part_entry.offset -= part_rec_size` (`wal/segment.rs:187`); an append that
  fails after its header leaves a header that hides later records (`wal.rs:50`),
  so that writes acknowledged after a failed one may be gone after the next start
  (the `ExposedKeys` of `StorageEngine`); within a life nothing is lost;
  `final_entry_after` multiplies by the size of the file instead of the segment
  (`wal/segment.rs:98`).
- `segments_to_merge` counts down inside the loop over the segments. With
  consecutive numbers it picks only the middle one of an odd number; for an even
  number it underflows, which is a panic with overflow checks and an endless
  loop without.
- Any wake-up that is not a timeout compacts level zero, a spurious one included,
  and installs an empty level zero.
- New levels made by one compaction all get the same target size: a segment
  larger than that is merged into new levels for ever.
- When a partitioned level is compacted it is taken out of the list: its segments
  that were not chosen disappear, and later levels may get a number that exists.
- After a swap a flush takes number 1 again; `remove_segment_files` may then
  unlink the file of the live segment with the old name.
- `from_dir` returns an error for a file shorter than a footer, although its
  comment says that corrupted files are deleted, and reaches the `todo!()` of
  `check_merge_status` for a level that is too large and has a next one.
- An error in a merge ends the background thread for good.
- Merge: an untouched segment between two merged ones is covered by the output's
  range; an entry larger than its read buffer makes the reader look exhausted and
  drops the rest of the segment; with three or more buffers a round may not end.
- Server: the accept loop sees the cancellation only after another client has
  connected. If the manager has handled all signals before the cancellation, it
  waits for a message that never comes, unless a client connects. Handles are
  never removed from the manager's map. An error of `accept` leaves the
  connections running.
- Connection: after a parse error in the headers the payload stays in the stream,
  is read as the next headers, and closes the connection. A put with bytes behind
  its value is executed. `TcpHeaders::to_bytes` writes the correlation id in
  little-endian order, `parse_headers` reads it in the other. Responses have no
  length prefix.
- Protocol: `design.md:153-156` numbers put 0, delete 1, get 2 and has a
  heartbeat; `parse_request_type` takes delete 0, get 1, put 2 and nothing else.
  `design.md:130` lists unknown flags among the errors; the flags are read and
  never looked at. `design.md:145-146` plans timeouts for headers and payload;
  only the first length has one.

## 4. Proofs

Every theorem holds for all values of the constants that satisfy the assumptions
in the modules: any number of clients, workers, keys, values, requests, segments
and restarts, every size, and every choice of failing I/O.

| Module | Theorem | Statement |
|---|---|---|
| `StorageEngineProofs` | `InductiveInvariant` | `Spec => []Inductive` |
| | `TypeCorrect` | `Spec => []TypeOK` |
| | `CallsHeldOnce` | `Spec => []OneHolder` |
| | `FlushesHaveEntries` | `Spec => []FlushHasEntries` |
| | `WritesKept` | `Spec => []NothingLost` (all keys but `ExposedKeys`) |
| | `MemtableStaysBounded` | `Spec => []MemtableBounded` |
| | `FirstLifeReadable` | `Spec => [](restarts = 0 => FlushedSegmentsReadable)` |
| | `TableStaysAccounted` | `Spec => []TableAccounted` |
| `StorageEngineRefinementProofs` | `EngineLinearizable` | `HSpec /\ []AllIntact /\ []NothingExposed => Linearizable` |
| | `FirstLifeLinearizable` | `HSpec /\ [](restarts = 0) => Linearizable` |
| `ServerProofs` | `ServerInductive` | `Spec => []Inductive` |
| | `ServerTypes` | `Spec => []TypeOK` |
| | `AnswersAlwaysMatch` | `Spec => []AnswersMatch` |
| | `AnswersAlwaysInOrder` | `Spec => []AnswersInOrder` |
| | `RequestsExecutedOnce` | `Spec => []ExecutedOnce` |
| | `RunAlwaysWaits` | `Spec => []RunWaits` |
| `SegmentProofs` | `LookupsExact` | `Spec => []LookupExact` |
| `MergeProofs` | `TwoMergesAlwaysEnd` | `Spec => []TwoMergesEnd` |
| | `MergeTyped` | `Spec => []TypeOK` |
| | `CutInTimeAlways` | `Spec => []FilesCutInTime` |
| | `EntriesOnceAlways` | `Spec => []EntriesOnce` |
| | `NewestKeptAlways` | `Spec => []NewestKept` |
| `WalProofs` | `NumbersGrow` | `Spec => []FirstLifeNumbersIncrease` |
| | `LogGrows` | `Spec => LogAppendOnly` |
| | `LogTyped` | `Spec => []TypeOK` |
| | `NoneRevived` | `Spec => []NothingRevived` |
| | `SoundLogReplayed` | `Spec => []SoundLogRecovers` |
| | `SoundLogOpened` | `Spec => []SoundLogOpens` |
| | `SoundNumbersGrow` | `Spec => []SoundSequenceNumbersIncrease` |

The assumptions say of the constants what the code's types and its own constants
say: sets of the right kind, a finite set of keys (the file of a flush holds one
entry for each), sizes that are positive, a log segment longer than a header and
records longer than one. One says more: no request has a key of 1,919,645,299
bytes (`TcpRequests`, part of `ServerAssumption`), the number the magic bytes
spell, since its payload, read as headers after a parse error, would pass the
first check of `parse_headers`. They are the `ASSUME`s of `StorageEngine`, `Server`,
`Wal`, `Segment` and `Merge`; TLC evaluates them in the runs.

### The engine

`NothingLost` says what a lookup finds and is not inductive: it says nothing of
an entry that a newer one hides, and clearing the table uncovers those. The
invariant states the reasons instead. Every entry, in the table or in a segment,
is a copy of a logged record of its key (`EntriesLogged`); the table's entry is
newer than any segment's (`TableNewest`), which is why `Worker::get` may stop
there; for every record there is an entry at least as new (`RecordsCovered`);
and between `FlushAdd` and `FlushClear` the newest segment equals the table
(`WriterMidway`), so clearing uncovers nothing. `RecordsCovered` and
`NothingLost` except `ExposedKeys`: a start that reads a log with remains of a
failed or torn append in it replays every record before them and some of those
behind (`RestartFinds`), and the keys of the latter are given up; no other step gives up a key
(`ExposedKept`). `DamageMarked` says that a log without such remains exposes
nothing: the exception is empty in behaviours without failed or torn appends. `LevelZeroGet` picks an entry of
maximal sequence number; that there is one is `MaxExists`, from the
well-foundedness of the naturals, and `NothingLost` follows.

Which record `Insert` puts into the table is known only if the write worker's job
is a worker that waits for it and whose client still waits (`JobsMatch` with
`OneHolder`). `JobsMatch` survives a dead write worker because the queue is
emptied when it panics and because a regular end finds no job left:
`WriteJob::Shutdown` is last (`ShutdownLast`), since only the last worker's drop
sends it. `SizesCounted` relates the counters to the table: a memtable that
counts as full is not empty. `DownIsEmpty` is what `Restart` starts from.

The proof takes one lemma per part and group of actions (`TypeStep`,
`HolderStep`, `JobsStep`, `DownStep`, `ContentsStep`), each with frame lemmas
for the actions that do not touch the part's variables.

`FirstLife` is a second invariant, on top of the first: until a restart there are
as many files as segments in level zero, plus the one a flush is writing, so that
no flush opens a file that has something in it; and a job is taken up only below
`max_size`. From it come `MemtableStaysBounded` and `FirstLifeReadable`. The
violation `engine_file_reused` shows that neither file names nor segments stay
apart after a restart.

`TableAccounted` compares `current_size` with what a flush of the table would
write, in every life. After a crash both start again from the log, `current_size`
with the sum `recover` makes; so the invariant `Accounted` adds that the replayed
log writes no more than that sum. Both parts are about the sum over a table's
entries (`FileLen`), of which the proof needs that it grows by at most the size
of the entry that is put in, whether it replaces one or not.

### The refinement

`StorageEngineRefinement` adds a history variable, `window`: for a get in
progress the values that were visible since it began, for a write its result
once it is applied. The mapping shows to callers the map `Visible`. The proof
rests on `Inductive` and on `WindowOK`, which says what the place a call has
reached means for its window: a get about to look in level zero will find
something that has been visible (`WorkerWindow`), since the table had no entry
when it looked, and later entries were visible when they were inserted.
`NewestVisible` shows that `Visible` is the newest logged record of a key that is
not still being written; an append therefore changes nothing that callers see
and `Insert` changes one key. One lemma per action (`...Simulated`) then maps the
step to a step of `KVStore` or to none.

The two hypotheses are those of the constraints of `engine_refines`. `[]AllIntact`
says that no segment mixes two flushes; the violation `engine_file_reused` shows
that the code needs it. `[]NothingExposed` says that no start has read a log with
records behind the remains of a failed or torn append; without it an
acknowledged write may be gone after a restart, and the code is not
linearizable. Failed appends themselves are not excluded: they have no effect
that callers see, before the next start and after one that finds nothing behind
them. `FirstLifeLinearizable` has neither hypothesis: `FirstLifeReadable` and
`FirstLifeUnread` discharge them, and what fails in a first life, a failed append
and all that follows it included, is linearizable.

### The server

The properties speak of answers and executions; what keeps them true is where a
task is in its stream. Every request is four parts (two lengths, two blocks).
`InStep` ties each program counter to a position modulo four: a task in front of
a length is behind a request, or in front of the payload of one whose headers
were refused, in which case the next header length it reads is the payload's.
`AtRequest` says what it knows of the request there, `Counted` how many answers a
client that is still there has got at each program counter, `Answered` and
`Executed` what the histories hold. That a block of payload is never taken for
valid headers is part of `ServerAssumption` (no key has the length that the magic
bytes spell) and enters through the parser's lemmas: without magic bytes
`parse_headers` closes the connection.

`RunWaits` needs the way of a start signal: until the manager leaves its loop,
every accepted connection it does not know is in the channel or in the hands of
the accept loop (`OnTheWay`). When it leaves, it loses the message in its hand
and those in the channel, and at most one more can be accepted: the accept loop
looks at the cancellation after each send. So at most `Capacity + 1` connections
are overlooked. `ServerAssumption` allows every script of requests, not only
those of the run.

### Lookups in segments and levels

`LookupExact` is about a recursive function, the binary search of the index. The
proof does not use an induction theorem. `SearchEquation` is the equation that
defines the search; `SearchSolved` gives a function that satisfies it (the last
indexed key that is not larger, chosen outright), so that the `CHOOSE` behind the
definition is defined; `SearchFinds` shows that every solution finds that place,
by taking the shortest interval on which it would not. `FindRange` and
`SegmentLookup` carry this through `SegmentIndex::find` and `Segment::get`:
nothing outside the range found can have the key, and the first entry in it that
is not smaller is the one, or none is. `IndexInside` shows that the index of a
flush and that of the segment writer ascend and stay inside the file, for every
sparsity factor. For a get on a level there is the choice of the file: in a partitioned
level the only one whose range has the key (`PartitionedLookup`), in level zero
all of them (`OverlappingLookup`). The levels are those `Merge` starts from:
sorted files of any number and length.

### Folds and sorts

The loops of the code are folds in the models, and a fold is a recursive
function over sets of positions. `Iteration` shows once, for any step operator,
that there is a run: a function whose value at 0 is the base and at `i` one step
from that at `i - 1`, and whose value at the length of the sequence is the fold
(`FoldRuns`). A proof takes an instance with the step of its loop and shows that
every value of the run has the property it needs, by `SetInduction`: for the set
of positions where it holds, since the library's induction theorems take an
operator and the provers cannot instantiate one. What is taken out of a set or a
sequence in order is written in closed form, by rank (`InOrder`, `Picked` of
`Ordering`), and `OrderingProofs` shows that every element occurs once and in its
order.

### Merges

`MergeInvariant` is as plain as the module: the level and the incoming segments
are those of `Init`, and what is merged is nothing or what `merge` returns for
them. The work is in `merge`, and the proof goes from the inside out.

- A round of `merge_sort` takes entries from the front of its buffers and writes
  some of them: each at most once, and none is passed over but for one with the
  same key that is not older (`Wrote`; `Served` is that after any number of
  steps of a round, and of rounds). It says nothing of the order of what is
  written, and so holds for the rounds that write out of order as well.
- A pass of `merge_and_write` calls `merge_sort` and fills the buffers again. An
  entry is in the output or still unread, in one place, and of the newest entry
  of a key one is (`Flow`, kept by every pass: `PassKeeps`). Filling a buffer
  that has room for the next entry loses nothing; here `EntriesFit` is needed.
  At the end nothing is unread, so the output has every newest entry.
- The output is split among files, each entry to one (`Distributed`), cut where
  `FilesCutInTime` says; the files get the numbers behind the highest of the
  level; and sorting them among the segments that were kept moves them about but
  neither drops nor repeats any (`Arranged`).

The five theorems read `TypeOK`, `FilesCutInTime`, `EntriesOnce` and `NewestKept`
off this, and `TwoMergesEnd` off one more fact. A call of `merge_sort` takes at
least one entry if there are one or two buffers and they are sorted and not
empty: one of them begins with a key that does not exceed the smallest last key
(`FinalKeyIs`), and the first round takes it (`RoundsGrow`). Hence after `t`
passes `t` entries are written or no reader is left (`Ending`), and the passes
the model allows are at least as many as the entries. With three buffers a round
can meet a key beyond its limit, and the run finds merges that spin.

### The log before the first crash

`WalProofs` shows for the first life that a sequence number, which is a byte
offset, never falls behind that of an acknowledged record, and that no call
shortens a file. The invariant (`LifeOK`): the active segment has the highest
number and `file_size` is at most the segment's; the calls left of an append end
with a write of something and rotate at most once, to a later segment
(`PlanOK`); only the last record is pending; acknowledged records lie below
`next_lsn`. The middle part is the arithmetic of the code: a record that does
not fit ends behind the segment, so its last byte divided by the segment size is
a later segment (`DivBehind`, `PlanSound`), also when an earlier append has
failed and left the file longer than `file_size`, or the segment full. Recovery
ends the guarantee: after damage it may set the numbers back
(`SoundSequenceNumbersIncrease` is stated for logs without damage).

### The log across crashes

`Parse` is a recursive function over the offsets of a file, and `Recover` folds
it over the segments. As with the binary search, the equation of the recursion is
shown to have one solution (`ParseSolves`, by induction from the end of the file
downwards), and what is read from an offset is described outright: whole records
one behind the other, and why reading stopped (`ReadsFrom`).

Two invariants follow. `Lasting` holds under any damage, torn and failed writes
included: the last cell of a record is written last, by the last call of its
append, so that the log has such a cell only of acknowledged records, and one of
each (`Finished`). A record is replayed only if its last cell is found, hence
`NoneRevived`: truncation takes cells away, and padding has no last cell.

`LogInvariant` adds `SoundLog` for a log that has met no such damage. It says
what recovery would find at this very moment: the acknowledged records in their
order, and the end of the log at the end of the active file. While an append is
under way it also says which of the plans of `Wal::append` is being carried out
and how far (`AtStage`): the record in one write, in two segments, with its
header alone in the first, behind padding, or behind a rotation. Each of these
stages is followed by one crash or one call, and in each recovery finds what was
acknowledged and at most the record in progress; where it stops, the truncation
leaves a log that is sound again. `SoundLogReplayed`, `SoundLogOpened` and
`SoundNumbersGrow` are read off this, the last because every record found lies
below the offset at which the next one is written.

### Only model-checked

- Liveness (`EveryCallReturns`, `ShutdownReturns`, `DropReturns`,
  `StartedRequestsAnswered`, `LateAcceptShutsDown`): fairness is beyond the
  prover.
- `AlignedMerged` and `AlignedFound`: that the output of a merge is ascending
  when its input is aligned. The lemmas above say what is written, not in which
  order; the order needs the limits of every round compared with the keys that
  are left in the buffers behind it.
- `Compaction`: `TypeOK`, `LevelsOrdered`, `SnapshotsAnswer`,
  `PartitionedIntact`, `MergesKeepNewest`, `DeletedIsMerged` and
  `StartKeepsNewest`. Its levels are what earlier merges and `from_dir` leave,
  while the lemmas about merges are for files as `Merge` starts from; the levels
  a merge leaves need not be partitioned (`merge_unsorted`), so that an
  inductive invariant has to say which of them are, for the keys, sizes and the
  number of compactions of the run. `segments_to_merge` and `from_dir` are folds
  and sorts of their own.

## 5. Not modelled, and the plan

Not modelled:

- `main.rs` and the module declarations, which have no logic; binding the socket.
- The bytes of entries, index and messages: the repository's tests cover their
  round trips. Lengths, positions and the decisions of the parsers are modelled.
- `finish_merge` and `rollback_merge`, which are `todo!()` and never reached;
  `Wal::sync`, which has no caller; `highest_sequence_number` of a container that
  is not empty, which no caller meets.
- The composition of `StorageEngine` with `Compaction`: the two directories keep
  the engine's segments out of `from_dir`, and a memtable that fills level zero
  in one model and a compaction in the other meet in `FlushAdd` only.
- A loss of power: what has been handed to the operating system survives.

What is left to prove is the order of a merge's output (`AlignedMerged`), with
it that a level stays partitioned under merges of segments that do not overlap,
and on that basis `PartitionedIntact` and `LevelsOrdered` of `Compaction`.
