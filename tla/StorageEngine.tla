--------------------------- MODULE StorageEngine ---------------------------
(***************************************************************************)
(* The storage engine of rkvs: a pool of workers that serve the calls of     *)
(* the trait Store (storage_engine.rs), the memtable with the one thread     *)
(* that writes to it (memtable.rs), the flush of a full memtable into a      *)
(* segment file (memtable_flusher.rs, SegmentWriter::segment_file_from_      *)
(* memtable, LevelContainer::add_to_level_zero), shutdown, process crashes   *)
(* and recovery at the next start.                                           *)
(*                                                                         *)
(* The write-ahead log is the sequence of records it holds: a record's       *)
(* position stands for its sequence number (which is a byte offset in the    *)
(* code and grows the same way; module Wal models the bytes).  Level zero    *)
(* stays below its target size, so that no compaction starts.                *)
(***************************************************************************)
EXTENDS Store, Naturals, Sequences, FiniteSets, FiniteSetsExt

CONSTANTS
    Workers,        \* the worker threads
    MaxSize,        \* StorageEngineConf::memtable_max_size
    EmptyKeys,      \* the empty string, if callers use it: {} or one key
    Ops,            \* the kinds of calls clients make
    IoFaults,       \* where I/O may fail: "wal", "flush", "read"
    MaxCalls,       \* bound: calls made in a behaviour
    MaxRestarts     \* bound: starts of the process after the first one

ASSUME EngineAssumption ==
    /\ Workers # {} /\ {"none", "Shutdown", "Final"} \cap Workers = {}
    /\ "none" \notin Clients
    /\ MaxSize \in Nat \ {0}
    /\ IsFiniteSet(Keys) /\ EmptyKeys \subseteq Keys
    /\ Ops \subseteq {"get", "put", "delete"}
    /\ IoFaults \subseteq {"wal", "flush", "read"}
    /\ MaxCalls \in Nat /\ MaxRestarts \in Nat

VARIABLES
    phase,          \* "up", "stopping" (StorageEngine::shutdown) or "down"
    call,           \* the request each client waits for, or Idle
    ret,            \* the outcome of each client's last call
    jobs,           \* the channel of Jobs: the clients they belong to
    worker,         \* each worker's program counter, client and result
    write_jobs,     \* the channel of WriteJobs: the workers that wait for them
    writer,         \* the write worker's program counter and job
    table,          \* the memtable: an entry for every key, Absent for none
    current_size,   \* WriteWorker::current_size
    poisoned,       \* the RwLocks a thread panicked under
    level_zero,     \* the segments of level zero, oldest first
    wal,            \* the records of the log
    wal_size,       \* the sum recover() adds up when it replays the log
    damage,         \* the first record behind what a failed append has left
                    \* in the log, 0 if there is nothing of the kind
    exposed,        \* the last record recovery has read behind it, 0 if none
    files,          \* the segment files 1, 2, ... in the flusher's directory
    calls, restarts

memory == <<jobs, worker, write_jobs, writer, table, current_size, poisoned, level_zero>>
log == <<wal, wal_size, damage, exposed>>
disk == <<log, files>>
vars == <<phase, call, ret, memory, disk, calls, restarts>>

-----------------------------------------------------------------------------
(* Entries, tables and segments                                             *)

(* MemTableValue and SsTableEntry.  Sequence numbers start at 1 here, so     *)
(* that 0 marks a key without an entry.                                      *)
Entry == [value : Maybe, seq : Nat]

Absent == [value |-> NoValue, seq |-> 0]

Record == [key : Keys, value : Maybe]

EmptyTable == [k \in Keys |-> Absent]

IsEmpty(t) == \A k \in Keys : t[k].seq = 0

(* SsTableEntry::len: a tombstone is shorter than any value.                *)
EntryLen(v) == IF v = NoValue THEN 1 ELSE 2

FileLen(t) ==
    MapThenSumSet(LAMBDA k : IF t[k].seq = 0 THEN 0 ELSE EntryLen(t[k].value), Keys)

Table == [Keys -> Entry]

Segment == [entries : Table, intact : BOOLEAN]

AllIntact == \A n \in 1 .. Len(level_zero) : level_zero[n].intact

(* Seeded fault: the oldest segment with the key answers.                   *)
LevelZeroGetOldest(k) ==
    LET S == {n \in 1 .. Len(level_zero) : level_zero[n].entries[k].seq > 0}
    IN  IF S = {} THEN Absent ELSE level_zero[CHOOSE n \in S : \A m \in S : n <= m].entries[k]

(* Segment::get: the entry of the key, found through the index.             *)
SegmentGet(s, k) == s.entries[k]

(* OverlappingLevel::get: of the entries the segments hold for the key, the *)
(* one with the highest sequence number.                                    *)
LevelZeroGet(k) ==
    LET found == {Absent} \cup {SegmentGet(level_zero[n], k) : n \in 1 .. Len(level_zero)}
    IN  CHOOSE e \in found : \A f \in found : f.seq <= e.seq

(* Seeded fault: the first record of a key wins.                            *)
ReplayedFirst ==
    [k \in Keys |->
        LET S == {i \in 1 .. Len(wal) : wal[i].key = k}
        IN  IF S = {} THEN Absent
            ELSE LET i == CHOOSE j \in S : \A m \in S : j <= m
                 IN  [value |-> wal[i].value, seq |-> i]]

(* What a table holds of the records S of a key: the last one.              *)
LastOf(S) ==
    IF S = {} THEN Absent
    ELSE LET i == CHOOSE j \in S : \A m \in S : m <= j
         IN  [value |-> wal[i].value, seq |-> i]

(* MemTable::recover over all segments of the log: the last record of a key *)
(* wins.                                                                    *)
Replayed == [k \in Keys |-> LastOf({i \in 1 .. Len(wal) : wal[i].key = k})]

(* The same when recovery does not find the records lost, or finds an older *)
(* record of the key behind them.                                           *)
ReplayedWithout(lost) ==
    [k \in Keys |-> LastOf({i \in (1 .. Len(wal)) \ lost : wal[i].key = k})]

(* The records that were behind the damage when the log was read, and their *)
(* keys.                                                                    *)
Exposed == {i \in 1 .. exposed : damage <= i}

ExposedKeys == {wal[i].key : i \in Exposed}

-----------------------------------------------------------------------------
WorkerRest == [pc |-> "recv", client |-> "none", result |-> Ok(NoValue)]

WriterRest == [pc |-> "recv", job |-> "none"]

WriterDead == [pc |-> "dead", job |-> "none"]

(* The write lock of the table is held across a flush.                      *)
TableLocked == writer.pc \in {"open", "write", "add", "clear"}

WriterAlive == writer.pc # "dead"

Alive == {w \in Workers : worker[w].pc # "gone"}

Init ==
    /\ phase = "up"
    /\ call = [c \in Clients |-> Idle]
    /\ ret = [c \in Clients |-> Ok(NoValue)]
    /\ jobs = <<>>
    /\ worker = [w \in Workers |-> WorkerRest]
    /\ write_jobs = <<>>
    /\ writer = WriterRest
    /\ table = EmptyTable
    /\ current_size = 0
    /\ poisoned = {}
    /\ level_zero = <<>>
    /\ wal = <<>>
    /\ wal_size = 0
    /\ damage = 0
    /\ exposed = 0
    /\ files = <<>>
    /\ calls = 0
    /\ restarts = 0

-----------------------------------------------------------------------------
(* The callers: StorageEngine::get, put and delete                           *)

(* A job is queued; when every worker is gone the channel has no receiver    *)
(* and the caller is told that the engine has shut down.                     *)
Invoke(c) ==
    /\ phase = "up" /\ call[c] = Idle /\ calls < MaxCalls
    /\ calls' = calls + 1
    /\ \/ /\ Alive # {}
          /\ \E r \in Requests :
                /\ r.op \in Ops
                /\ call' = [call EXCEPT ![c] = r]
          /\ jobs' = Append(jobs, c)
          /\ UNCHANGED ret
       \/ /\ Alive = {}
          /\ ret' = [ret EXCEPT ![c] = Failure("Shutdown")]
          /\ UNCHANGED <<call, jobs>>
    /\ UNCHANGED <<phase, worker, write_jobs, writer, table, current_size, poisoned,
                   level_zero, disk, restarts>>

-----------------------------------------------------------------------------
(* The workers: Worker::run, get, put and delete                             *)

WorkerRecv(w) ==
    /\ worker[w].pc = "recv" /\ jobs # <<>>
    /\ LET c == Head(jobs) IN
       worker' = [worker EXCEPT ![w] =
           [pc |-> IF IsWrite(call[c]) THEN "submit" ELSE "table",
            client |-> c, result |-> Ok(NoValue)]]
    /\ jobs' = Tail(jobs)
    /\ UNCHANGED <<phase, call, ret, write_jobs, writer, table, current_size, poisoned,
                   level_zero, disk, calls, restarts>>

(* What the three seeded faults of WorkerGone have in common.                *)
WorkerGoneWith(w, C, shutdown) ==
    /\ worker' = [worker EXCEPT ![w] = [WorkerRest EXCEPT !.pc = "gone"]]
    /\ jobs' = IF Alive = {w} THEN <<>> ELSE jobs
    /\ write_jobs' = IF shutdown /\ WriterAlive THEN Append(write_jobs, "Shutdown") ELSE write_jobs
    /\ call' = [c \in Clients |-> IF c \in C THEN Idle ELSE call[c]]
    /\ ret' = [c \in Clients |-> IF c \in C THEN Failure("Shutdown") ELSE ret[c]]
    /\ UNCHANGED <<phase, writer, table, current_size, poisoned, level_zero, disk,
                   calls, restarts>>

Queued(w) == IF Alive = {w} THEN {jobs[i] : i \in 1 .. Len(jobs)} ELSE {}

(* Seeded fault: the callers in the queue are not told.                      *)
WorkerGoneForgetful(w, failed) == WorkerGoneWith(w, failed, Alive = {w})

(* Seeded fault: every worker shuts the write worker down.                   *)
WorkerGoneEager(w, failed) == WorkerGoneWith(w, failed \cup Queued(w), TRUE)

(* Seeded fault: nobody does.                                                *)
WorkerGoneSilent(w, failed) == WorkerGoneWith(w, failed \cup Queued(w), FALSE)

(* The worker's thread ends and drops what it holds.  The last one takes the *)
(* job channel and the MemTable with it: queued callers find their answer    *)
(* channel closed, and the write worker is sent WriteJob::Shutdown.          *)
WorkerGone(w, failed) ==
    LET last == Alive = {w}
        C == failed \cup (IF last THEN {jobs[i] : i \in 1 .. Len(jobs)} ELSE {})
    IN
    /\ worker' = [worker EXCEPT ![w] = [WorkerRest EXCEPT !.pc = "gone"]]
    /\ jobs' = IF last THEN <<>> ELSE jobs
    /\ write_jobs' = IF last /\ WriterAlive THEN Append(write_jobs, "Shutdown") ELSE write_jobs
    /\ call' = [c \in Clients |-> IF c \in C THEN Idle ELSE call[c]]
    /\ ret' = [c \in Clients |-> IF c \in C THEN Failure("Shutdown") ELSE ret[c]]
    /\ UNCHANGED <<phase, writer, table, current_size, poisoned, level_zero, disk,
                   calls, restarts>>

(* MemTable::get or SsTable::get unwraps a poisoned lock.                    *)
WorkerPanic(w) ==
    /\ \/ worker[w].pc = "table" /\ "table" \in poisoned
       \/ worker[w].pc = "sst" /\ "levels" \in poisoned
       \/ worker[w].pc = "sst" /\ ~AllIntact
    /\ WorkerGone(w, {worker[w].client})

(* Seeded fault: a tombstone in the memtable counts as not found.            *)
ReadTableNoTombstone(w) ==
    /\ worker[w].pc = "table" /\ ~TableLocked /\ "table" \notin poisoned
    /\ LET e == table[call[worker[w].client].key] IN
       worker' = IF e.value # NoValue
                 THEN [worker EXCEPT ![w].pc = "reply", ![w].result = Ok(e.value)]
                 ELSE [worker EXCEPT ![w].pc = "sst"]
    /\ UNCHANGED <<phase, call, ret, jobs, write_jobs, writer, table, current_size,
                   poisoned, level_zero, disk, calls, restarts>>

(* Worker::get looks in the memtable first ...                               *)
ReadTable(w) ==
    /\ worker[w].pc = "table" /\ ~TableLocked /\ "table" \notin poisoned
    /\ LET e == table[call[worker[w].client].key] IN
       worker' = IF e.seq > 0
                 THEN [worker EXCEPT ![w].pc = "reply", ![w].result = Ok(e.value)]
                 ELSE [worker EXCEPT ![w].pc = "sst"]
    /\ UNCHANGED <<phase, call, ret, jobs, write_jobs, writer, table, current_size,
                   poisoned, level_zero, disk, calls, restarts>>

(* ... and later, without a lock in between, in level zero.  A segment that  *)
(* is not intact holds bytes of two files and may yield any answer; and a    *)
(* log truncated at a damaged record numbers the next ones from there, so    *)
(* that any of the segments may have the highest number for an exposed key.  *)
ReadSst(w) ==
    /\ worker[w].pc = "sst" /\ "levels" \notin poisoned
    /\ \E r \in Outcomes :
          /\ \/ r = Ok(LevelZeroGet(call[worker[w].client].key).value)
             \/ r = Failure("IoError") /\ "read" \in IoFaults
             \/ /\ call[worker[w].client].key \in ExposedKeys
                /\ \E n \in 1 .. Len(level_zero) :
                      LET e == level_zero[n].entries[call[worker[w].client].key]
                      IN  e.seq > 0 /\ r = Ok(e.value)
             \/ /\ ~AllIntact
                /\ r.status = "Ok" \/ r = Failure("IoError")
          /\ worker' = [worker EXCEPT ![w].pc = "reply", ![w].result = r]
    /\ UNCHANGED <<phase, call, ret, jobs, write_jobs, writer, table, current_size,
                   poisoned, level_zero, disk, calls, restarts>>

(* MemTable::put and delete: queue a WriteJob and wait for its answer; both  *)
(* a closed queue and a dropped answer channel become NotConnected.          *)
Submit(w) ==
    /\ worker[w].pc = "submit"
    /\ \/ /\ WriterAlive
          /\ write_jobs' = Append(write_jobs, w)
          /\ worker' = [worker EXCEPT ![w].pc = "await"]
       \/ /\ ~WriterAlive
          /\ worker' = [worker EXCEPT ![w].pc = "reply", ![w].result = Failure("IoError")]
          /\ UNCHANGED write_jobs
    /\ UNCHANGED <<phase, call, ret, jobs, writer, table, current_size, poisoned,
                   level_zero, disk, calls, restarts>>

(* Seeded faults: the error keeps its own kind; nobody notices the drop.     *)
AwaitDroppedRaw(w) ==
    /\ worker[w].pc = "await" /\ ~WriterAlive
    /\ worker' = [worker EXCEPT ![w].pc = "reply", ![w].result = Failure("NotConnected")]
    /\ UNCHANGED <<phase, call, ret, jobs, write_jobs, writer, table, current_size,
                   poisoned, level_zero, disk, calls, restarts>>

AwaitDroppedHangs(w) == worker[w].pc = "await" /\ ~WriterAlive /\ UNCHANGED vars

AwaitDropped(w) ==
    /\ worker[w].pc = "await" /\ ~WriterAlive
    /\ worker' = [worker EXCEPT ![w].pc = "reply", ![w].result = Failure("IoError")]
    /\ UNCHANGED <<phase, call, ret, jobs, write_jobs, writer, table, current_size,
                   poisoned, level_zero, disk, calls, restarts>>

Reply(w) ==
    /\ worker[w].pc = "reply"
    /\ LET c == worker[w].client IN
       /\ call' = [call EXCEPT ![c] = Idle]
       /\ ret' = [ret EXCEPT ![c] = worker[w].result]
    /\ worker' = [worker EXCEPT ![w] = WorkerRest]
    /\ UNCHANGED <<phase, jobs, write_jobs, writer, table, current_size, poisoned,
                   level_zero, disk, calls, restarts>>

WorkerExit(w) ==
    /\ phase = "stopping" /\ worker[w].pc = "recv" /\ jobs = <<>>
    /\ WorkerGone(w, {})

-----------------------------------------------------------------------------
(* The write worker: WriteWorker::run, put and delete, Flusher::flush        *)

WriteRequest == call[worker[writer.job].client]

(* Where run() goes with a job once the memtable has room.                   *)
JobPc(j) == IF j = "Shutdown" THEN "final" ELSE "append"

(* Seeded fault: the memtable may fill up to max_size and then some.         *)
WriterRecvLate ==
    /\ writer.pc = "recv" /\ write_jobs # <<>>
    /\ LET j == Head(write_jobs) IN
       writer' = [pc |-> IF current_size > MaxSize THEN "open" ELSE JobPc(j), job |-> j]
    /\ write_jobs' = Tail(write_jobs)
    /\ UNCHANGED <<phase, call, ret, jobs, worker, table, current_size, poisoned,
                   level_zero, disk, calls, restarts>>

WriterRecv ==
    /\ writer.pc = "recv" /\ write_jobs # <<>>
    /\ LET j == Head(write_jobs) IN
       writer' = [pc |-> IF current_size >= MaxSize THEN "open" ELSE JobPc(j), job |-> j]
    /\ write_jobs' = Tail(write_jobs)
    /\ UNCHANGED <<phase, call, ret, jobs, worker, table, current_size, poisoned,
                   level_zero, disk, calls, restarts>>

(* Segments are numbered from 1 in the order they are added.                 *)
HighestSegmentNumber == Len(level_zero)

(* The file Flusher::flush writes.                                           *)
FlushNumber == HighestSegmentNumber + 1

(* The file is opened for writing, created if need be, and not truncated.    *)
FlushOpen ==
    /\ writer.pc = "open"
    /\ files' = IF FlushNumber > Len(files) THEN Append(files, EmptyTable) ELSE files
    /\ writer' = [writer EXCEPT !.pc = "write"]
    /\ UNCHANGED <<phase, call, ret, jobs, worker, write_jobs, table, current_size,
                   poisoned, level_zero, log, calls, restarts>>

(* Entries, index and footer are written from the start of the file.  What   *)
(* an older and longer file held beyond them stays, its footer included.     *)
FlushWrite ==
    /\ writer.pc = "write"
    /\ files' = [files EXCEPT ![FlushNumber] =
                    IF ~IsEmpty(@) /\ FileLen(table) < FileLen(@) THEN @ ELSE table]
    /\ writer' = [writer EXCEPT !.pc = "add"]
    /\ UNCHANGED <<phase, call, ret, jobs, worker, write_jobs, table, current_size,
                   poisoned, level_zero, log, calls, restarts>>

(* The flush of run() goes on to clear the table; the one after the loop     *)
(* ends the thread.                                                          *)
FlushDone == IF writer.job = "Final" THEN WriterDead ELSE [writer EXCEPT !.pc = "clear"]

(* What Segment::from_file makes of the file: the table again, unless the    *)
(* footer it starts from is an older one.                                    *)
ReadBack == files[FlushNumber] = table

(* Segment::from_file reads the file back and level zero takes it in.  A     *)
(* file that kept an old tail is accepted, or refused with an error that     *)
(* run() meets with todo!(), or makes from_file panic under both locks.      *)
FlushAdd ==
    /\ writer.pc = "add"
    /\ \/ /\ \E ok \in BOOLEAN :
                /\ ok <=> ReadBack
                /\ level_zero' = Append(level_zero, [entries |-> table, intact |-> ok])
          /\ writer' = FlushDone
          /\ UNCHANGED <<poisoned, write_jobs>>
       \/ /\ ~ReadBack
          /\ writer' = WriterDead
          /\ write_jobs' = <<>>
          /\ poisoned' \in {IF writer.job = "Final" THEN poisoned ELSE {"table"},
                            {"table", "levels"}}
          /\ UNCHANGED level_zero
    /\ UNCHANGED <<phase, call, ret, jobs, worker, table, current_size, disk, calls, restarts>>

(* A flush that fails reaches todo!() with the table's lock held; after the  *)
(* loop its result is ignored.                                               *)
FlushError ==
    /\ "flush" \in IoFaults
    /\ writer.pc \in {"open", "write", "add"}
    /\ writer' = WriterDead
    /\ write_jobs' = <<>>
    /\ poisoned' = IF writer.job = "Final" THEN poisoned ELSE poisoned \cup {"table"}
    /\ UNCHANGED <<phase, call, ret, jobs, worker, table, current_size, level_zero, disk,
                   calls, restarts>>

FlushClear ==
    /\ writer.pc = "clear"
    /\ current_size' = 0
    /\ table' = EmptyTable
    /\ writer' = [writer EXCEPT !.pc = JobPc(writer.job)]
    /\ UNCHANGED <<phase, call, ret, jobs, worker, write_jobs, poisoned, level_zero, disk,
                   calls, restarts>>

(* WriteWorker::put and delete: the record goes to the log first ...         *)
WalAppend ==
    /\ writer.pc = "append" /\ WriteRequest.key \notin EmptyKeys
    /\ wal' = Append(wal, [key |-> WriteRequest.key, value |-> WriteRequest.value])
    /\ wal_size' = wal_size + EntryLen(WriteRequest.value)
    /\ writer' = [writer EXCEPT !.pc = "insert"]
    /\ UNCHANGED <<phase, call, ret, jobs, worker, write_jobs, table, current_size,
                   poisoned, level_zero, damage, exposed, files, calls, restarts>>

(* Wal::append makes up to four system calls.  When one of them fails, or    *)
(* the process dies in it, a header, padding, an empty segment or a part of  *)
(* the record stays behind, or nothing: the next record is then the first    *)
(* that recovery may not find.                                               *)
AppendCutShort ==
    \/ damage = 0 /\ damage' = Len(wal) + 1
    \/ UNCHANGED damage

(* ... an error there is the answer ...                                      *)
WalAppendError ==
    /\ writer.pc = "append" /\ WriteRequest.key \notin EmptyKeys /\ "wal" \in IoFaults
    /\ AppendCutShort
    /\ worker' = [worker EXCEPT ![writer.job].pc = "reply",
                                ![writer.job].result = Failure("IoError")]
    /\ writer' = WriterRest
    /\ UNCHANGED <<phase, call, ret, jobs, write_jobs, table, current_size, poisoned,
                   level_zero, wal, wal_size, exposed, files, calls, restarts>>

(* ... and an empty key an assertion (WalEntry::to_bytes) that ends the      *)
(* thread before anything is written and without a lock held.                *)
WalAppendPanic ==
    /\ writer.pc = "append" /\ WriteRequest.key \in EmptyKeys
    /\ writer' = WriterDead
    /\ write_jobs' = <<>>
    /\ UNCHANGED <<phase, call, ret, jobs, worker, table, current_size, poisoned,
                   level_zero, disk, calls, restarts>>

(* Seeded fault: the size of a key's entry is counted once.                  *)
InsertCountedOnce ==
    /\ writer.pc = "insert"
    /\ LET r == WriteRequest IN
       /\ table' = [table EXCEPT ![r.key] = [value |-> r.value, seq |-> Len(wal)]]
       /\ current_size' = current_size + IF table[r.key].seq > 0 THEN 0 ELSE EntryLen(r.value)
       /\ worker' = [worker EXCEPT ![writer.job].pc = "reply",
                                   ![writer.job].result = Ok(table[r.key].value)]
    /\ writer' = WriterRest
    /\ UNCHANGED <<phase, call, ret, jobs, write_jobs, poisoned, level_zero, disk, calls,
                   restarts>>

(* ... then to the table, whose old entry is the answer.                     *)
Insert ==
    /\ writer.pc = "insert"
    /\ LET r == WriteRequest IN
       /\ table' = [table EXCEPT ![r.key] = [value |-> r.value, seq |-> Len(wal)]]
       /\ current_size' = current_size + EntryLen(r.value)
       /\ worker' = [worker EXCEPT ![writer.job].pc = "reply",
                                   ![writer.job].result = Ok(table[r.key].value)]
    /\ writer' = WriterRest
    /\ UNCHANGED <<phase, call, ret, jobs, write_jobs, poisoned, level_zero, disk, calls,
                   restarts>>

(* Seeded fault: the last flush happens in any case.                         *)
FinalFlushAlways ==
    /\ writer.pc = "final"
    /\ writer' = [pc |-> "open", job |-> "Final"]
    /\ UNCHANGED <<phase, call, ret, jobs, worker, write_jobs, table, current_size,
                   poisoned, level_zero, disk, calls, restarts>>

(* After the loop: one more flush, unless there is nothing to flush.         *)
FinalFlush ==
    /\ writer.pc = "final"
    /\ writer' = IF IsEmpty(table) THEN WriterDead ELSE [pc |-> "open", job |-> "Final"]
    /\ UNCHANGED <<phase, call, ret, jobs, worker, write_jobs, table, current_size,
                   poisoned, level_zero, disk, calls, restarts>>

-----------------------------------------------------------------------------
(* The process: StorageEngine::shutdown, a crash, StorageEngine::new         *)

(* shutdown() takes the engine by value: no call is in progress.             *)
Shutdown ==
    /\ phase = "up" /\ \A c \in Clients : call[c] = Idle
    /\ phase' = "stopping"
    /\ UNCHANGED <<call, ret, memory, disk, calls, restarts>>

(* What a process that ends takes with it; the damage is left to the actions *)
(* below.                                                                    *)
LoseMemory ==
    /\ phase' = "down"
    /\ call' = [c \in Clients |-> Idle]
    /\ jobs' = <<>>
    /\ worker' = [w \in Workers |-> [WorkerRest EXCEPT !.pc = "gone"]]
    /\ write_jobs' = <<>>
    /\ writer' = WriterDead
    /\ table' = EmptyTable
    /\ current_size' = 0
    /\ poisoned' = {}
    /\ level_zero' = <<>>
    /\ UNCHANGED <<ret, wal, wal_size, exposed, files, calls, restarts>>

(* shutdown() returns once every thread has ended.                           *)
Stopped ==
    /\ phase = "stopping" /\ Alive = {} /\ ~WriterAlive
    /\ LoseMemory /\ UNCHANGED damage

Crash ==
    /\ phase # "down"
    /\ LoseMemory
    /\ \/ writer.pc = "append" /\ "wal" \in IoFaults /\ AppendCutShort
       \/ UNCHANGED damage

(* LevelContainer::from_dir looks for segments in <dir>/SSTable, where       *)
(* nothing writes any.                                                       *)
FoundSegments == <<>>

(* Level zero is empty, so its highest sequence number is 0 and MemTable::   *)
(* start replays the whole log.  In a damaged log it finds the records       *)
(* before the damage and some of those behind it; which ones, and whether    *)
(* truncation takes the damage away, module Wal tells.                       *)
Restart ==
    /\ phase = "down" /\ restarts < MaxRestarts
    /\ restarts' = restarts + 1
    /\ phase' = "up"
    /\ worker' = [w \in Workers |-> WorkerRest]
    /\ writer' = WriterRest
    /\ \/ /\ damage = 0
          /\ table' = Replayed
          /\ current_size' = wal_size
          /\ UNCHANGED exposed
       \/ /\ damage > 0
          /\ \E lost \in SUBSET (damage .. Len(wal)) : table' = ReplayedWithout(lost)
          /\ current_size' \in IF IsEmpty(table') THEN {0} ELSE FileLen(table') .. wal_size
          /\ exposed' = Len(wal)
    /\ level_zero' = FoundSegments
    /\ UNCHANGED <<call, ret, jobs, write_jobs, poisoned, wal, wal_size, damage, files, calls>>

-----------------------------------------------------------------------------
WorkerStep(w) ==
    \/ WorkerRecv(w) \/ WorkerPanic(w) \/ ReadTable(w) \/ ReadSst(w)
    \/ Submit(w) \/ AwaitDropped(w) \/ Reply(w) \/ WorkerExit(w)

WriterStep ==
    \/ WriterRecv \/ FlushOpen \/ FlushWrite \/ FlushAdd \/ FlushError \/ FlushClear
    \/ WalAppend \/ WalAppendError \/ WalAppendPanic \/ Insert \/ FinalFlush

Next ==
    \/ \E c \in Clients : Invoke(c)
    \/ \E w \in Workers : WorkerStep(w)
    \/ WriterStep
    \/ Shutdown \/ Stopped \/ Crash \/ Restart

Spec == Init /\ [][Next]_vars

(* The threads run; nobody promises calls, crashes, a shutdown or a restart. *)
Fairness ==
    /\ \A w \in Workers : WF_vars(WorkerStep(w))
    /\ WF_vars(WriterStep)
    /\ WF_vars(Stopped)

FairSpec == Spec /\ Fairness

-----------------------------------------------------------------------------
(* Properties                                                               *)

WorkerPcs == {"recv", "table", "sst", "submit", "await", "reply", "gone"}

WriterPcs ==
    {"recv", "open", "write", "add", "clear", "append", "insert", "final", "dead"}

WorkerState == [pc : WorkerPcs, client : Clients \cup {"none"}, result : Outcomes]

WriterState == [pc : WriterPcs, job : Workers \cup {"none", "Shutdown", "Final"}]

(* Every variable keeps its type.                                           *)
TypeOK ==
    /\ phase \in {"up", "stopping", "down"}
    /\ call \in [Clients -> Requests \cup {Idle}]
    /\ ret \in [Clients -> Outcomes]
    /\ jobs \in Seq(Clients)
    /\ worker \in [Workers -> WorkerState]
    /\ write_jobs \in Seq(Workers \cup {"Shutdown"})
    /\ writer \in WriterState
    /\ table \in Table
    /\ current_size \in Nat
    /\ poisoned \subseteq {"table", "levels"}
    /\ level_zero \in Seq(Segment)
    /\ wal \in Seq(Record)
    /\ wal_size \in Nat
    /\ damage \in Nat /\ exposed \in Nat
    /\ files \in Seq(Table)
    /\ calls \in Nat /\ restarts \in Nat

(* A worker that holds a job.                                               *)
Busy(w) == worker[w].pc \in {"table", "sst", "submit", "await", "reply"}

(* Every call in progress is in exactly one place, the job queue or one      *)
(* worker, and an answered call is in none: no panic, dropped channel or     *)
(* shutdown of Worker::run forgets a caller or answers it twice.             *)
OneHolder ==
    /\ \A c \in Clients : call[c] # Idle =>
          \/ \E i \in 1 .. Len(jobs) : jobs[i] = c
          \/ \E w \in Workers : Busy(w) /\ worker[w].client = c
    /\ \A i \in 1 .. Len(jobs) : call[jobs[i]] # Idle
    /\ \A w \in Workers : Busy(w) => worker[w].client \in Clients /\ call[worker[w].client] # Idle
    /\ \A i, j \in 1 .. Len(jobs) : jobs[i] = jobs[j] => i = j
    /\ \A v, w \in Workers : Busy(v) /\ Busy(w) /\ worker[v].client = worker[w].client => v = w
    /\ \A w \in Workers, i \in 1 .. Len(jobs) : Busy(w) => worker[w].client # jobs[i]

(* The record WriteWorker::put has logged and not yet inserted.              *)
InFlight == IF writer.pc = "insert" THEN {Len(wal)} ELSE {}

(* What Worker::get returns when nothing happens in between.                 *)
Lookup(k) == IF table[k].seq > 0 THEN table[k] ELSE LevelZeroGet(k)

(* While the engine runs on segments it can read, the newest logged record   *)
(* of every key, except for the one being written, is what a lookup through  *)
(* the memtable and level zero finds, at every point of a flush and after    *)
(* any number of crashes, restarts and failed appends; a key with no record  *)
(* is not found.  The exception are keys with a record that was behind the   *)
(* remains of a failed or torn append when the engine was started.           *)
NothingLost ==
    phase # "down" /\ AllIntact =>
        \A k \in Keys \ ExposedKeys :
            LET S == {i \in 1 .. Len(wal) : wal[i].key = k} \ InFlight
            IN  IF S = {} THEN Lookup(k) = Absent
                ELSE \E i \in S :
                        /\ \A j \in S : j <= i
                        /\ Lookup(k) = [value |-> wal[i].value, seq |-> i]

(* A flush always has an entry to write: Segment::from_file cannot read a    *)
(* segment without entries.  current_size only grows with the table, is      *)
(* never reduced by an overwrite, and is recomputed by a replay.             *)
FlushHasEntries == writer.pc \in {"open", "write", "add"} => ~IsEmpty(table)

(* The table never holds more than the write worker accounts for, whatever   *)
(* is overwritten, flushed or replayed.                                      *)
TableAccounted == FileLen(table) <= current_size

(* A full memtable is flushed before the next write: the write worker        *)
(* accounts for less than max_size plus one entry, except after a replay of  *)
(* the whole log.                                                            *)
MemtableBounded ==
    restarts = 0 => current_size < MaxSize + EntryLen(CHOOSE v \in Values : TRUE)

(* Without I/O faults, every segment a flush adds can be read back: each     *)
(* flush writes a file of its own.                                           *)
FlushedSegmentsReadable == AllIntact /\ "levels" \notin poisoned

-----------------------------------------------------------------------------
(* The inductive invariant behind the properties above                      *)

(* What the program counters of workers and write worker say about the jobs  *)
(* they hold: a write is in at most one place of the write queue.            *)
JobsMatch ==
    /\ \A w \in Workers :
          /\ worker[w].pc \in {"submit", "await"} => IsWrite(call[worker[w].client])
          /\ worker[w].pc \in {"table", "sst"} => ~IsWrite(call[worker[w].client])
    /\ \A i \in 1 .. Len(write_jobs) :
          /\ write_jobs[i] \in Workers => worker[write_jobs[i]].pc = "await"
          /\ write_jobs[i] \in Workers => write_jobs[i] # writer.job
    /\ \A i, j \in 1 .. Len(write_jobs) :
          write_jobs[i] \in Workers /\ write_jobs[i] = write_jobs[j] => i = j
    /\ writer.job \in Workers => worker[writer.job].pc = "await"
    /\ writer.pc \in {"append", "insert"} => writer.job \in Workers
    /\ writer.pc = "clear" => writer.job \in Workers \cup {"Shutdown"}
    /\ writer.pc \in {"open", "write", "add"} => writer.job # "none"
    /\ writer.pc \in {"recv", "dead"} => writer.job = "none"

(* WriteJob::Shutdown is the last job of the write queue: it is sent when no *)
(* worker is left to queue another, so a write worker that ends regularly    *)
(* leaves no job behind.                                                     *)
ShutdownLast ==
    /\ \/ writer.job \in {"Shutdown", "Final"}
       \/ \E i \in 1 .. Len(write_jobs) : write_jobs[i] = "Shutdown"
       => Alive = {}
    /\ writer.pc = "final" => writer.job = "Shutdown"
    /\ ~WriterAlive => \A i \in 1 .. Len(write_jobs) : write_jobs[i] \notin Workers

(* A process that is down holds nothing.                                     *)
DownIsEmpty ==
    phase = "down" =>
        /\ jobs = <<>> /\ write_jobs = <<>> /\ level_zero = <<>> /\ poisoned = {}
        /\ writer = WriterDead
        /\ \A w \in Workers : worker[w].pc = "gone"
        /\ \A c \in Clients : call[c] = Idle

(* An entry is a copy of a logged record of its key that has been inserted.  *)
Logged(k, e) ==
    \/ e = Absent
    \/ /\ e.seq \in 1 .. Len(wal) /\ e.seq \notin InFlight
       /\ wal[e.seq] = [key |-> k, value |-> e.value]

EntriesLogged ==
    /\ \A k \in Keys : Logged(k, table[k])
    /\ \A n \in 1 .. Len(level_zero), k \in Keys : Logged(k, level_zero[n].entries[k])

(* The memtable is newer than level zero, so that Worker::get may stop there. *)
TableNewest ==
    \A k \in Keys, n \in 1 .. Len(level_zero) :
        table[k].seq > 0 => level_zero[n].entries[k].seq <= table[k].seq

(* What is exposed is in the log, and nothing is unless the log is damaged.  *)
DamageMarked == exposed <= Len(wal) /\ (damage = 0 => exposed = 0)

(* For every logged record there is an entry of its key at least as new,     *)
(* unless the key is exposed.                                                *)
RecordsCovered ==
    phase # "down" =>
        \A i \in 1 .. Len(wal) : i \notin InFlight /\ wal[i].key \notin ExposedKeys =>
            \/ i <= table[wal[i].key].seq
            \/ \E n \in 1 .. Len(level_zero) : i <= level_zero[n].entries[wal[i].key].seq

(* The intermediate states of a write and of a flush.                        *)
WriterMidway ==
    /\ writer.pc = "insert" =>
          /\ Len(wal) > 0
          /\ wal[Len(wal)] = [key |-> WriteRequest.key, value |-> WriteRequest.value]
    /\ writer.pc = "clear" =>
          /\ Len(level_zero) > 0
          /\ level_zero[Len(level_zero)].entries = table

(* The accounts of the write worker.                                         *)
SizesCounted ==
    /\ current_size > 0 => ~IsEmpty(table)
    /\ wal_size > 0 => Len(wal) > 0
    /\ FlushHasEntries

(* The conjunction is preserved by every step.                               *)
Inductive ==
    /\ TypeOK /\ OneHolder /\ JobsMatch /\ ShutdownLast /\ DownIsEmpty
    /\ EntriesLogged /\ TableNewest /\ RecordsCovered /\ WriterMidway /\ SizesCounted
    /\ DamageMarked

(* In the first life of the process every flush writes a file of its own,    *)
(* and a write finds room in the memtable.                                   *)
FirstLife ==
    restarts = 0 =>
        /\ FlushedSegmentsReadable
        /\ writer.pc \in {"write", "add"} => Len(files) = FlushNumber
        /\ writer.pc = "write" => IsEmpty(files[FlushNumber])
        /\ writer.pc = "add" => ReadBack
        /\ writer.pc \notin {"write", "add", "dead"} => Len(files) = HighestSegmentNumber
        /\ writer.pc \in {"append", "insert"} => current_size < MaxSize
        /\ MemtableBounded

-----------------------------------------------------------------------------
(* Every call is answered, by a result or by an error.                       *)
EveryCallReturns == \A c \in Clients : call[c] # Idle ~> call[c] = Idle

(* StorageEngine::shutdown returns: workers, write worker and the last flush *)
(* all end.                                                                  *)
ShutdownReturns == phase = "stopping" ~> phase = "down"
=============================================================================
