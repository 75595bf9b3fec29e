------------------- MODULE StorageEngineRefinementProofs -------------------
(***************************************************************************)
(* The proof that the storage engine implements KVStore, for every number of *)
(* clients, workers, keys, calls and restarts, as long as the segments it    *)
(* runs on can be read back and it starts on no log that hides records.      *)
(***************************************************************************)
EXTENDS StorageEngineRefinement, StorageEngineProofs

-----------------------------------------------------------------------------
(* The map the callers see                                                  *)

(* The logged records of a key, without the one being written.               *)
Live(k) == {i \in 1 .. Len(wal) : wal[i].key = k} \ InFlight

(* Callers see the newest of them.                                           *)
NewestVisible ==
    /\ Visible \in [Keys -> Maybe]
    /\ \A k \in Keys :
          \/ Live(k) = {} /\ Visible[k] = NoValue
          \/ \E i \in Live(k) : (\A j \in Live(k) : j <= i) /\ Visible[k] = wal[i].value

(* OverlappingLevel::get picks the newest entry of the segments.             *)
NewestPicked ==
    \A k \in Keys :
        /\ LevelZeroGet(k) \in Entry
        /\ \A n \in 1 .. Len(level_zero) : level_zero[n].entries[k].seq <= LevelZeroGet(k).seq
        /\ \/ LevelZeroGet(k) = Absent
           \/ \E n \in 1 .. Len(level_zero) : LevelZeroGet(k) = level_zero[n].entries[k]

LEMMA DownNoFlight ==
    ASSUME Inductive, phase = "down"
    PROVE  InFlight = {}
BY DEF Inductive, DownIsEmpty, InFlight, WriterDead

LEMMA VisibleNewest == Inductive /\ NothingExposed => NewestVisible
<1> SUFFICES ASSUME Inductive, NothingExposed
             PROVE  NewestVisible
  OBVIOUS
<1>1. ASSUME NEW k \in Keys
      PROVE  /\ Visible[k] \in Maybe
             /\ \/ Live(k) = {} /\ Visible[k] = NoValue
                \/ \E i \in Live(k) : (\A j \in Live(k) : j <= i) /\ Visible[k] = wal[i].value
  <2>1. \A i \in Live(k) : wal[i].value \in Maybe
    <3>1. \A i \in 1 .. Len(wal) : wal[i] \in Record
      BY DEF Inductive, TypeOK
    <3> QED  BY <3>1 DEF Live, Record
  <2>2. CASE phase = "down"
    <3>1. Visible[k] = Replayed[k].value /\ InFlight = {}
      BY <2>2, DownNoFlight DEF Visible
    <3>2. CASE /\ \A i \in 1 .. Len(wal) : wal[i].key # k
               /\ Replayed[k] = Absent
      BY <3>1, <3>2 DEF Live, Absent, Maybe
    <3>3. CASE \E i \in 1 .. Len(wal) :
                 /\ wal[i].key = k
                 /\ \A j \in 1 .. Len(wal) : wal[j].key = k => j <= i
                 /\ Replayed[k] = [value |-> wal[i].value, seq |-> i]
      BY <2>1, <3>1, <3>3 DEF Live
    <3> QED  BY <3>2, <3>3, ReplayedLast DEF Inductive
  <2>3. CASE phase # "down"
    <3>1. Visible[k] = Lookup(k).value
      BY <2>3 DEF Visible
    <3>2. IF Live(k) = {} THEN Lookup(k) = Absent
          ELSE \E i \in Live(k) :
                  /\ \A j \in Live(k) : j <= i
                  /\ Lookup(k) = [value |-> wal[i].value, seq |-> i]
      <4>1. k \notin ExposedKeys
        BY DEF NothingExposed, ExposedKeys
      <4> QED  BY <2>3, <4>1, LookupNewest DEF Live
    <3> QED  BY <2>1, <3>1, <3>2 DEF Absent, Maybe
  <2> QED  BY <2>2, <2>3
<1>2. Visible \in [Keys -> Maybe]
  BY <1>1 DEF Visible
<1> QED  BY <1>1, <1>2 DEF NewestVisible

LEMMA PickedNewest == Inductive => NewestPicked
BY LevelZeroNewest DEF NewestPicked

LEMMA NewestNext == Inductive' /\ NothingExposed' => NewestVisible' /\ NewestPicked'
BY VisibleNewest, PickedNewest, PTL

(* The map depends on these records only.                                    *)
LEMMA VisibleSame ==
    ASSUME Inductive, Inductive', NothingExposed, NothingExposed',
           \A k \in Keys : Live(k)' = Live(k) /\ \A i \in Live(k) : wal'[i] = wal[i]
    PROVE  Visible' = Visible
<1>1. NewestVisible /\ NewestVisible'
  BY VisibleNewest, NewestNext
<1>2. ASSUME NEW k \in Keys PROVE Visible'[k] = Visible[k]
  <2>1. \A i \in Live(k) : i \in Nat
    BY DEF Live
  <2>2. CASE Live(k) = {}
    BY <1>1, <2>2 DEF NewestVisible
  <2>3. CASE Live(k) # {}
    <3>1. PICK i \in Live(k) : (\A j \in Live(k) : j <= i) /\ Visible[k] = wal[i].value
      BY <1>1, <2>3 DEF NewestVisible
    <3>2. PICK m \in Live(k) : (\A j \in Live(k) : j <= m) /\ Visible'[k] = wal'[m].value
      BY <1>1, <2>3 DEF NewestVisible
    <3>3. m = i
      BY <2>1, <3>1, <3>2
    <3> QED  BY <3>1, <3>2, <3>3
  <2> QED  BY <2>2, <2>3
<1> QED  BY <1>1, <1>2 DEF NewestVisible

(* A record that stops being the one being written becomes visible: it is    *)
(* the newest of its key.                                                    *)
LEMMA VisibleWritten ==
    ASSUME Inductive, Inductive', NothingExposed, NothingExposed',
           writer.pc = "insert", wal' = wal, InFlight' = {}
    PROVE  /\ WriteRequest.key \in Keys
           /\ Visible' = [Visible EXCEPT ![WriteRequest.key] = WriteRequest.value]
<1> DEFINE key == WriteRequest.key
           last == Len(wal)
<1>1. NewestVisible /\ NewestVisible'
  BY VisibleNewest, NewestNext
<1>2. key \in Keys /\ WriteRequest.value \in Maybe
  BY WriterRequest
<1>3. last \in 1 .. Len(wal) /\ wal[last].key = key /\ wal[last].value = WriteRequest.value
  <2>1. wal \in Seq(Record) /\ Len(wal) > 0 /\ wal[last] = [key |-> key, value |-> WriteRequest.value]
    BY DEF Inductive, TypeOK, WriterMidway
  <2> QED  BY <2>1
<1>4. \A k : Live(k)' = {i \in 1 .. Len(wal) : wal[i].key = k}
  BY DEF Live
<1>5. InFlight = {last}
  BY DEF InFlight
<1>6. ASSUME NEW k \in Keys, k = key
      PROVE  Visible'[k] = WriteRequest.value
  <2>1. last \in Live(k)'
    BY <1>3, <1>4, <1>6
  <2>2. PICK i \in Live(k)' : (\A j \in Live(k)' : j <= i) /\ Visible'[k] = wal[i].value
    BY <1>1, <2>1 DEF NewestVisible
  <2>3. i = last
    BY <1>3, <1>4, <2>1, <2>2
  <2> QED  BY <1>3, <2>2, <2>3
<1>7. ASSUME NEW k \in Keys, k # key
      PROVE  Visible'[k] = Visible[k]
  <2>1. Live(k)' = Live(k) /\ \A i \in Live(k) : i \in Nat
    BY <1>3, <1>4, <1>5, <1>7 DEF Live
  <2>2. CASE Live(k) = {}
    BY <1>1, <2>1, <2>2 DEF NewestVisible
  <2>3. CASE Live(k) # {}
    <3>1. PICK i \in Live(k) : (\A j \in Live(k) : j <= i) /\ Visible[k] = wal[i].value
      BY <1>1, <2>3 DEF NewestVisible
    <3>2. PICK m \in Live(k) : (\A j \in Live(k) : j <= m) /\ Visible'[k] = wal[m].value
      BY <1>1, <2>1, <2>3 DEF NewestVisible
    <3>3. m = i
      BY <2>1, <3>1, <3>2
    <3> QED  BY <3>1, <3>2, <3>3
  <2> QED  BY <2>2, <2>3
<1> HIDE DEF key
<1>8. Visible' = [Visible EXCEPT ![key] = WriteRequest.value]
  BY <1>1, <1>2, <1>6, <1>7 DEF NewestVisible
<1> QED  BY <1>2, <1>8 DEF key

-----------------------------------------------------------------------------
(* The windows                                                              *)

(* A step that leaves the calls and the map alone leaves the windows alone.  *)
LEMMA WindowQuiet ==
    ASSUME WindowOK, WindowNext, call' = call, Visible' = Visible, Inserted = {}
    PROVE  window' = window
<1>1. \A c \in Clients : window'[c] = window[c]
  BY DEF WindowOK, WindowNext
<1> QED  BY <1>1 DEF WindowOK, WindowNext

(* Calls that end have no window any more.                                   *)
LEMMA WindowEnds ==
    ASSUME WindowOK, WindowNext, Visible' = Visible, Inserted = {}, NEW C,
           call' = [c \in Clients |-> IF c \in C THEN Idle ELSE call[c]]
    PROVE  window' = [c \in Clients |-> IF c \in C THEN {} ELSE window[c]]
<1>1. \A c \in Clients : window'[c] = IF c \in C THEN {} ELSE window[c]
  BY DEF WindowOK, WindowNext
<1> QED  BY <1>1 DEF WindowNext

(* What a step has to do for the refinement.                                 *)
Simulated == WindowOK' /\ [Abstract!Next]_(Abstract!vars)

LEMMA Stutters ==
    ASSUME UNCHANGED <<call, ret, window>>, Visible' = Visible, WindowOK'
    PROVE  Simulated
BY DEF Simulated, Abstract!vars

-----------------------------------------------------------------------------
(* The steps that callers do not see                                        *)

LEMMA QuietStep ==
    ASSUME Inductive, Inductive', NothingExposed, NothingExposed',
           WindowOK, WindowNext, UNCHANGED <<call, wal>>,
           InFlight' = InFlight, Inserted = {}
    PROVE  Visible' = Visible /\ window' = window
<1>1. Visible' = Visible
  BY VisibleSame DEF Live
<1> QED  BY <1>1, WindowQuiet

(* A worker that a step leaves alone.                                        *)
LEMMA WorkerWindowSame ==
    ASSUME NEW w \in Workers, WorkerWindow(w), worker'[w] = worker[w],
           worker[w].pc = "sst" => level_zero' = level_zero,
           call'[worker[w].client] = call[worker[w].client],
           window'[worker[w].client] = window[worker[w].client]
    PROVE  WorkerWindow(w)'
BY DEF WorkerWindow, LevelZeroGet

LEMMA WindowKept ==
    ASSUME WindowOK, UNCHANGED <<call, window>>, Visible' = Visible,
           \A i \in 1 .. Len(jobs') : \E j \in 1 .. Len(jobs) : jobs'[i] = jobs[j],
           \A w \in Workers : WorkerWindow(w)'
    PROVE  WindowOK'
BY DEF WindowOK

(* One worker moves on with its job, or is given its answer.                 *)
LEMMA WorkerQuiet ==
    ASSUME Inductive, Inductive', NothingExposed, NothingExposed',
           WindowOK, WindowNext, NEW w \in Workers,
           UNCHANGED <<call, ret, jobs, wal, level_zero>>, InFlight' = InFlight, Inserted = {},
           \A v \in Workers \ {w} : worker'[v] = worker[v],
           Visible' = Visible /\ window' = window => WorkerWindow(w)'
    PROVE  Simulated
<1>1. Visible' = Visible /\ window' = window
  BY QuietStep
<1>2. \A v \in Workers : WorkerWindow(v)'
  BY <1>1, WorkerWindowSame DEF WindowOK
<1>3. WindowOK'
  BY <1>1, <1>2, WindowKept
<1> QED  BY <1>1, <1>3, Stutters

(* The fields of a worker after an assignment.                               *)
LEMMA WorkerFields ==
    ASSUME TypeOK, NEW w \in Workers, NEW p, NEW r
    PROVE  /\ LET u == [worker EXCEPT ![w].pc = p] IN
              /\ u[w].pc = p /\ u[w].client = worker[w].client /\ u[w].result = worker[w].result
              /\ \A v \in Workers \ {w} : u[v] = worker[v]
           /\ LET u == [worker EXCEPT ![w].pc = p, ![w].result = r] IN
              /\ u[w].pc = p /\ u[w].client = worker[w].client /\ u[w].result = r
              /\ \A v \in Workers \ {w} : u[v] = worker[v]
BY DEF TypeOK, WorkerState

(* A process that is up: some worker has a job.                              *)
LEMMA BusyIsUp ==
    ASSUME Inductive, NEW w \in Workers, Busy(w)
    PROVE  phase # "down"
BY DEF Inductive, DownIsEmpty, Busy

LEMMA ReadTableSimulated ==
    ASSUME Inductive, Inductive', NothingExposed, NothingExposed',
           WindowOK, WindowNext, NEW w \in Workers, ReadTable(w)
    PROVE  Simulated
<1> DEFINE c == worker[w].client
           k == call[c].key
<1>1. TypeOK /\ worker[w].pc = "table" /\ Busy(w)
  BY DEF Inductive, ReadTable, Busy
<1>2. phase # "down" /\ c \in Clients /\ call[c] \in Requests /\ k \in Keys
  BY <1>1, BusyIsUp, BusyRequest
<1>3. call[c].op = "get"
  <2>1. ~IsWrite(call[c])
    BY <1>1 DEF Inductive, JobsMatch
  <2> QED  BY <1>2, <2>1, RequestType DEF IsWrite
<1>4. Visible[k] \in window[c] /\ Visible[k] = Lookup(k).value
  BY <1>2, <1>3 DEF WindowOK, Visible
<1>5. /\ UNCHANGED <<call, ret, jobs, wal, level_zero>> /\ UNCHANGED writer
      /\ InFlight' = InFlight /\ Inserted = {}
  BY DEF ReadTable, disk, log, InFlight, Inserted
<1>6. \/ /\ table[k].seq > 0 /\ worker' = [worker EXCEPT ![w].pc = "reply", ![w].result = Ok(table[k].value)]
      \/ /\ ~(table[k].seq > 0) /\ worker' = [worker EXCEPT ![w].pc = "sst"]
  BY DEF ReadTable
<1>7. \A v \in Workers \ {w} : worker'[v] = worker[v]
  BY <1>1, <1>6 DEF TypeOK
<1>8. ASSUME window' = window PROVE WorkerWindow(w)'
  <2>1. CASE table[k].seq > 0 /\ worker' = [worker EXCEPT ![w].pc = "reply", ![w].result = Ok(table[k].value)]
    <3>1. worker'[w].pc = "reply" /\ worker'[w].client = c /\ worker'[w].result = Ok(table[k].value)
      BY <1>1, <2>1, WorkerFields
    <3>2. table[k].value \in window[c]
      BY <1>4, <2>1 DEF Lookup
    <3> QED  BY <1>5, <1>8, <3>1, <3>2 DEF WorkerWindow
  <2>2. CASE ~(table[k].seq > 0) /\ worker' = [worker EXCEPT ![w].pc = "sst"]
    <3>1. worker'[w].pc = "sst" /\ worker'[w].client = c
      BY <1>1, <2>2, WorkerFields
    <3>2. LevelZeroGet(k).value \in window[c]
      BY <1>4, <2>2 DEF Lookup
    <3> QED  BY <1>5, <1>8, <3>1, <3>2 DEF WorkerWindow, LevelZeroGet
  <2> QED  BY <1>6, <2>1, <2>2
<1> QED  BY <1>5, <1>7, <1>8, WorkerQuiet

LEMMA ReadSstSimulated ==
    ASSUME Inductive, Inductive', NothingExposed, NothingExposed',
           WindowOK, WindowNext, AllIntact, NEW w \in Workers, ReadSst(w)
    PROVE  Simulated
<1> DEFINE c == worker[w].client
           k == call[c].key
<1>1. TypeOK /\ worker[w].pc = "sst" /\ Busy(w)
  BY DEF Inductive, ReadSst, Busy
<1>2. ~IsWrite(call[c])
  BY <1>1 DEF Inductive, JobsMatch
<1>3. LevelZeroGet(k).value \in window[c]
  BY <1>1 DEF WindowOK, WorkerWindow
<1>4. /\ UNCHANGED <<call, ret, jobs, wal, level_zero>> /\ UNCHANGED writer
      /\ InFlight' = InFlight /\ Inserted = {}
  BY DEF ReadSst, disk, log, InFlight, Inserted
<1>9. k \notin ExposedKeys
  BY DEF NothingExposed, ExposedKeys
<1>5. PICK r : /\ r = Ok(LevelZeroGet(k).value) \/ r = Failure("IoError")
               /\ worker' = [worker EXCEPT ![w].pc = "reply", ![w].result = r]
  BY <1>9 DEF ReadSst
<1>6. worker'[w].pc = "reply" /\ worker'[w].client = c /\ worker'[w].result = r
  BY <1>1, <1>5, WorkerFields
<1>7. \A v \in Workers \ {w} : worker'[v] = worker[v]
  BY <1>1, <1>5 DEF TypeOK
<1>8. ASSUME window' = window PROVE WorkerWindow(w)'
  BY <1>2, <1>3, <1>4, <1>5, <1>6, <1>8 DEF WorkerWindow
<1> QED  BY <1>4, <1>7, <1>8, WorkerQuiet

(* A write that is not in the log yet is given up or moves on.               *)
LEMMA WriteMoves ==
    ASSUME Inductive, Inductive', NothingExposed, NothingExposed',
           WindowOK, WindowNext, NEW w \in Workers,
           worker[w].pc \in {"submit", "await"},
           UNCHANGED <<call, ret, jobs, wal, level_zero>>, InFlight' = InFlight, Inserted = {},
           \/ worker' = [worker EXCEPT ![w].pc = "await"]
           \/ worker' = [worker EXCEPT ![w].pc = "reply", ![w].result = Failure("IoError")]
    PROVE  Simulated
<1> DEFINE c == worker[w].client
<1>1. TypeOK /\ window[c] = {}
  BY DEF Inductive, WindowOK, WorkerWindow
<1>2. \A v \in Workers \ {w} : worker'[v] = worker[v]
  BY <1>1 DEF TypeOK
<1>3. /\ worker'[w].client = c
      /\ \/ worker'[w].pc = "await"
         \/ worker'[w].pc = "reply" /\ worker'[w].result = Failure("IoError")
  <2>1. CASE worker' = [worker EXCEPT ![w].pc = "await"]
    BY <1>1, <2>1, WorkerFields
  <2>2. CASE worker' = [worker EXCEPT ![w].pc = "reply", ![w].result = Failure("IoError")]
    BY <1>1, <2>2, WorkerFields
  <2> QED  BY <2>1, <2>2
<1>4. ASSUME window' = window PROVE WorkerWindow(w)'
  BY <1>1, <1>3, <1>4 DEF WorkerWindow
<1> QED  BY <1>2, <1>4, WorkerQuiet

LEMMA WriteMovesSimulated ==
    ASSUME Inductive, Inductive', NothingExposed, NothingExposed',
           WindowOK, WindowNext,
           \/ \E w \in Workers : Submit(w) \/ AwaitDropped(w)
           \/ WalAppendError
    PROVE  Simulated
<1>1. ASSUME NEW w \in Workers, Submit(w) PROVE Simulated
  <2>1. UNCHANGED <<call, ret, jobs, wal, level_zero>> /\ InFlight' = InFlight /\ Inserted = {}
    BY <1>1 DEF Submit, disk, log, InFlight, Inserted
  <2> QED  BY <1>1, <2>1, WriteMoves DEF Submit
<1>2. ASSUME NEW w \in Workers, AwaitDropped(w) PROVE Simulated
  <2>1. UNCHANGED <<call, ret, jobs, wal, level_zero>> /\ InFlight' = InFlight /\ Inserted = {}
    BY <1>2 DEF AwaitDropped, disk, log, InFlight, Inserted
  <2> QED  BY <1>2, <2>1, WriteMoves DEF AwaitDropped
<1>3. CASE WalAppendError
  <2>1. UNCHANGED <<call, ret, jobs, wal, level_zero>>
    BY <1>3 DEF WalAppendError, disk, log
  <2>2. InFlight' = InFlight /\ Inserted = {}
    BY <1>3 DEF WalAppendError, InFlight, Inserted, WriterRest
  <2>3. writer.job \in Workers /\ worker[writer.job].pc = "await"
    BY <1>3 DEF WalAppendError, Inductive, JobsMatch
  <2> QED  BY <1>3, <2>1, <2>2, <2>3, WriteMoves DEF WalAppendError
<1> QED  BY <1>1, <1>2, <1>3

LEMMA WorkerRecvSimulated ==
    ASSUME Inductive, Inductive', NothingExposed, NothingExposed',
           WindowOK, WindowNext, NEW w \in Workers, WorkerRecv(w)
    PROVE  Simulated
<1> DEFINE c == Head(jobs)
<1>1. jobs \in Seq(Clients) /\ jobs # <<>> /\ TypeOK
  BY DEF Inductive, TypeOK, WorkerRecv
<1>2. /\ UNCHANGED <<call, ret, wal, level_zero>> /\ UNCHANGED writer
      /\ InFlight' = InFlight /\ Inserted = {} /\ jobs' = Tail(jobs)
  BY DEF WorkerRecv, disk, log, InFlight, Inserted
<1>3. Visible' = Visible /\ window' = window
  BY <1>2, QuietStep
<1>4. \A i \in 1 .. Len(jobs') : \E j \in 1 .. Len(jobs) : jobs'[i] = jobs[j]
  <2>1. \A i \in 1 .. Len(jobs') : i + 1 \in 1 .. Len(jobs) /\ jobs'[i] = jobs[i + 1]
    BY <1>1, <1>2
  <2> QED  BY <2>1
<1>5. IsWrite(call[c]) => window[c] = {}
  BY <1>1 DEF WindowOK
<1>6. /\ worker'[w].pc = IF IsWrite(call[c]) THEN "submit" ELSE "table"
      /\ worker'[w].client = c
      /\ \A v \in Workers \ {w} : worker'[v] = worker[v]
  BY <1>1 DEF WorkerRecv, TypeOK
<1>7. WorkerWindow(w)'
  BY <1>2, <1>3, <1>5, <1>6 DEF WorkerWindow
<1>8. \A v \in Workers : WorkerWindow(v)'
  BY <1>2, <1>3, <1>6, <1>7, WorkerWindowSame DEF WindowOK
<1>9. WindowOK'
  BY <1>2, <1>3, <1>4, <1>8, WindowKept
<1> QED  BY <1>2, <1>3, <1>9, Stutters

(* The write worker's own steps: what it takes from its queue, and a flush   *)
(* up to the moment level zero takes the segment in.                         *)
LEMMA WriterQuiet ==
    ASSUME Inductive, Inductive', NothingExposed, NothingExposed',
           WindowOK, WindowNext,
           UNCHANGED <<call, ret, jobs, worker, wal, level_zero>>, InFlight' = InFlight, Inserted = {}
    PROVE  Simulated
<1>1. Visible' = Visible /\ window' = window
  BY QuietStep
<1>2. \A v \in Workers : WorkerWindow(v)'
  BY <1>1, WorkerWindowSame DEF WindowOK
<1>3. WindowOK'
  BY <1>1, <1>2, WindowKept
<1> QED  BY <1>1, <1>3, Stutters

LEMMA WriterQuietSimulated ==
    ASSUME Inductive, Inductive', NothingExposed, NothingExposed',
           WindowOK, WindowNext,
           \/ WriterRecv \/ FlushOpen \/ FlushWrite \/ FlushError \/ FlushClear \/ WalAppendPanic
           \/ FinalFlush \/ Shutdown \/ UNCHANGED vars
    PROVE  Simulated
<1>1. TypeOK
  BY DEF Inductive
<1>2. CASE WriterRecv
  <2>1. writer.pc = "recv" /\ writer'.pc # "insert"
    BY <1>2 DEF WriterRecv, JobPc
  <2>2. UNCHANGED <<call, ret, jobs, worker, wal, level_zero>>
    BY <1>2 DEF WriterRecv, disk, log
  <2> QED  BY <2>1, <2>2, WriterQuiet DEF InFlight, Inserted
<1>3. CASE FlushOpen \/ FlushWrite
  <2>1. writer.pc # "insert" /\ writer'.pc # "insert"
    BY <1>1, <1>3 DEF FlushOpen, FlushWrite, TypeOK, WriterState
  <2>2. UNCHANGED <<call, ret, jobs, worker, wal, level_zero>>
    BY <1>3 DEF FlushOpen, FlushWrite, log
  <2> QED  BY <2>1, <2>2, WriterQuiet DEF InFlight, Inserted
<1>4. CASE FlushError \/ WalAppendPanic
  <2>1. writer.pc # "insert" /\ writer'.pc # "insert"
    BY <1>4 DEF FlushError, WalAppendPanic, WriterDead
  <2>2. UNCHANGED <<call, ret, jobs, worker, wal, level_zero>>
    BY <1>4 DEF FlushError, WalAppendPanic, disk, log
  <2> QED  BY <2>1, <2>2, WriterQuiet DEF InFlight, Inserted
<1>5. CASE FlushClear
  <2>1. writer.pc # "insert" /\ writer'.pc # "insert"
    BY <1>1, <1>5 DEF FlushClear, TypeOK, WriterState, JobPc
  <2>2. UNCHANGED <<call, ret, jobs, worker, wal, level_zero>>
    BY <1>5 DEF FlushClear, disk, log
  <2> QED  BY <2>1, <2>2, WriterQuiet DEF InFlight, Inserted
<1>6. CASE FinalFlush
  <2>1. writer.pc # "insert" /\ writer'.pc # "insert"
    BY <1>6 DEF FinalFlush, WriterDead
  <2>2. UNCHANGED <<call, ret, jobs, worker, wal, level_zero>>
    BY <1>6 DEF FinalFlush, disk, log
  <2> QED  BY <2>1, <2>2, WriterQuiet DEF InFlight, Inserted
<1>7. CASE Shutdown \/ UNCHANGED vars
  <2>1. UNCHANGED <<call, ret, jobs, worker, wal, level_zero>> /\ UNCHANGED writer
    BY <1>7 DEF Shutdown, vars, memory, disk, log
  <2> QED  BY <2>1, WriterQuiet DEF InFlight, Inserted
<1> QED  BY <1>2, <1>3, <1>4, <1>5, <1>6, <1>7

(* A record that is being written is not visible yet.                        *)
LEMMA WalAppendSimulated ==
    ASSUME Inductive, Inductive', NothingExposed, NothingExposed',
           WindowOK, WindowNext, WalAppend
    PROVE  Simulated
<1>1. TypeOK /\ writer.pc = "append" /\ UNCHANGED <<call, ret, jobs, worker, level_zero>>
  BY DEF Inductive, WalAppend
<1>2. writer'.pc = "insert" /\ Inserted = {}
  BY <1>1 DEF WalAppend, TypeOK, WriterState, Inserted
<1>3. /\ wal \in Seq(Record) /\ Len(wal') = Len(wal) + 1
      /\ \A i \in 1 .. Len(wal) : wal'[i] = wal[i]
  BY <1>1 DEF WalAppend, TypeOK
<1>4. InFlight = {} /\ InFlight' = {Len(wal) + 1}
  BY <1>1, <1>2, <1>3 DEF InFlight
<1>5. ASSUME NEW k \in Keys PROVE Live(k)' = Live(k) /\ \A i \in Live(k) : wal'[i] = wal[i]
  BY <1>3, <1>4 DEF Live
<1>6. Visible' = Visible
  BY <1>5, VisibleSame
<1>7. window' = window
  BY <1>1, <1>2, <1>6, WindowQuiet
<1>8. \A v \in Workers : WorkerWindow(v)'
  BY <1>1, <1>7, WorkerWindowSame DEF WindowOK
<1>9. WindowOK'
  BY <1>1, <1>6, <1>7, <1>8, WindowKept
<1> QED  BY <1>1, <1>6, <1>7, <1>9, Stutters

(* Level zero with the flushed table answers what was visible anyway.        *)
LEMMA AddedAnswers ==
    ASSUME Inductive, Inductive', NothingExposed, NothingExposed',
           Visible' = Visible, NEW k \in Keys,
           phase # "down", UNCHANGED <<phase, table, wal>>, InFlight = {}, NEW ok,
           level_zero' = Append(level_zero, [entries |-> table, intact |-> ok])
    PROVE  LevelZeroGet(k)'.value = Visible[k]
<1> DEFINE e == LevelZeroGet(k)'
           n == Len(level_zero)
<1>1. Visible[k] = IF table[k].seq > 0 THEN table[k].value ELSE LevelZeroGet(k)'.value
  <2>1. Visible'[k] = Lookup(k)'.value
    BY DEF Visible
  <2> QED  BY <2>1 DEF Lookup
<1>2. CASE ~(table[k].seq > 0)
  BY <1>1, <1>2
<1>3. CASE table[k].seq > 0
  <2>1. /\ n \in Nat /\ Len(level_zero') = n + 1 /\ level_zero'[n + 1].entries = table
        /\ \A m \in 1 .. n : level_zero'[m] = level_zero[m]
    BY DEF Inductive, TypeOK
  <2>2. table[k].seq \in Nat /\ \A m \in 1 .. n : level_zero[m].entries[k].seq \in Nat
    BY SegmentType DEF Inductive, TypeOK, Table, Entry
  <2>3. /\ table[k].seq <= e.seq
        /\ e = Absent \/ e = table[k] \/ \E m \in 1 .. n : e = level_zero[m].entries[k]
    <3>1. /\ \A m \in 1 .. Len(level_zero') : level_zero'[m].entries[k].seq <= e.seq
          /\ e = Absent \/ \E m \in 1 .. Len(level_zero') : e = level_zero'[m].entries[k]
      BY NewestNext DEF NewestPicked
    <3>2. n + 1 \in 1 .. Len(level_zero')
      BY <2>1
    <3>3. \A m \in 1 .. Len(level_zero') : m = n + 1 \/ m \in 1 .. n
      BY <2>1
    <3> QED  BY <2>1, <3>1, <3>2, <3>3
  <2>4. CASE e = Absent
    BY <1>3, <2>2, <2>3, <2>4 DEF Absent
  <2>5. CASE e = table[k]
    BY <1>1, <1>3, <2>5
  <2>6. ASSUME NEW m \in 1 .. n, e = level_zero[m].entries[k]
        PROVE  e.value = table[k].value
    <3>1. level_zero[m].entries[k].seq = table[k].seq
      BY <1>3, <2>2, <2>3, <2>6 DEF Inductive, TableNewest
    <3>2. Logged(k, level_zero[m].entries[k]) /\ Logged(k, table[k])
      BY DEF Inductive, EntriesLogged
    <3>3. /\ wal[table[k].seq] = [key |-> k, value |-> table[k].value]
          /\ wal[table[k].seq] = [key |-> k, value |-> level_zero[m].entries[k].value]
      BY <1>3, <2>2, <3>1, <3>2 DEF Logged, Absent
    <3> QED  BY <2>6, <3>3
  <2> QED  BY <1>1, <1>3, <2>3, <2>4, <2>5, <2>6
<1> QED  BY <1>2, <1>3

LEMMA FlushAddSimulated ==
    ASSUME Inductive, Inductive', NothingExposed, NothingExposed',
           WindowOK, WindowNext, FlushAdd
    PROVE  Simulated
<1>1. /\ TypeOK /\ writer.pc = "add" /\ phase # "down"
      /\ UNCHANGED <<phase, call, ret, jobs, worker, wal, table>>
  BY DEF Inductive, FlushAdd, disk, log, DownIsEmpty, WriterDead
<1>2. writer'.pc # "insert"
  BY <1>1 DEF FlushAdd, FlushDone, WriterDead, TypeOK, WriterState
<1>3. InFlight = {} /\ InFlight' = {} /\ Inserted = {}
  BY <1>1, <1>2 DEF InFlight, Inserted
<1>4. CASE level_zero' = level_zero
  BY <1>1, <1>3, <1>4, WriterQuiet
<1>5. ASSUME NEW ok, level_zero' = Append(level_zero, [entries |-> table, intact |-> ok])
      PROVE  Simulated
  <2>1. Visible' = Visible /\ window' = window
    BY <1>1, <1>3, QuietStep
  <2>2. \A k \in Keys : LevelZeroGet(k)'.value = Visible[k]
    BY <1>1, <1>3, <1>5, <2>1, AddedAnswers
  <2>3. ASSUME NEW w \in Workers PROVE WorkerWindow(w)'
    <3>1. CASE worker[w].pc # "sst"
      BY <1>1, <2>1, <3>1, WorkerWindowSame DEF WindowOK
    <3>2. CASE worker[w].pc = "sst"
      <4> DEFINE c == worker[w].client
      <4>1. Busy(w) /\ ~IsWrite(call[c])
        BY <3>2 DEF Inductive, JobsMatch, Busy
      <4>2. c \in Clients /\ call[c] \in Requests /\ call[c].key \in Keys
        BY <4>1, BusyRequest
      <4>3. call[c].op = "get"
        BY <4>1, <4>2, RequestType DEF IsWrite
      <4>4. PICK k \in Keys : k = call[c].key
        BY <4>2
      <4>5. Visible[k] \in window[c]
        BY <4>2, <4>3, <4>4 DEF WindowOK
      <4>6. LevelZeroGet(k)'.value \in window[c]
        BY <2>2, <4>5
      <4>7. LevelZeroGet(call[c].key)'.value = LevelZeroGet(k)'.value
        BY <1>1, <4>4
      <4> QED  BY <1>1, <2>1, <3>2, <4>6, <4>7 DEF WorkerWindow
    <3> QED  BY <3>1, <3>2
  <2>4. WindowOK'
    BY <1>1, <2>1, <2>3, WindowKept
  <2> QED  BY <1>1, <2>1, <2>4, Stutters
<1> QED  BY <1>4, <1>5 DEF FlushAdd

(* A restart finds no call in progress, and replays what was logged.         *)
LEMMA RestartSimulated ==
    ASSUME Inductive, Inductive', NothingExposed, NothingExposed',
           WindowOK, WindowNext, Restart
    PROVE  Simulated
<1>1. UNCHANGED <<call, ret, jobs, wal>> /\ worker' = [w \in Workers |-> WorkerRest]
  BY DEF Restart, disk, log
<1>2. InFlight = {} /\ InFlight' = {} /\ Inserted = {}
  BY DownNoFlight DEF Restart, InFlight, Inserted, WriterRest, Inductive, DownIsEmpty, WriterDead
<1>3. Visible' = Visible /\ window' = window
  BY <1>1, <1>2, QuietStep
<1>4. \A w \in Workers : WorkerWindow(w)'
  BY <1>1 DEF WorkerWindow, WorkerRest
<1>5. WindowOK'
  BY <1>1, <1>3, <1>4, WindowKept
<1> QED  BY <1>1, <1>3, <1>5, Stutters

-----------------------------------------------------------------------------
(* The steps that callers see                                               *)

LEMMA WindowSameCall ==
    ASSUME WindowOK, WindowNext, Visible' = Visible, Inserted = {}, NEW c \in Clients,
           call'[c] = call[c]
    PROVE  window'[c] = window[c]
BY DEF WindowOK, WindowNext

LEMMA WorkerWindowFree ==
    ASSUME NEW w \in Workers, worker'[w].pc \in {"recv", "gone"}
    PROVE  WorkerWindow(w)'
BY DEF WorkerWindow

(* The windows keep their types and their relation to the map by             *)
(* construction; what remains is the places the calls are in.                *)
LEMMA WindowFacts ==
    ASSUME Inductive, Inductive', NothingExposed, NothingExposed',
           WindowOK, WindowNext
    PROVE  /\ window' \in [Clients -> SUBSET Maybe]
           /\ \A c \in Clients :
                 /\ call'[c] = Idle => window'[c] = {}
                 /\ call'[c].op = "get" => Visible'[call'[c].key] \in window'[c]
<1>1. NewestVisible /\ NewestVisible'
  BY VisibleNewest, NewestNext
<1>2. call \in [Clients -> Requests \cup {Idle}] /\ call' \in [Clients -> Requests \cup {Idle}]
  BY DEF Inductive, TypeOK
<1>3. \A r \in Requests \cup {Idle} : r # Idle => r.key \in Keys
  BY RequestType
<1>4. ASSUME NEW c \in Clients PROVE window'[c] \in SUBSET Maybe
  <2>1. CASE c \in Inserted /\ call'[c] # Idle /\ call'[c].op # "get"
    <3>1. call[c].key \in Keys
      <4>1. writer.pc = "insert" /\ c = worker[writer.job].client
        BY <2>1 DEF Inserted
      <4>2. writer.job \in Workers /\ Busy(writer.job)
        BY <4>1, WriterRequest
      <4> QED  BY <4>1, <4>2, BusyRequest
    <3>2. window'[c] = {NoValue, Visible[call[c].key]}
      BY <2>1 DEF WindowNext
    <3> QED  BY <1>1, <3>1, <3>2, OutcomeType DEF NewestVisible
  <2>2. CASE call'[c] = Idle
    BY <2>2 DEF WindowNext
  <2>3. CASE call'[c] # Idle /\ call'[c].op = "get"
    <3>1. Visible'[call'[c].key] \in Maybe
      BY <1>1, <1>2, <1>3, <2>3 DEF NewestVisible
    <3>2. window'[c] = window[c] \cup {Visible'[call'[c].key]} /\ window[c] \in SUBSET Maybe
      BY <2>3 DEF WindowNext, WindowOK
    <3> QED  BY <3>1, <3>2
  <2>4. CASE c \notin Inserted /\ call'[c] # Idle /\ call'[c].op # "get"
    BY <2>4 DEF WindowNext, WindowOK
  <2> QED  BY <2>1, <2>2, <2>3, <2>4
<1>5. ASSUME NEW c \in Clients
      PROVE  /\ call'[c] = Idle => window'[c] = {}
             /\ call'[c].op = "get" => Visible'[call'[c].key] \in window'[c]
  <2>1. call'[c] = Idle => call'[c].op # "get"
    BY DEF Idle
  <2> QED  BY <2>1 DEF WindowNext
<1> QED  BY <1>4, <1>5 DEF WindowNext

LEMMA InvokeSimulated ==
    ASSUME Inductive, Inductive', NothingExposed, NothingExposed',
           WindowOK, WindowNext, NEW c \in Clients, Invoke(c)
    PROVE  Simulated
<1>1. /\ TypeOK /\ call[c] = Idle /\ window[c] = {}
      /\ UNCHANGED <<worker, writer, wal, level_zero>>
  BY DEF Inductive, Invoke, disk, log, WindowOK
<1>2. Visible' = Visible /\ Inserted = {}
  <2>1. InFlight' = InFlight /\ Inserted = {}
    BY <1>1 DEF InFlight, Inserted
  <2> QED  BY <1>1, <2>1, VisibleSame DEF Live
<1>3. CASE UNCHANGED <<call, jobs>> /\ ret' = [ret EXCEPT ![c] = Failure("Shutdown")]
  <2>1. window' = window
    BY <1>2, <1>3, WindowQuiet
  <2>2. \A w \in Workers : WorkerWindow(w)'
    BY <1>1, <1>3, <2>1, WorkerWindowSame DEF WindowOK
  <2>3. WindowOK'
    BY <1>2, <1>3, <2>1, <2>2, WindowKept
  <2>4. Abstract!Reject(c)
    BY <1>1, <1>2, <1>3, <2>1 DEF Abstract!Reject, Abstract!Idle, Idle, Abstract!Failure, Failure
  <2> QED  BY <2>3, <2>4 DEF Simulated, Abstract!Next
<1>4. ASSUME NEW r \in Requests, call' = [call EXCEPT ![c] = r], UNCHANGED ret,
             jobs' = Append(jobs, c)
      PROVE  Simulated
  <2>1. /\ call'[c] = r /\ r # Idle
        /\ \A d \in Clients \ {c} : call'[d] = call[d]
    BY <1>1, <1>4, IdleNoRequest DEF TypeOK
  <2>2. \A d \in Clients \ {c} : window'[d] = window[d]
    BY <1>2, <2>1, WindowSameCall
  <2>3. window'[c] = IF IsWrite(r) THEN {} ELSE {Visible[r.key]}
    <3>1. r.op = "get" <=> ~IsWrite(r)
      BY RequestType DEF IsWrite
    <3> QED  BY <1>1, <1>2, <2>1, <3>1 DEF WindowNext
  <2>4. window' = [window EXCEPT ![c] = IF IsWrite(r) THEN {} ELSE {Visible[r.key]}]
    BY <2>2, <2>3 DEF WindowOK, WindowNext
  <2>5. Abstract!Invoke(c, r)
    BY <1>1, <1>2, <1>4, <2>4 DEF Abstract!Invoke, Abstract!Idle, Idle, Abstract!IsWrite, IsWrite
  <2>6. \A i \in 1 .. Len(jobs') : IsWrite(call'[jobs'[i]]) => window'[jobs'[i]] = {}
    <3>1. \A i \in 1 .. Len(jobs) : jobs[i] \in Clients \ {c}
      <4>1. \A i \in 1 .. Len(jobs) : call[jobs[i]] # Idle
        BY DEF Inductive, OneHolder
      <4> QED  BY <1>1, <4>1 DEF TypeOK
    <3>2. ASSUME NEW i \in 1 .. Len(jobs')
          PROVE  jobs'[i] = c \/ (i \in 1 .. Len(jobs) /\ jobs'[i] = jobs[i])
      BY <1>1, <1>4 DEF TypeOK
    <3>3. ASSUME NEW i \in 1 .. Len(jobs), jobs'[i] = jobs[i], IsWrite(call'[jobs'[i]])
          PROVE  window'[jobs'[i]] = {}
      BY <2>1, <2>2, <3>1, <3>3 DEF WindowOK
    <3> QED  BY <2>1, <2>3, <3>2, <3>3
  <2>7. ASSUME NEW w \in Workers PROVE WorkerWindow(w)'
    <3>1. CASE Busy(w)
      <4>1. worker[w].client \in Clients \ {c}
        BY <1>1, <3>1 DEF Inductive, OneHolder
      <4> QED  BY <1>1, <2>1, <2>2, <4>1, WorkerWindowSame DEF WindowOK
    <3>2. CASE ~Busy(w)
      <4>1. worker[w].pc \in WorkerPcs
        BY <1>1 DEF TypeOK, WorkerState
      <4> QED  BY <1>1, <3>2, <4>1, WorkerWindowFree DEF Busy, WorkerPcs
    <3> QED  BY <3>1, <3>2
  <2>8. WindowOK'
    BY <2>6, <2>7, WindowFacts DEF WindowOK
  <2>9. r \in Abstract!Requests
    BY DEF Requests, Abstract!Requests, Maybe, Abstract!Maybe
  <2> QED  BY <2>5, <2>8, <2>9 DEF Simulated, Abstract!Next
<1> QED  BY <1>3, <1>4 DEF Invoke

(* Calls end; whoever still holds a call holds one that did not.             *)
LEMMA CallsEnd ==
    ASSUME Inductive, Inductive', NothingExposed, NothingExposed',
           WindowOK, WindowNext, Visible' = Visible, Inserted = {},
           NEW C \in SUBSET Clients,
           call' = [c \in Clients |-> IF c \in C THEN Idle ELSE call[c]],
           level_zero' = level_zero, jobs' = jobs \/ jobs' = <<>>,
           \A w \in Workers : worker'[w] = worker[w] \/ worker'[w].pc \in {"recv", "gone"}
    PROVE  /\ window' = [c \in Clients |-> IF c \in C THEN {} ELSE window[c]]
           /\ WindowOK'
<1>1. window' = [c \in Clients |-> IF c \in C THEN {} ELSE window[c]]
  BY WindowEnds
<1>2. \A c \in Clients : call'[c] # Idle => call'[c] = call[c] /\ window'[c] = window[c]
  BY <1>1
<1>3. ASSUME NEW i \in 1 .. Len(jobs'), IsWrite(call'[jobs'[i]]) PROVE window'[jobs'[i]] = {}
  <2>1. jobs' = jobs
    <3>1. ASSUME jobs' = <<>> PROVE FALSE
      <4>1. 1 .. Len(jobs') = {}
        BY <3>1
      <4> QED  BY <1>3, <4>1, Zenon
    <3> QED  BY <3>1, Zenon
  <2>2. jobs[i] \in Clients /\ call'[jobs[i]] # Idle
    <3>1. TypeOK /\ OneHolder'
      BY DEF Inductive
    <3>2. jobs[i] \in Clients
      BY <2>1, <3>1 DEF TypeOK
    <3>3. call'[jobs'[i]] # Idle
      BY <3>1 DEF OneHolder
    <3> QED  BY <2>1, <3>2, <3>3
  <2> QED  BY <1>2, <1>3, <2>1, <2>2 DEF WindowOK
<1>4. ASSUME NEW w \in Workers PROVE WorkerWindow(w)'
  <2>1. CASE Busy(w)'
    <3>1. worker'[w] = worker[w]
      BY <2>1 DEF Busy
    <3>2. worker[w].client \in Clients /\ call'[worker[w].client] # Idle
      BY <2>1, <3>1 DEF Inductive, OneHolder
    <3>3. /\ call'[worker[w].client] = call[worker[w].client]
          /\ window'[worker[w].client] = window[worker[w].client]
      BY <1>2, <3>2
    <3> QED  BY <3>1, <3>3, WorkerWindowSame DEF WindowOK
  <2>2. CASE ~Busy(w)'
    <3>1. worker'[w].pc \in WorkerPcs
      BY DEF Inductive, TypeOK, WorkerState
    <3> QED  BY <2>2, <3>1, WorkerWindowFree DEF Busy, WorkerPcs
  <2> QED  BY <2>1, <2>2
<1>5. WindowOK'
  BY <1>3, <1>4, WindowFacts DEF WindowOK
<1> QED  BY <1>1, <1>5

LEMMA ReplySimulated ==
    ASSUME Inductive, Inductive', NothingExposed, NothingExposed',
           WindowOK, WindowNext, NEW w \in Workers, Reply(w)
    PROVE  Simulated
<1> DEFINE c == worker[w].client
<1>1. /\ TypeOK /\ worker[w].pc = "reply" /\ Busy(w)
      /\ UNCHANGED <<jobs, writer, wal, level_zero>>
  BY DEF Inductive, Reply, disk, log, Busy
<1>2. c \in Clients /\ call[c] \in Requests /\ call[c] # Idle
  BY <1>1, BusyRequest, IdleNoRequest
<1>3. Visible' = Visible /\ Inserted = {}
  <2>1. InFlight' = InFlight /\ Inserted = {}
    BY <1>1 DEF InFlight, Inserted
  <2> QED  BY <1>1, <2>1, VisibleSame DEF Live
<1>4. /\ call' = [call EXCEPT ![c] = Idle] /\ ret' = [ret EXCEPT ![c] = worker[w].result]
      /\ call' = [d \in Clients |-> IF d \in {c} THEN Idle ELSE call[d]]
  BY <1>1, <1>2 DEF Reply, TypeOK
<1>5. \A v \in Workers : worker'[v] = worker[v] \/ worker'[v].pc \in {"recv", "gone"}
  <2>1. worker' = [worker EXCEPT ![w] = WorkerRest] /\ WorkerRest.pc = "recv"
    BY DEF Reply, WorkerRest
  <2> QED  BY <1>1, <2>1 DEF TypeOK
<1>6. window' = [d \in Clients |-> IF d \in {c} THEN {} ELSE window[d]] /\ WindowOK'
  BY <1>1, <1>2, <1>3, <1>4, <1>5, CallsEnd
<1>7. CASE \E v \in window[c] : worker[w].result = Ok(v)
  <2>1. window' = [window EXCEPT ![c] = {}]
    BY <1>2, <1>6 DEF WindowOK
  <2>2. Abstract!Return(c)
    BY <1>3, <1>4, <1>7, <2>1 DEF Abstract!Return, Abstract!Idle, Idle, Abstract!Ok, Ok
  <2> QED  BY <1>2, <1>6, <2>2 DEF Simulated, Abstract!Next
<1>8. CASE worker[w].result = Failure("IoError") /\ (IsWrite(call[c]) => window[c] = {})
  <2>1. ret' = [d \in Clients |-> IF d \in {c} THEN Failure("IoError") ELSE ret[d]]
    BY <1>1, <1>2, <1>4, <1>8 DEF TypeOK
  <2>2. Abstract!Fail({c}, "IoError")
    BY <1>2, <1>3, <1>4, <1>6, <1>8, <2>1 DEF Abstract!Fail, Abstract!Idle, Idle,
           Abstract!Failure, Failure, Abstract!IsWrite, IsWrite
  <2> QED  BY <1>2, <1>6, <2>2 DEF Simulated, Abstract!Next
<1> QED  BY <1>1, <1>7, <1>8 DEF WindowOK, WorkerWindow

(* The calls a worker takes with it have not been applied: a panicking       *)
(* worker holds a get, the queue nothing that was begun.                     *)
LEMMA WorkerGoneSimulated ==
    ASSUME Inductive, Inductive', NothingExposed, NothingExposed',
           WindowOK, WindowNext, NEW w \in Workers,
           WorkerPanic(w) \/ WorkerExit(w)
    PROVE  Simulated
<1>1. PICK failed \in SUBSET Clients :
        /\ \A c \in failed : call[c] # Idle /\ ~IsWrite(call[c])
        /\ WorkerGone(w, failed)
  <2>1. CASE WorkerPanic(w)
    <3>1. worker[w].pc \in {"table", "sst"} /\ WorkerGone(w, {worker[w].client})
      BY <2>1 DEF WorkerPanic
    <3>2. Busy(w) /\ ~IsWrite(call[worker[w].client])
      BY <3>1 DEF Inductive, JobsMatch, Busy
    <3>3. worker[w].client \in Clients /\ call[worker[w].client] # Idle
      BY <3>2, BusyRequest, IdleNoRequest
    <3> QED  BY <3>1, <3>2, <3>3
  <2>2. CASE WorkerExit(w)
    BY <2>2 DEF WorkerExit
  <2> QED  BY <2>1, <2>2
<1> DEFINE C == failed \cup (IF Alive = {w} THEN {jobs[i] : i \in 1 .. Len(jobs)} ELSE {})
<1>2. /\ TypeOK /\ UNCHANGED <<writer, wal, level_zero>> /\ (jobs' = jobs \/ jobs' = <<>>)
      /\ worker' = [worker EXCEPT ![w] = [WorkerRest EXCEPT !.pc = "gone"]]
  BY <1>1 DEF Inductive, WorkerGone, disk, log
<1>3. /\ call' = [c \in Clients |-> IF c \in C THEN Idle ELSE call[c]]
      /\ ret' = [c \in Clients |-> IF c \in C THEN Failure("Shutdown") ELSE ret[c]]
  BY <1>1 DEF WorkerGone
<1>4. /\ C \in SUBSET Clients
      /\ \A c \in C : call[c] # Idle /\ (IsWrite(call[c]) => window[c] = {})
  <2>1. \A i \in 1 .. Len(jobs) : jobs[i] \in Clients /\ call[jobs[i]] # Idle
    <3>1. \A i \in 1 .. Len(jobs) : jobs[i] \in Clients
      BY <1>2 DEF TypeOK
    <3> QED  BY <3>1 DEF Inductive, OneHolder
  <2>2. \A c \in C : c \in failed \/ \E i \in 1 .. Len(jobs) : c = jobs[i]
    OBVIOUS
  <2>3. \A i \in 1 .. Len(jobs) : IsWrite(call[jobs[i]]) => window[jobs[i]] = {}
    BY DEF WindowOK
  <2> HIDE DEF C
  <2>4. \A c \in C : c \in Clients /\ call[c] # Idle /\ (IsWrite(call[c]) => window[c] = {})
    BY <1>1, <2>1, <2>2, <2>3
  <2> QED  BY <2>4
<1> HIDE DEF C
<1>5. Visible' = Visible /\ Inserted = {}
  <2>1. InFlight' = InFlight /\ Inserted = {}
    BY <1>2 DEF InFlight, Inserted
  <2> QED  BY <1>2, <2>1, VisibleSame DEF Live
<1>6. \A v \in Workers : worker'[v] = worker[v] \/ worker'[v].pc \in {"recv", "gone"}
  <2>1. [WorkerRest EXCEPT !.pc = "gone"].pc = "gone"
    BY DEF WorkerRest
  <2> QED  BY <1>2, <2>1 DEF TypeOK
<1>7. window' = [c \in Clients |-> IF c \in C THEN {} ELSE window[c]] /\ WindowOK'
  BY <1>2, <1>3, <1>4, <1>5, <1>6, CallsEnd
<1>8. Abstract!Fail(C, "Shutdown")
  BY <1>3, <1>4, <1>5, <1>7 DEF Abstract!Fail, Abstract!Idle, Idle,
         Abstract!Failure, Failure, Abstract!IsWrite, IsWrite
<1> QED  BY <1>4, <1>7, <1>8 DEF Simulated, Abstract!Next

(* The write worker's insert is the moment a write takes effect.             *)
LEMMA InsertSimulated ==
    ASSUME Inductive, Inductive', NothingExposed, NothingExposed',
           WindowOK, WindowNext, Insert
    PROVE  Simulated
<1> DEFINE w == writer.job
           c == worker[w].client
           r == call[c]
<1>1. /\ TypeOK /\ writer.pc = "insert" /\ writer'.pc = "recv"
      /\ UNCHANGED <<call, ret, jobs, wal, level_zero>>
      /\ worker' = [worker EXCEPT ![w].pc = "reply", ![w].result = Ok(table[r.key].value)]
  BY DEF Inductive, Insert, WriterRest, WriteRequest, disk, log
<1>2. /\ w \in Workers /\ Busy(w) /\ worker[w].pc = "await"
      /\ c \in Clients /\ r \in Requests /\ r # Idle /\ IsWrite(r)
  <2>1. w \in Workers /\ Busy(w)
    BY <1>1, WriterRequest
  <2>2. worker[w].pc = "await" /\ IsWrite(r)
    BY <2>1 DEF Inductive, JobsMatch
  <2> QED  BY <2>1, <2>2, BusyRequest, IdleNoRequest
<1>3. window[c] = {} /\ r.op # "get" /\ Inserted = {c}
  BY <1>1, <1>2 DEF WindowOK, WorkerWindow, Inserted, IsWrite
<1>4. r.key \in Keys /\ Visible' = [Visible EXCEPT ![r.key] = r.value]
  <2>1. InFlight' = {}
    BY <1>1 DEF InFlight
  <2> QED  BY <1>1, <2>1, VisibleWritten DEF WriteRequest
<1>5. NewestVisible /\ NewestVisible'
  BY VisibleNewest, NewestNext
<1>6. window'[c] = {NoValue, Visible[r.key]}
  BY <1>1, <1>2, <1>3 DEF WindowNext
<1>7. ASSUME NEW d \in Clients, d # c
      PROVE  /\ window'[d] = IF call[d] # Idle /\ call[d].op = "get" /\ call[d].key = r.key
                             THEN window[d] \cup {r.value} ELSE window[d]
             /\ window[d] \subseteq window'[d]
             /\ call[d].op # "get" => window'[d] = window[d]
  <2>1. call[d] = Idle => call[d].op # "get"
    BY DEF Idle
  <2>2. CASE call[d] = Idle
    BY <1>1, <2>1, <2>2 DEF WindowNext, WindowOK
  <2>3. CASE call[d] # Idle /\ call[d].op # "get"
    BY <1>1, <1>3, <1>7, <2>3 DEF WindowNext
  <2>4. CASE call[d] # Idle /\ call[d].op = "get"
    <3>1. call[d].key \in Keys /\ Visible[call[d].key] \in window[d]
      BY <1>1, <2>4, RequestType DEF TypeOK, WindowOK
    <3>2. window'[d] = window[d] \cup {Visible'[call[d].key]}
      BY <1>1, <2>4 DEF WindowNext
    <3>3. Visible'[call[d].key] = IF call[d].key = r.key THEN r.value ELSE Visible[call[d].key]
      BY <1>4, <1>5, <3>1 DEF NewestVisible
    <3> QED  BY <2>4, <3>1, <3>2, <3>3
  <2> QED  BY <2>2, <2>3, <2>4
<1>8. window' = [d \in Clients |->
           IF d = c THEN {NoValue, Visible[r.key]}
           ELSE IF call[d] # Idle /\ call[d].op = "get" /\ call[d].key = r.key
                THEN window[d] \cup {r.value} ELSE window[d]]
  BY <1>6, <1>7 DEF WindowNext
<1>9. Abstract!Apply(c)
  BY <1>1, <1>2, <1>3, <1>4, <1>8 DEF Abstract!Apply, Abstract!Idle, Idle, Abstract!IsWrite, IsWrite
<1>10. ASSUME NEW i \in 1 .. Len(jobs), IsWrite(call[jobs[i]]) PROVE window'[jobs[i]] = {}
  <2>1. jobs[i] \in Clients
    BY <1>1 DEF TypeOK
  <2>2. jobs[i] # c
    BY <1>2 DEF Inductive, OneHolder
  <2> QED  BY <1>7, <1>10, <2>1, <2>2 DEF WindowOK, IsWrite
<1>11. ASSUME NEW v \in Workers PROVE WorkerWindow(v)'
  <2>1. CASE v = w
    <3>1. worker'[v].pc = "reply" /\ worker'[v].client = c
      BY <1>1, <1>2, <2>1, WorkerFields
    <3>2. worker'[v].result = Ok(table[r.key].value)
      <4> DEFINE result == Ok(table[r.key].value)
      <4>1. worker' = [worker EXCEPT ![w].pc = "reply", ![w].result = result]
        BY <1>1
      <4>2. TypeOK /\ w \in Workers
        BY <1>1, <1>2
      <4> HIDE DEF result, w, c, r
      <4>3. worker'[w].result = result
        BY <4>1, <4>2, WorkerFields
      <4> QED  BY <2>1, <4>3 DEF result
    <3>3. table[r.key].value \in window'[c]
      <4>1. CASE table[r.key].seq > 0
        <5>1. phase # "down"
          BY <1>2, BusyIsUp
        <5>2. Visible[r.key] = Lookup(r.key).value
          BY <1>4, <5>1 DEF Visible
        <5> QED  BY <1>6, <4>1, <5>2 DEF Lookup
      <4>2. CASE ~(table[r.key].seq > 0)
        <5>1. table[r.key] \in Entry
          BY <1>1, <1>4 DEF TypeOK, Table
        <5>2. Logged(r.key, table[r.key])
          BY <1>4 DEF Inductive, EntriesLogged
        <5>3. table[r.key] = Absent
          <6> DEFINE e == table[r.key]
          <6> HIDE DEF e, w, c, r
          <6>1. e.seq \notin 1 .. Len(wal)
            BY <4>2, <5>1 DEF Entry, e
          <6> QED  BY <5>2, <6>1 DEF Logged, e
        <5> QED  BY <1>6, <5>3 DEF Absent
      <4> QED  BY <4>1, <4>2
    <3> QED  BY <3>1, <3>2, <3>3 DEF WorkerWindow
  <2>2. CASE v # w /\ Busy(v)
    <3> DEFINE d == worker[v].client
    <3>1. worker'[v] = worker[v]
      BY <1>1, <1>2, <2>2 DEF TypeOK
    <3>2. d \in Clients /\ call[d] \in Requests
      BY <2>2, BusyRequest
    <3>3. d # c
      BY <1>2, <2>2 DEF Inductive, OneHolder
    <3>4. window[d] \subseteq window'[d] /\ (call[d].op # "get" => window'[d] = window[d])
      BY <1>7, <3>2, <3>3
    <3>5. IsWrite(call[d]) => window'[d] = window[d]
      BY <3>4 DEF IsWrite
    <3>6. worker[v].pc \in {"submit", "await"} => IsWrite(call[d])
      BY DEF Inductive, JobsMatch
    <3>7. WorkerWindow(v)
      BY DEF WindowOK
    <3> HIDE DEF w, c, r
    <3> QED  BY <1>1, <3>1, <3>4, <3>5, <3>6, <3>7, ZenonT(40) DEF WorkerWindow, LevelZeroGet
  <2>3. CASE ~Busy(v)
    <3>1. worker[v].pc \in WorkerPcs /\ worker'[v] = worker[v]
      BY <1>1, <1>2, <2>3 DEF TypeOK, WorkerState
    <3> QED  BY <2>3, <3>1, WorkerWindowFree DEF Busy, WorkerPcs
  <2> QED  BY <2>1, <2>2, <2>3
<1>12. WindowOK'
  BY <1>1, <1>10, <1>11, WindowFacts DEF WindowOK
<1> QED  BY <1>2, <1>9, <1>12 DEF Simulated, Abstract!Next

(* A process that ends leaves its log.  What it had written there and not    *)
(* yet inserted is the one call it may have applied.                         *)
LEMMA LoseMemorySimulated ==
    ASSUME Inductive, Inductive', NothingExposed, NothingExposed',
           WindowOK, WindowNext, LoseMemory
    PROVE  Simulated
<1>1. /\ TypeOK /\ UNCHANGED <<ret, wal>> /\ call' = [c \in Clients |-> Idle] /\ jobs' = <<>>
      /\ writer' = WriterDead /\ worker' = [w \in Workers |-> [WorkerRest EXCEPT !.pc = "gone"]]
  BY DEF Inductive, LoseMemory, disk, log
<1>2. InFlight' = {}
  BY <1>1 DEF InFlight, WriterDead
<1>3. window' = [c \in Clients |-> {}]
  BY <1>1 DEF WindowNext
<1>4. \A w \in Workers : WorkerWindow(w)'
  <2>1. [WorkerRest EXCEPT !.pc = "gone"].pc = "gone"
    BY DEF WorkerRest
  <2> QED  BY <1>1, <2>1, WorkerWindowFree
<1>5. WindowOK'
  BY <1>1, <1>4, WindowFacts DEF WindowOK
<1>6. CASE writer.pc # "insert"
  <2>1. Visible' = Visible
    BY <1>1, <1>2, <1>6, VisibleSame DEF Live, InFlight
  <2>2. Abstract!Crash
    BY <1>1, <1>3, <2>1 DEF Abstract!Crash, Abstract!Idle, Idle
  <2> QED  BY <1>5, <2>2 DEF Simulated, Abstract!Next
<1>7. CASE writer.pc = "insert"
  <2> DEFINE c == worker[writer.job].client
  <2>1. /\ writer.job \in Workers /\ Busy(writer.job) /\ worker[writer.job].pc = "await"
    BY <1>7, WriterRequest DEF Inductive, JobsMatch
  <2>2. c \in Clients /\ call[c] # Idle /\ IsWrite(call[c])
    BY <2>1, BusyRequest, IdleNoRequest DEF Inductive, JobsMatch
  <2>3. window[c] = {}
    BY <2>1 DEF WindowOK, WorkerWindow
  <2>4. Visible' = [Visible EXCEPT ![call[c].key] = call[c].value]
    BY <1>1, <1>2, <1>7, VisibleWritten DEF WriteRequest
  <2>5. Abstract!Crash
    BY <1>1, <1>3, <2>2, <2>3, <2>4 DEF Abstract!Crash, Abstract!Idle, Idle,
           Abstract!IsWrite, IsWrite
  <2> QED  BY <1>5, <2>5 DEF Simulated, Abstract!Next
<1> QED  BY <1>6, <1>7

-----------------------------------------------------------------------------
(* The refinement                                                           *)

LEMMA StepSimulated ==
    ASSUME Inductive, Inductive', NothingExposed, NothingExposed',
           WindowOK, AllIntact, [Next /\ WindowNext]_<<vars, window>>
    PROVE  Simulated
<1>1. CASE UNCHANGED <<vars, window>>
  <2>1. /\ UNCHANGED <<call, ret, jobs, worker, wal, level_zero, window>> /\ UNCHANGED writer
    BY <1>1 DEF vars, memory, disk, log
  <2>2. Visible' = Visible
    BY <2>1, VisibleSame DEF Live, InFlight
  <2>3. \A w \in Workers : WorkerWindow(w)'
    BY <2>1, WorkerWindowSame DEF WindowOK
  <2>4. WindowOK'
    BY <2>1, <2>2, <2>3, WindowKept
  <2> QED  BY <2>1, <2>2, <2>4, Stutters
<1>2. CASE Next /\ WindowNext
  <2>1. ASSUME NEW c \in Clients, Invoke(c) PROVE Simulated
    BY <1>2, <2>1, InvokeSimulated
  <2>2. ASSUME NEW w \in Workers, WorkerStep(w) PROVE Simulated
    BY <1>2, <2>2, WorkerRecvSimulated, WorkerGoneSimulated, ReadTableSimulated, ReadSstSimulated,
       WriteMovesSimulated, ReplySimulated DEF WorkerStep
  <2>3. CASE WriterStep
    BY <1>2, <2>3, WriterQuietSimulated, FlushAddSimulated, WalAppendSimulated,
       WriteMovesSimulated, InsertSimulated DEF WriterStep
  <2>4. CASE Shutdown \/ Restart
    BY <1>2, <2>4, WriterQuietSimulated, RestartSimulated
  <2>5. CASE Stopped \/ Crash
    <3>1. LoseMemory
      BY <2>5 DEF Stopped, Crash
    <3> QED  BY <1>2, <3>1, LoseMemorySimulated
  <2> QED  BY <1>2, <2>1, <2>2, <2>3, <2>4, <2>5 DEF Next
<1> QED  BY <1>1, <1>2

LEMMA InitSimulated ==
    ASSUME Init, WindowInit
    PROVE  WindowOK /\ Abstract!Init
<1>1. Inductive /\ NothingExposed
  BY InitInductive DEF Init, NothingExposed, Exposed
<1>2. Visible = [k \in Keys |-> NoValue]
  <2>1. NewestVisible
    BY <1>1, VisibleNewest
  <2>2. \A k \in Keys : Live(k) = {}
    BY DEF Live, Init
  <2> QED  BY <2>1, <2>2 DEF NewestVisible
<1>3. \A w \in Workers : WorkerWindow(w)
  BY DEF Init, WorkerRest, WorkerWindow
<1>4. WindowOK
  BY <1>3 DEF WindowOK, WindowInit, Init, Idle
<1>5. Abstract!Init
  BY <1>2 DEF Abstract!Init, Init, WindowInit, Abstract!Idle, Idle, Abstract!Ok, Ok
<1> QED  BY <1>4, <1>5

(* Every behaviour in which the segments of level zero can be read back, and *)
(* no start reads a log with records behind the remains of a failed or torn  *)
(* Wal::append, is one of the abstract store: the two reads of Worker::get,  *)
(* the log-then-table order of WriteWorker::put, appends that fail, flushes, *)
(* crashes at any point and the replay of the log together look like one map *)
(* with atomic calls.                                                        *)
THEOREM EngineLinearizable ==
    HSpec /\ []AllIntact /\ []NothingExposed => Linearizable
<1>1. HSpec => Spec
  <2>1. [Next /\ WindowNext]_<<vars, window>> => [Next]_vars
    OBVIOUS
  <2> QED  BY <2>1, PTL DEF HSpec, Spec
<1>2. HSpec => []Inductive
  BY <1>1, InductiveInvariant, PTL
<1>3. Init /\ WindowInit => WindowOK /\ Abstract!Init
  BY InitSimulated
<1>4. /\ Inductive /\ Inductive' /\ NothingExposed /\ NothingExposed' /\ WindowOK /\ AllIntact
      /\ [Next /\ WindowNext]_<<vars, window>>
      => WindowOK' /\ [Abstract!Next]_(Abstract!vars)
  BY StepSimulated DEF Simulated
<1> QED  BY <1>2, <1>3, <1>4, PTL DEF HSpec, Linearizable, Abstract!Spec

(* A process that has not been restarted has not read its log.               *)
LEMMA FirstLifeUnread == Spec => [](restarts = 0 => NothingExposed)
<1> DEFINE Unread == restarts = 0 => exposed = 0
<1>1. Init => Unread
  BY DEF Init
<1>2. ASSUME Inductive, Unread, [Next]_vars PROVE Unread'
  <2>1. CASE Restart
    <3>1. restarts' # 0
      BY <1>2, <2>1 DEF Restart, Inductive, TypeOK
    <3> QED  BY <3>1
  <2>2. CASE Stopped \/ Crash
    BY <1>2, <2>2 DEF Stopped, Crash, LoseMemory
  <2>3. CASE WriterStep
    BY <1>2, <2>3 DEF WriterStep, WriterRecv, FlushOpen, FlushWrite, FlushAdd, FlushError,
       FlushClear, WalAppend, WalAppendError, WalAppendPanic, Insert, FinalFlush, disk, log
  <2>4. CASE \/ (\E c \in Clients : Invoke(c)) \/ (\E w \in Workers : WorkerStep(w))
             \/ Shutdown \/ UNCHANGED vars
    BY <1>2, <2>4 DEF Invoke, WorkerStep, WorkerRecv, WorkerPanic, WorkerGone, ReadTable, ReadSst,
       Submit, AwaitDropped, Reply, WorkerExit, Shutdown, disk, log, vars
  <2> QED  BY <1>2, <2>1, <2>2, <2>3, <2>4 DEF Next
<1>3. Unread => (restarts = 0 => NothingExposed)
  BY DEF NothingExposed, Exposed
<1> HIDE DEF Unread
<1> QED  BY <1>1, <1>2, <1>3, InductiveInvariant, PTL DEF Spec

(* In particular every behaviour of a process that has not been restarted:   *)
(* there every flush writes a file of its own and no log is read, so that    *)
(* neither assumption is left.                                               *)
THEOREM FirstLifeLinearizable == HSpec /\ [](restarts = 0) => Linearizable
<1>1. HSpec => Spec
  <2>1. [Next /\ WindowNext]_<<vars, window>> => [Next]_vars
    OBVIOUS
  <2> QED  BY <2>1, PTL DEF HSpec, Spec
<1>2. FlushedSegmentsReadable => AllIntact
  BY DEF FlushedSegmentsReadable
<1>3. HSpec /\ [](restarts = 0) => []AllIntact
  BY <1>1, <1>2, FirstLifeReadable, PTL
<1>4. HSpec /\ [](restarts = 0) => []NothingExposed
  BY <1>1, FirstLifeUnread, PTL
<1> QED  BY <1>3, <1>4, EngineLinearizable, PTL
=============================================================================
