---------------------- MODULE StorageEngineRefinement ----------------------
(***************************************************************************)
(* The storage engine implements KVStore: to its callers it is one map on    *)
(* which every call takes effect atomically.                                *)
(*                                                                         *)
(* The map is what a lookup finds while the engine runs and what a replay of *)
(* the log would yield while it does not.  A history variable records the    *)
(* results each pending call may return: for a get the values its key has    *)
(* had since the call began, for a write the old value or none once the      *)
(* write is in the table.                                                   *)
(***************************************************************************)
EXTENDS StorageEngine

VARIABLE window

Visible ==
    [k \in Keys |-> IF phase = "down" THEN Replayed[k].value ELSE Lookup(k).value]

(* The client whose write this step puts into the table.                    *)
Inserted ==
    IF writer.pc = "insert" /\ writer'.pc = "recv" THEN {worker[writer.job].client} ELSE {}

WindowInit == window = [c \in Clients |-> {}]

WindowNext ==
    window' = [c \in Clients |->
        IF call'[c] = Idle THEN {}
        ELSE IF call'[c].op = "get" THEN window[c] \cup {Visible'[call'[c].key]}
        ELSE IF c \in Inserted THEN {NoValue, Visible[call[c].key]}
        ELSE window[c]]

HSpec == Init /\ WindowInit /\ [][Next /\ WindowNext]_<<vars, window>>

Abstract == INSTANCE KVStore WITH store <- Visible

(* Every behaviour of the engine is one of the abstract store: gets return   *)
(* values that were current during the call although Worker::get looks in    *)
(* two places without a lock in between; a write that failed never shows;    *)
(* what was visible before a crash is visible after the restart.  This holds *)
(* of behaviours with AllIntact and NothingExposed throughout.               *)
Linearizable == Abstract!Spec

(* No start of the engine has read a log with records behind what a failed   *)
(* or torn append has left.                                                  *)
NothingExposed == Exposed = {}

(* The process does not end and leave such a log.                            *)
LogReadable == phase = "down" => damage = 0 \/ damage > Len(wal)

-----------------------------------------------------------------------------
(* The invariant behind the refinement: what the place a call is in says of  *)
(* its window.  A get that looks in level zero now finds nothing that was    *)
(* not visible since it began; a write has a window only once it is applied. *)
WorkerWindow(w) ==
    LET c == worker[w].client
    IN
    /\ worker[w].pc \in {"submit", "await"} => window[c] = {}
    /\ worker[w].pc = "sst" => LevelZeroGet(call[c].key).value \in window[c]
    /\ worker[w].pc = "reply" =>
          \/ \E v \in window[c] : worker[w].result = Ok(v)
          \/ worker[w].result = Failure("IoError") /\ (IsWrite(call[c]) => window[c] = {})

WindowOK ==
    /\ window \in [Clients -> SUBSET Maybe]
    /\ \A c \in Clients :
          /\ call[c] = Idle => window[c] = {}
          /\ call[c].op = "get" => Visible[call[c].key] \in window[c]
    /\ \A i \in 1 .. Len(jobs) : IsWrite(call[jobs[i]]) => window[jobs[i]] = {}
    /\ \A w \in Workers : WorkerWindow(w)
=============================================================================
