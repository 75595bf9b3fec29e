-------------------------- MODULE MCStorageEngine --------------------------
EXTENDS StorageEngine, TLC

Symmetry == Permutations(Clients) \cup Permutations(Workers) \cup Permutations(Keys)

(* The state without the outcomes of calls: no guard reads them, and no      *)
(* property but TypeOK.                                                     *)
WithoutOutcomes ==
    <<phase, call, jobs, [w \in Workers |-> <<worker[w].pc, worker[w].client>>],
      write_jobs, writer, table, current_size, poisoned, level_zero, disk, calls, restarts>>

(* The bound on damaged logs: once an append has left something behind, no   *)
(* flush fails while a lock is held, and of the third record on the log is   *)
(* not followed further.                                                    *)
DamageBound == damage = 0 \/ (Len(wal) <= 2 /\ poisoned = {})
=============================================================================
