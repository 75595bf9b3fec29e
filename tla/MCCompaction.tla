---------------------------- MODULE MCCompaction ----------------------------
EXTENDS Compaction

(* Memtables to flush: small ones of which level zero holds several, and     *)
(* ones that exceed the target size of level zero, and of level one.         *)
MCFlushes == {1 :> 1, 1 :> 3, 1 :> 1 @@ 2 :> 4}
=============================================================================
