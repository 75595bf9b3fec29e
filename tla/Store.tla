------------------------------- MODULE Store -------------------------------
(***************************************************************************)
(* The vocabulary of the trait Store (storage_engine.rs): requests, and the *)
(* outcomes a caller sees.  Shared by the abstract specification KVStore    *)
(* and by StorageEngine.                                                    *)
(***************************************************************************)

CONSTANTS
    Clients,    \* concurrent callers of the engine
    Keys,
    Values,
    NoValue     \* Option::None: a key never written, or a tombstone

ASSUME NoValueAssumption == NoValue \notin Values

Maybe == Values \cup {NoValue}

(* A client with no call in progress.                                       *)
Idle == [op |-> "none"]

(* enum Command: Get and Delete carry a key, Put a key and a value.         *)
Requests ==
    {r \in [op : {"get", "put", "delete"}, key : Keys, value : Maybe] :
        r.op = "put" <=> r.value # NoValue}

IsWrite(r) == r.op \in {"put", "delete"}

Ok(v) == [status |-> "Ok", value |-> v]

(* StorageEngineError: the caller cannot tell one I/O error from another.   *)
Failure(e) == [status |-> e, value |-> NoValue]

Outcomes == [status : {"Ok", "IoError", "Shutdown"}, value : Maybe]
=============================================================================
