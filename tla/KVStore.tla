------------------------------ MODULE KVStore ------------------------------
(***************************************************************************)
(* What a caller of the storage engine (trait Store, storage_engine.rs) is  *)
(* promised.  One atomic map from keys to values; a call takes effect at    *)
(* most once, between its invocation and its return.                        *)
(*                                                                         *)
(*  - A get returns a value its key held at some moment of the call.        *)
(*  - A put or a delete that returns Ok has been applied.  It returns the   *)
(*    value it replaced, or no value: the engine reports the old value only *)
(*    when it is still in the memtable.                                     *)
(*  - A call that fails (an I/O error, an engine that has shut down) has     *)
(*    not been applied and never will be.                                    *)
(*  - When the process goes down its calls get no answer.  At most the one  *)
(*    write the engine was busy with has been applied; everything that was  *)
(*    applied before stays applied.                                          *)
(***************************************************************************)

EXTENDS Store

VARIABLES
    store,      \* the value of every key
    call,       \* the request every client waits for, or Idle
    ret,        \* the outcome of every client's last completed call
    window      \* the results a pending call may return now; {} for a write
                \* that has not been applied

vars == <<store, call, ret, window>>

Init ==
    /\ store = [k \in Keys |-> NoValue]
    /\ call = [c \in Clients |-> Idle]
    /\ ret = [c \in Clients |-> Ok(NoValue)]
    /\ window = [c \in Clients |-> {}]

Invoke(c, r) ==
    /\ call[c] = Idle
    /\ call' = [call EXCEPT ![c] = r]
    /\ window' = [window EXCEPT ![c] = IF IsWrite(r) THEN {} ELSE {store[r.key]}]
    /\ UNCHANGED <<store, ret>>

(* A caller of an engine whose threads are gone learns so at once.          *)
Reject(c) ==
    /\ call[c] = Idle
    /\ ret' = [ret EXCEPT ![c] = Failure("Shutdown")]
    /\ UNCHANGED <<store, call, window>>

Apply(c) ==
    /\ call[c] # Idle /\ IsWrite(call[c]) /\ window[c] = {}
    /\ LET r == call[c] IN
       /\ store' = [store EXCEPT ![r.key] = r.value]
       /\ window' = [d \in Clients |->
             IF d = c THEN {NoValue, store[r.key]}
             ELSE IF call[d] # Idle /\ call[d].op = "get" /\ call[d].key = r.key
                  THEN window[d] \cup {r.value}
                  ELSE window[d]]
    /\ UNCHANGED <<call, ret>>

Return(c) ==
    /\ \E v \in window[c] : ret' = [ret EXCEPT ![c] = Ok(v)]
    /\ call' = [call EXCEPT ![c] = Idle]
    /\ window' = [window EXCEPT ![c] = {}]
    /\ UNCHANGED store

(* A set of calls, none of them an applied write, fails for one reason.     *)
Fail(C, e) ==
    /\ \A c \in C : call[c] # Idle /\ (IsWrite(call[c]) => window[c] = {})
    /\ ret' = [c \in Clients |-> IF c \in C THEN Failure(e) ELSE ret[c]]
    /\ call' = [c \in Clients |-> IF c \in C THEN Idle ELSE call[c]]
    /\ window' = [c \in Clients |-> IF c \in C THEN {} ELSE window[c]]
    /\ UNCHANGED store

Crash ==
    /\ \/ UNCHANGED store
       \/ \E c \in Clients :
             /\ call[c] # Idle /\ IsWrite(call[c]) /\ window[c] = {}
             /\ store' = [store EXCEPT ![call[c].key] = call[c].value]
    /\ call' = [c \in Clients |-> Idle]
    /\ window' = [c \in Clients |-> {}]
    /\ UNCHANGED ret

Next ==
    \/ \E c \in Clients :
          \/ \E r \in Requests : Invoke(c, r)
          \/ Reject(c) \/ Apply(c) \/ Return(c)
    \/ \E C \in SUBSET Clients, e \in {"IoError", "Shutdown"} : Fail(C, e)
    \/ Crash

Spec == Init /\ [][Next]_vars
=============================================================================
