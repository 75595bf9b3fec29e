------------------------------ MODULE Protocol ------------------------------
(***************************************************************************)
(* The request format and its parser: tcp/protocol.rs.                       *)
(*                                                                         *)
(* A request is two blocks, headers and payload, each sent after its length. *)
(* A block has its length and what the parser looks at: the headers [len,    *)
(* magic, version, type], the payload [len, klen, key_utf8, vlen,            *)
(* value_utf8], where klen and vlen are the lengths written in it.  An index *)
(* beyond the end of a block panics.                                         *)
(***************************************************************************)
EXTENDS Integers, Sequences

PROTOCOL_VERSION == 0
MagicLen == 4                  \* MAGIC_BYTES, and any u32
MAGIC_NUMBER == 1919645299     \* MAGIC_BYTES, 0x726B7673, read as a u32
RequestTypes == {"Delete", "Get", "Put"}
TypeBytes == RequestTypes \cup {"Unknown"}     \* the byte of the type, "Unknown" for any other

(* TcpHeaders::to_bytes, with the magic bytes TcpRequest::to_bytes puts      *)
(* before it: magic, correlation id, version, type and flags.                *)
HeaderBytes(type) ==
    [len |-> MagicLen + 16 + 1 + 1 + 2, magic |-> TRUE, version |-> PROTOCOL_VERSION, type |-> type]

(* Payload::to_bytes.  Only a put has a value.                               *)
PayloadBytes(type, klen, vlen) ==
    [len |-> klen + (IF type = "Put" THEN 8 + vlen ELSE 4),
     klen |-> klen, key_utf8 |-> TRUE, vlen |-> vlen, value_utf8 |-> TRUE]

(* What may be sent as a request; a delete or a get has no value, and no key *)
(* is as long as the magic bytes read as a number, so that a payload the     *)
(* connection takes for headers does not pass for them.                      *)
HeaderBlocks == [len : Nat, magic : BOOLEAN, version : Nat, type : TypeBytes]

PayloadBlocks == [len : Nat, klen : Nat, key_utf8 : BOOLEAN, vlen : Nat, value_utf8 : BOOLEAN]

TcpRequests ==
    {r \in [head : HeaderBlocks, payload : PayloadBlocks] :
        /\ r.head.type \in {"Delete", "Get"} => r.payload.vlen = 0 /\ r.payload.value_utf8
        /\ r.payload.klen # MAGIC_NUMBER}

(* TcpRequest::to_bytes                                                     *)
to_bytes(type, klen, vlen) ==
    [head |-> HeaderBytes(type), payload |-> PayloadBytes(type, klen, vlen)]

(* parse_headers: the fields in their order, each read when its turn comes.  *)
parse_headers(head) ==
    CASE head.len < MagicLen -> "panic"
      [] head.len >= MagicLen /\ ~head.magic -> "WrongMagicBytes"
      [] head.len >= MagicLen /\ head.magic ->
            IF head.len < 21 THEN "panic"
            ELSE IF head.version > PROTOCOL_VERSION THEN "UnsupportedVersion"
            ELSE IF head.len < 22 THEN "panic"
            ELSE IF head.type \notin RequestTypes THEN "InvalidRequestType"
            ELSE IF head.len < 24 THEN "panic"
            ELSE "ok"

(* The value of a put: whatever follows it is not looked at.                 *)
ParsedValue(payload) ==
    IF payload.klen >= payload.len - 4 THEN "MissingValue"
    ELSE IF payload.len < payload.klen + 8 + payload.vlen THEN "panic"
    ELSE IF ~payload.value_utf8 THEN "InvalidValue"
    ELSE "ok"

(* Seeded fault: the length of the payload of a get or delete is not         *)
(* compared with that of its key.                                            *)
parse_payload_any_len(payload, type) ==
    IF payload.len < 4 \/ payload.len < payload.klen + 4 THEN "panic"
    ELSE IF ~payload.key_utf8 THEN "InvalidKey"
    ELSE IF type = "Put" THEN ParsedValue(payload)
    ELSE "ok"

parse_payload(payload, type) ==
    IF payload.len < 4 \/ payload.len < payload.klen + 4 THEN "panic"
    ELSE IF ~payload.key_utf8 THEN "InvalidKey"
    ELSE IF type = "Put" THEN ParsedValue(payload)
    ELSE IF payload.klen < payload.len - 4 THEN "MalformedPayload"
    ELSE "ok"

(* TcpError::to_rc for the errors that are sent to the client.               *)
to_rc(error) ==
    CASE error = "InvalidKey" -> 4
      [] error = "InvalidValue" -> 5
      [] error = "MissingValue" -> 6
      [] error = "MalformedPayload" -> 7
      [] error = "InvalidRequestType" -> 8
      [] error = "UnsupportedVersion" -> 10
      [] error = "TimedOut" -> 11

(* Seeded fault: a code that stands for a parse error is given twice.        *)
StorageError_to_rc_clash(error) ==
    CASE error = "IoError" -> 3
      [] error = "NotFound" -> 4
      [] error = "Shutdown" -> 5

(* StorageEngineError::to_rc                                                *)
StorageError_to_rc(error) ==
    CASE error = "IoError" -> 1
      [] error = "NotFound" -> 2
      [] error = "Shutdown" -> 3
=============================================================================
