----------------------------- MODULE Connection -----------------------------
(***************************************************************************)
(* The connections of the server, one task each (tcp/connection.rs), with    *)
(* the clients at their other ends.                                          *)
(*                                                                         *)
(* What a client sends is a sequence of parts, four to a request: the length *)
(* of the headers, the headers, the length of the payload, the payload.  The *)
(* client may stop after any of them, or leave.  The connection reads a      *)
(* length and a block of that length, so that it stays at the boundary of a  *)
(* part, but not necessarily at that of a request.                           *)
(***************************************************************************)
EXTENDS Protocol, FiniteSets

CONSTANTS
    Clients,
    Script,     \* for each client, the sequence of the sets its requests are from
    EngineErrors    \* errors of the storage engine: "IoError", "Shutdown"



VARIABLES
    client,     \* "new", "connecting", "open" or "gone"
    sent,       \* the requests each client has begun to send
    written,    \* the number of parts it has written
    read,       \* the number of parts the connection has read
    conn,       \* the connection's task: program counter and local variables
    token,      \* the server's cancellation token, shared by the connections
    answers,    \* the responses written: correlation id and response code
    executed    \* the requests passed on to the storage engine

connVars == <<client, sent, written, read, conn, answers, executed>>

(* A connection that has not been accepted; the correlation id of a request  *)
(* is its place in the sequence of its client, 0 stands for the nil uuid.    *)
NoTask == [pc |-> "none", id |-> 0, type |-> "Get", code |-> 0]

Running(c) == conn[c].pc \notin {"none", "done", "panicked"}

Goto(c, pc) == [conn EXCEPT ![c].pc = pc]

-----------------------------------------------------------------------------
(* The client                                                               *)

ClientConnects(c) ==
    /\ client[c] = "new"
    /\ client' = [client EXCEPT ![c] = "connecting"]
    /\ UNCHANGED <<sent, written, read, conn, token, answers, executed>>

(* (What a client writes before its connection is accepted is there when it  *)
(* is, as if it were written right after.)                                   *)
ClientBegins(c, request) ==
    /\ client[c] = "open" /\ written[c] % 4 = 0
    /\ Len(sent[c]) < Len(Script[c]) /\ request \in Script[c][Len(sent[c]) + 1]
    /\ sent' = [sent EXCEPT ![c] = Append(@, request)]
    /\ written' = [written EXCEPT ![c] = @ + 1]
    /\ UNCHANGED <<client, read, conn, token, answers, executed>>

ClientContinues(c) ==
    /\ client[c] = "open" /\ written[c] % 4 # 0
    /\ written' = [written EXCEPT ![c] = @ + 1]
    /\ UNCHANGED <<client, sent, read, conn, token, answers, executed>>

ClientLeaves(c) ==
    /\ client[c] = "open"
    /\ client' = [client EXCEPT ![c] = "gone"]
    /\ UNCHANGED <<sent, written, read, conn, token, answers, executed>>

-----------------------------------------------------------------------------
(* Reading                                                                  *)

Ready(c) == read[c] < written[c]

(* The request and the block that the next part belongs to.                  *)
NextId(c) == read[c] \div 4 + 1
InPayload(c) == read[c] % 4 >= 2

(* What is read as headers.  A payload begins with the length of its key,    *)
(* which ServerAssumption keeps from passing for the magic bytes.            *)
HeaderBlock(c) ==
    IF InPayload(c)
    THEN LET payload == sent[c][NextId(c)].payload
         IN  [len |-> payload.len, magic |-> payload.klen = MAGIC_NUMBER]
    ELSE sent[c][NextId(c)].head

ReadPart(c) == read' = [read EXCEPT ![c] = @ + 1]

(* The select of start: recv_header_len within the timeout ...               *)
RecvHeaderLen(c) ==
    /\ conn[c].pc = "select" /\ Ready(c)
    /\ ReadPart(c)
    /\ conn' = Goto(c, "headers")
    /\ UNCHANGED <<client, sent, written, token, answers, executed>>

(* send_close_notification: whether it is written does not matter.           *)
CloseNotify(c) ==
    /\ conn' = Goto(c, "done")
    /\ answers' \in {[answers EXCEPT ![c] = Append(@, [id |-> 0, code |-> to_rc("TimedOut")])]}
                    \cup (IF client[c] = "gone" THEN {answers} ELSE {})
    /\ UNCHANGED <<client, sent, written, read, token, executed>>

(* ... which runs out when no length has come in time ...                    *)
TimesOut(c) ==
    /\ conn[c].pc = "select" /\ ~Ready(c) /\ client[c] = "open"
    /\ CloseNotify(c)

(* Seeded fault: the token is looked at while a request is being read, too.  *)
CancelledAnywhere(c) ==
    /\ conn[c].pc \in {"select", "headers", "payload_len", "payload"} /\ token
    /\ CloseNotify(c)

(* ... or the token; when both are ready, either is taken.                   *)
Cancelled(c) ==
    /\ conn[c].pc = "select" /\ token
    /\ CloseNotify(c)

(* The end of the stream, or an error of the socket, at any read.            *)
ReadFails(c) ==
    /\ conn[c].pc \in {"select", "headers", "payload_len", "payload"}
    /\ ~Ready(c) /\ client[c] = "gone"
    /\ conn' = Goto(c, "done")
    /\ UNCHANGED <<client, sent, written, read, token, answers, executed>>

(* Seeded fault: the connection goes on after wrong magic bytes.             *)
ParsedGoesOn(task, result, next) ==
    CASE result = "ok" -> next
      [] result = "panic" -> [task EXCEPT !.pc = "panicked"]
      [] result = "WrongMagicBytes" -> [task EXCEPT !.pc = "select"]
      [] OTHER -> [task EXCEPT !.pc = "send_error", !.code = to_rc(result)]

(* What parsing leads to: the next state of the task.  A parse error is      *)
(* answered with the correlation id of the headers.                          *)
Parsed(task, result, next) ==
    CASE result = "ok" -> next
      [] result = "panic" -> [task EXCEPT !.pc = "panicked"]
      [] result = "WrongMagicBytes" -> [task EXCEPT !.pc = "done"]
      [] OTHER -> [task EXCEPT !.pc = "send_error", !.code = to_rc(result)]

(* recv_headers and parse_headers.  An error leaves the payload unread.      *)
RecvHeaders(c) ==
    /\ conn[c].pc = "headers" /\ Ready(c)
    /\ ReadPart(c)
    /\ conn' = [conn EXCEPT ![c] =
          LET task == [@ EXCEPT !.id = NextId(c)] IN
          Parsed(task, parse_headers(HeaderBlock(c)),
                 [task EXCEPT !.pc = "payload_len", !.type = sent[c][NextId(c)].head.type])]
    /\ UNCHANGED <<client, sent, written, token, answers, executed>>

RecvPayloadLen(c) ==
    /\ conn[c].pc = "payload_len" /\ Ready(c)
    /\ ReadPart(c)
    /\ conn' = Goto(c, "payload")
    /\ UNCHANGED <<client, sent, written, token, answers, executed>>

RecvPayload(c) ==
    /\ conn[c].pc = "payload" /\ Ready(c)
    /\ ReadPart(c)
    /\ conn' = [conn EXCEPT ![c] =
          Parsed(@, parse_payload(sent[c][NextId(c)].payload, @.type), [@ EXCEPT !.pc = "call"])]
    /\ UNCHANGED <<client, sent, written, token, answers, executed>>

-----------------------------------------------------------------------------
(* Executing and answering                                                  *)

(* call_storage_engine: a result or an error; a get may find nothing, which   *)
(* is made an error.                                                        *)
Outcomes(type) ==
    {0} \cup {StorageError_to_rc(e) : e \in EngineErrors \cup (IF type = "Get" THEN {"NotFound"} ELSE {})}

CallStorageEngine(c) ==
    /\ conn[c].pc = "call"
    /\ executed' = [executed EXCEPT ![c] = Append(@, conn[c].id)]
    /\ \E code \in Outcomes(conn[c].type) :
          conn' = [conn EXCEPT ![c].code = code,
                               ![c].pc = IF code = 0 THEN "send_response" ELSE "send_error"]
    /\ UNCHANGED <<client, sent, written, read, token, answers>>

(* send_response, send_internal_error_response and send_tcp_error_response:  *)
(* the task goes on to the next request.                                     *)
SendAnswer(c) ==
    /\ conn[c].pc \in {"send_response", "send_error"}
    /\ answers' = [answers EXCEPT ![c] = Append(@, [id |-> conn[c].id, code |-> conn[c].code])]
    /\ conn' = Goto(c, "select")
    /\ UNCHANGED <<client, sent, written, read, token, executed>>

(* The client has gone: a response that cannot be written is forgotten, an   *)
(* error that cannot be written ends the connection.                         *)
SendFails(c) ==
    /\ conn[c].pc \in {"send_response", "send_error"} /\ client[c] = "gone"
    /\ conn' = Goto(c, IF conn[c].pc = "send_response" THEN "select" ELSE "done")
    /\ UNCHANGED <<client, sent, written, read, token, answers, executed>>

-----------------------------------------------------------------------------
ConnInit ==
    /\ client = [c \in Clients |-> "new"]
    /\ sent = [c \in Clients |-> <<>>]
    /\ written = [c \in Clients |-> 0]
    /\ read = [c \in Clients |-> 0]
    /\ conn = [c \in Clients |-> NoTask]
    /\ token = FALSE
    /\ answers = [c \in Clients |-> <<>>]
    /\ executed = [c \in Clients |-> <<>>]

ClientStep(c) ==
    \/ ClientConnects(c) \/ ClientContinues(c) \/ ClientLeaves(c)
    \/ \E request \in UNION {Script[c][i] : i \in DOMAIN Script[c]} : ClientBegins(c, request)

ConnStep(c) ==
    \/ RecvHeaderLen(c) \/ TimesOut(c) \/ Cancelled(c) \/ ReadFails(c)
    \/ RecvHeaders(c) \/ RecvPayloadLen(c) \/ RecvPayload(c)
    \/ CallStorageEngine(c) \/ SendAnswer(c) \/ SendFails(c)
=============================================================================
