------------------------------- MODULE Server -------------------------------
(***************************************************************************)
(* The accept loop (Server::run, lib.rs) and the connection manager          *)
(* (tcp/connection_manager.rs), with the connections they start and wait     *)
(* for.  Drop for TcpConnection makes the future of its completion signal    *)
(* and never polls it: no such message is ever in the channel.               *)
(***************************************************************************)
EXTENDS Connection

CONSTANT
    Capacity    \* of the channel to the manager

ASSUME ServerAssumption ==
    /\ Capacity \in Nat \ {0}
    /\ Script \in [Clients -> Seq(SUBSET TcpRequests)]
    /\ EngineErrors \subseteq {"IoError", "Shutdown"}

VARIABLES
    do_cancel,  \* the token given to the server: it is to shut down
    server,     \* Server::run: program counter and the client just accepted
    channel,    \* start signals on their way to the manager
    manager,    \* ConnectionManager::run: "recv", "await" or "done"
    handles     \* the connections the manager knows

serverVars == <<do_cancel, server, channel, manager, handles>>
vars == <<connVars, token, serverVars>>

Init ==
    /\ ConnInit
    /\ do_cancel = FALSE
    /\ server = [pc |-> "check", accepted |-> {}]
    /\ channel = <<>>
    /\ manager = "recv"
    /\ handles = {}

-----------------------------------------------------------------------------
(* Server::run                                                              *)

(* The owner of the server cancels.                                          *)
Cancel ==
    /\ ~do_cancel
    /\ do_cancel' = TRUE
    /\ UNCHANGED <<connVars, token, server, channel, manager, handles>>

(* The loop looks at do_cancel before each accept and after the last one     *)
(* cancels the connections.                                                  *)
CheckCancelled ==
    /\ server.pc = "check"
    /\ server' = [server EXCEPT !.pc = IF do_cancel THEN "wait" ELSE "accept"]
    /\ token' = do_cancel
    /\ UNCHANGED <<connVars, do_cancel, channel, manager, handles>>

(* accept waits for a client, whether or not do_cancel is set meanwhile; the *)
(* connection's task is spawned before the manager is told of it.            *)
Accept(c) ==
    /\ server.pc = "accept" /\ client[c] = "connecting"
    /\ client' = [client EXCEPT ![c] = "open"]
    /\ conn' = [conn EXCEPT ![c].pc = "select"]
    /\ server' = [pc |-> "send", accepted |-> {c}]
    /\ UNCHANGED <<sent, written, read, answers, executed, token, do_cancel, channel, manager, handles>>

(* An error of accept ends run, and leaves the connections as they are.      *)
AcceptFails ==
    /\ server.pc = "accept"
    /\ server' = [server EXCEPT !.pc = "error"]
    /\ UNCHANGED <<connVars, token, do_cancel, channel, manager, handles>>

(* Seeded fault: the channel is taken to have room.                          *)
SendStartSignalUnbounded(c) ==
    /\ server.pc = "send" /\ c \in server.accepted
    /\ channel' = Append(channel, c)
    /\ server' = [pc |-> "check", accepted |-> {}]
    /\ UNCHANGED <<connVars, token, do_cancel, manager, handles>>

(* The send waits for room in the channel; when the manager has dropped its  *)
(* end it fails, which is ignored.                                           *)
SendStartSignal(c) ==
    /\ server.pc = "send" /\ c \in server.accepted
    /\ \/ /\ manager # "done" /\ Len(channel) < Capacity
          /\ channel' = Append(channel, c)
       \/ /\ manager = "done"
          /\ UNCHANGED channel
    /\ server' = [pc |-> "check", accepted |-> {}]
    /\ UNCHANGED <<connVars, token, do_cancel, manager, handles>>

(* run waits for the manager's task.                                         *)
RunReturns ==
    /\ server.pc = "wait" /\ manager = "done"
    /\ server' = [server EXCEPT !.pc = "returned"]
    /\ UNCHANGED <<connVars, token, do_cancel, channel, manager, handles>>

-----------------------------------------------------------------------------
(* ConnectionManager::run                                                   *)

(* Seeded fault: the manager does not wait for what it has in its map.       *)
ManagerReceivesAndEnds ==
    /\ manager = "recv" /\ channel # <<>>
    /\ channel' = Tail(channel)
    /\ IF do_cancel THEN manager' = "done" /\ UNCHANGED handles
       ELSE handles' = handles \cup {Head(channel)} /\ UNCHANGED manager
    /\ UNCHANGED <<connVars, token, do_cancel, server>>

(* Seeded fault: the manager does not look at the token.                     *)
ManagerReceivesAll ==
    /\ manager = "recv" /\ channel # <<>>
    /\ channel' = Tail(channel)
    /\ handles' = handles \cup {Head(channel)}
    /\ UNCHANGED <<connVars, token, do_cancel, server, manager>>

(* The token is looked at after a message has come, and that message is not  *)
(* looked at if it is set.                                                   *)
ManagerReceives ==
    /\ manager = "recv" /\ channel # <<>>
    /\ channel' = Tail(channel)
    /\ IF do_cancel THEN manager' = "await" /\ UNCHANGED handles
       ELSE handles' = handles \cup {Head(channel)} /\ UNCHANGED manager
    /\ UNCHANGED <<connVars, token, do_cancel, server>>

(* run has ended with an error: its sender is dropped, and those of the      *)
(* connections when they end.                                                *)
ChannelCloses ==
    /\ manager = "recv" /\ channel = <<>> /\ server.pc = "error"
    /\ \A c \in Clients : ~Running(c)
    /\ manager' = "await"
    /\ UNCHANGED <<connVars, token, do_cancel, server, channel, handles>>

(* The handles are awaited one after the other, which takes until the last   *)
(* task is over: it has returned or panicked.  The receiver is dropped with  *)
(* what is still in the channel.                                             *)
ManagerEnds ==
    /\ manager = "await" /\ \A c \in handles : ~Running(c)
    /\ manager' = "done"
    /\ channel' = <<>>
    /\ UNCHANGED <<connVars, token, do_cancel, server, handles>>

-----------------------------------------------------------------------------
ServerStep ==
    \/ CheckCancelled \/ RunReturns \/ \E c \in Clients : Accept(c) \/ SendStartSignal(c)

ManagerStep ==
    \/ ManagerReceives \/ ChannelCloses \/ ManagerEnds

Next ==
    \/ \E c \in Clients : (ClientStep(c) \/ ConnStep(c)) /\ UNCHANGED serverVars
    \/ Cancel \/ AcceptFails \/ ServerStep \/ ManagerStep

Spec == Init /\ [][Next]_vars

(* The tasks are scheduled and the clock goes on.  A client need not connect *)
(* or begin a request, but completes one that it has begun, or leaves: the   *)
(* reads after the first have no timeout.                                    *)
FairSpec ==
    /\ Spec
    /\ WF_vars(ServerStep) /\ WF_vars(ManagerStep)
    /\ \A c \in Clients :
          /\ WF_vars(ConnStep(c) /\ UNCHANGED serverVars)
          /\ WF_vars((ClientContinues(c) \/ ClientLeaves(c)) /\ UNCHANGED serverVars /\ written[c] % 4 # 0)

-----------------------------------------------------------------------------
(* Properties                                                               *)

Accepted(c) == conn[c].pc # "none"

(* A request that is to be executed: as TcpRequest::to_bytes makes it, but    *)
(* for bytes that are overlooked, behind the flags and behind the value of a  *)
(* put.                                                                     *)
Executable(request) ==
    LET head == request.head
        payload == request.payload
        plain == to_bytes(head.type, payload.klen, payload.vlen)
    IN
    /\ head.type \in RequestTypes
    /\ head.magic /\ head.version = plain.head.version /\ head.len >= plain.head.len
    /\ payload.key_utf8 /\ payload.value_utf8
    /\ \/ payload.len = plain.payload.len
       \/ payload.len > plain.payload.len /\ head.type = "Put"

(* A block is shorter than what it is said to hold.                          *)
Unreadable(request) ==
    \/ request.head.len < HeaderBytes("Put").len
    \/ request.payload.len < request.payload.klen + 4
    \/ request.head.type = "Put" /\ request.payload.len < PayloadBytes("Put", request.payload.klen,
                                                                       request.payload.vlen).len

TaskState ==
    [pc : {"none", "select", "headers", "payload_len", "payload", "call",
           "send_response", "send_error", "done", "panicked"},
     id : Nat, type : TypeBytes, code : Nat]

(* Every variable keeps its type.                                           *)
TypeOK ==
    /\ client \in [Clients -> {"new", "connecting", "open", "gone"}]
    /\ sent \in [Clients -> Seq(TcpRequests)]
    /\ written \in [Clients -> Nat] /\ read \in [Clients -> Nat]
    /\ conn \in [Clients -> TaskState]
    /\ answers \in [Clients -> Seq([id : Nat, code : Nat])]
    /\ executed \in [Clients -> Seq(Nat)]
    /\ \A c \in Clients :
          /\ read[c] <= written[c] /\ written[c] <= 4 * Len(sent[c])
          /\ Accepted(c) <=> client[c] \in {"open", "gone"}
    /\ token \in BOOLEAN /\ do_cancel \in BOOLEAN
    /\ server \in [pc : {"check", "accept", "send", "wait", "error", "returned"},
                   accepted : SUBSET Clients]
    /\ manager \in {"recv", "await", "done"} /\ handles \subseteq Clients
    /\ channel \in Seq(Clients) /\ Len(channel) <= Capacity

(* The responses come in the order of the requests, one for each and none    *)
(* left out, although headers that are refused leave their payload in the    *)
(* stream; only the close notification answers nothing, and nothing follows  *)
(* it.  (A client that has gone may miss one.)                               *)
AnswersInOrder ==
    \A c \in Clients : client[c] = "open" =>
        \A i \in DOMAIN answers[c] :
            \/ answers[c][i].id = i /\ 4 * i <= read[c] + 2
            \/ answers[c][i].id = 0 /\ i = Len(answers[c]) /\ ~Running(c)

(* The code of a response is that of the request it answers: a request made  *)
(* by to_bytes is executed and never refused as malformed, one that is not   *)
(* is refused (or has bytes that are overlooked).                            *)
AnswersMatch ==
    \A c \in Clients : \A i \in DOMAIN answers[c] :
        LET answer == answers[c][i] IN
        answer.id # 0 =>
            (answer.code < to_rc("InvalidKey") <=> Executable(sent[c][answer.id]))

(* A request is executed once, after those before it, and only if it has     *)
(* been read to its end: an answer that cannot be written, a cancellation or *)
(* a lost boundary never leads to a second execution or a wrong one.         *)
ExecutedOnce ==
    \A c \in Clients :
        /\ \A i, j \in DOMAIN executed[c] : i < j => executed[c][i] < executed[c][j]
        /\ \A i \in DOMAIN executed[c] :
              /\ 4 * executed[c][i] <= read[c]
              /\ Executable(sent[c][executed[c][i]])

(* When run has returned, every connection whose start signal the manager    *)
(* took before the cancellation is over; it overlooks no more than fill the  *)
(* channel and one.                                                          *)
RunWaits ==
    server.pc = "returned" =>
        /\ \A c \in handles : ~Running(c)
        /\ Cardinality({c \in Clients : Accepted(c)} \ handles) <= Capacity + 1

(* "request completes when cancel happens after starting recv"               *)
(* (connection_manager.rs:44): a request whose first length has been read    *)
(* before the cancellation is answered in spite of it, unless the client     *)
(* leaves, has sent no magic bytes, or has sent a block that is too short.    *)
StartedRequestsAnswered ==
    \A c \in Clients : \A i \in DOMAIN Script[c] :
        (conn[c].pc = "headers" /\ read[c] = 4 * i - 3)
            ~> \/ \E j \in DOMAIN answers[c] : answers[c][j].id = i
               \/ client[c] = "gone"
               \/ \E request \in {sent[c][j] : j \in {i} \cap DOMAIN sent[c]} :
                     \/ conn[c].pc = "panicked" /\ Unreadable(request)
                     \/ conn[c].pc = "done" /\ ~request.head.magic

(* When a client is accepted after the cancellation, the loop ends, every    *)
(* connection ends, and run returns: nobody waits for anybody.               *)
LateAcceptShutsDown ==
    (server.pc = "send" /\ do_cancel)
        ~> (server.pc = "returned" /\ \A c \in Clients : ~Running(c))

(* "When shutting down the server should wait for connection manager to       *)
(* finish and connection manager waits for all the connections to finish."   *)
(* (design.md:135)                                                          *)
ShutdownWaitsForAll ==
    server.pc = "returned" => \A c \in Clients : ~Running(c)

-----------------------------------------------------------------------------
(* The inductive invariant behind the properties above                      *)

(* Where in the stream a task is: behind a request, or, when the headers of   *)
(* one have been refused, in front of its payload.                           *)
InStep(c) ==
    LET pc == conn[c].pc
        id == conn[c].id
    IN
    /\ pc = "none" => read[c] = 0
    /\ pc = "select" => read[c] % 4 \in {0, 2}
    /\ pc = "headers" => read[c] % 4 \in {1, 3}
    /\ pc = "payload_len" => read[c] = 4 * id - 2
    /\ pc = "payload" => read[c] = 4 * id - 1
    /\ pc \in {"call", "send_response"} => read[c] = 4 * id
    /\ pc = "send_error" => read[c] \in {4 * id - 2, 4 * id}

(* What a task knows of the request it is at.                                *)
AtRequest(c) ==
    LET task == conn[c]
        request == sent[c][task.id]
    IN
    /\ task.pc \in {"payload_len", "payload", "call", "send_response", "send_error"} =>
          task.id \in DOMAIN sent[c]
    /\ task.pc \in {"payload_len", "payload", "call"} =>
          task.type = request.head.type /\ parse_headers(request.head) = "ok"
    /\ task.pc = "call" => parse_payload(request.payload, task.type) = "ok"
    /\ task.pc \in {"send_response", "send_error"} =>
          (task.code < to_rc("InvalidKey") <=> Executable(request))

(* The history of a connection.                                             *)
Answered(c) ==
    \A i \in DOMAIN answers[c] :
        answers[c][i].id # 0 =>
            /\ answers[c][i].id \in DOMAIN sent[c]
            /\ answers[c][i].code < to_rc("InvalidKey") <=> Executable(sent[c][answers[c][i].id])

Executed(c) ==
    /\ \A i, j \in DOMAIN executed[c] : i < j => executed[c][i] < executed[c][j]
    /\ \A i \in DOMAIN executed[c] :
          /\ executed[c][i] \in DOMAIN sent[c]
          /\ 4 * executed[c][i] <= read[c]
          /\ conn[c].pc = "call" => executed[c][i] < conn[c].id
          /\ Executable(sent[c][executed[c][i]])

(* The number of answers a client that has not gone has got.                 *)
Counted(c) ==
    LET n == Len(answers[c]) IN
    /\ \A i \in DOMAIN answers[c] : 4 * i <= read[c] + 2 \/ answers[c][i].id = 0
    /\ conn[c].pc = "none" => n = 0
    /\ conn[c].pc = "select" => 4 * n \in {read[c], read[c] + 2}
    /\ conn[c].pc = "headers" => 4 * n \in {read[c] - 1, read[c] + 1}
    /\ conn[c].pc \in {"payload_len", "payload", "call", "send_response", "send_error"} =>
          n = conn[c].id - 1
    /\ \A i \in DOMAIN answers[c] :
          answers[c][i].id = i \/ (answers[c][i].id = 0 /\ i = n /\ ~Running(c))

(* The connections the manager has not been told of, or has overlooked.      *)
Unknown == {c \in Clients : Accepted(c)} \ handles

InChannel == {channel[i] : i \in DOMAIN channel}

(* Until it ends, they are on their way to it; then one is lost, those in    *)
(* the channel, and one that the accept loop may still be waiting for.       *)
OnTheWay ==
    /\ server.accepted # {} <=> server.pc = "send"
    /\ Cardinality(server.accepted) <= 1 /\ IsFiniteSet(server.accepted)
    /\ manager = "recv" => Unknown \subseteq InChannel \cup server.accepted
    /\ manager # "recv" =>
          /\ do_cancel \/ server.pc = "error"
          /\ IsFiniteSet(Unknown) /\ Cardinality(Unknown) <= Capacity + 1
          /\ server.pc = "accept" => Cardinality(Unknown) <= Capacity
    /\ manager = "done" => \A c \in handles : ~Running(c)
    /\ server.pc = "returned" => manager = "done"
    /\ \A c \in handles \cup server.accepted \cup InChannel : Accepted(c)

(* The conjunction is preserved by every step.                               *)
Inductive ==
    /\ TypeOK /\ OnTheWay
    /\ \A c \in Clients :
          /\ InStep(c) /\ AtRequest(c) /\ Answered(c) /\ Executed(c)
          /\ client[c] # "gone" => Counted(c)
=============================================================================
